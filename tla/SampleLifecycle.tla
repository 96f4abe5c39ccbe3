-------------------------- MODULE SampleLifecycle --------------------------
(***************************************************************************)
(* What the SampleResource controller promises about the life of one       *)
(* SampleResource name and of the children made for it.  An incarnation is *)
(* created, guarded by the finalizer, marked for deletion and released.    *)
(* A child is only ever made for the incarnation that is there and         *)
(* guarded: nothing is born to an owner that is already gone.              *)
(***************************************************************************)
EXTENDS Naturals

CONSTANT Kinds

VARIABLES
  life,    \* where the current incarnation is in its life
  uid,     \* number of the current, or last, incarnation
  owner    \* for each kind of child the incarnation that owns it, or none

None == 0

lifeVars == <<life, uid, owner>>

Lives == {"absent", "created", "guarded", "terminating"}

LifeInit ==
  /\ life = "absent" /\ uid = 0
  /\ owner = [k \in Kinds |-> None]

Create ==
  /\ life = "absent"
  /\ life' = "created" /\ uid' = uid + 1
  /\ UNCHANGED owner

Guard ==
  /\ life = "created"
  /\ life' = "guarded"
  /\ UNCHANGED <<uid, owner>>

\* Before it is guarded an incarnation simply disappears.
Terminate ==
  /\ \/ life = "created" /\ life' = "absent"
     \/ life = "guarded" /\ life' = "terminating"
  /\ UNCHANGED <<uid, owner>>

Release ==
  /\ life = "terminating"
  /\ life' = "absent"
  /\ UNCHANGED <<uid, owner>>

Beget(k) ==
  /\ life \in {"guarded", "terminating"}
  /\ owner[k] = None
  /\ owner' = [owner EXCEPT ![k] = uid]
  /\ UNCHANGED <<life, uid>>

Lose(k) ==
  /\ owner[k] # None
  /\ owner' = [owner EXCEPT ![k] = None]
  /\ UNCHANGED <<life, uid>>

IsOrphan(k) == owner[k] # None /\ (life = "absent" \/ owner[k] # uid)

LoseOrphan(k) == IsOrphan(k) /\ Lose(k)

LifeNext ==
  \/ Create \/ Guard \/ Terminate \/ Release
  \/ \E k \in Kinds : Beget(k) \/ Lose(k)

LifeSpec == LifeInit /\ [][LifeNext]_lifeVars

\* A deletion completes, and no orphan stays.
LiveSpec ==
  /\ LifeSpec
  /\ WF_lifeVars(Release)
  /\ \A k \in Kinds : WF_lifeVars(LoseOrphan(k))
=============================================================================
