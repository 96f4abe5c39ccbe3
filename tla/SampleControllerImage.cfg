SPECIFICATION Spec
CONSTANTS
  ReplicaCounts <- OneCount
  Templates = {t1, t2}
  StatusSubresource = TRUE
  Disturbances = {"create", "edit"}
  MaxDisturbances = 2
INVARIANT RunningMeansSpecApplied
CHECK_DEADLOCK FALSE
