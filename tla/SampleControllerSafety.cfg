SPECIFICATION Spec
CONSTANTS
  ReplicaCounts <- TwoCounts
  Templates = {t1}
  StatusSubresource = TRUE
  Disturbances = {"create", "edit", "delete", "scale", "remove", "foreign", "rollout", "relist", "resync", "tick", "fault", "lostReply", "crash"}
  MaxDisturbances = 3
INVARIANTS TypeOK QuietMeansConverged QuietMeansObserved StatusDescribesSpec
PROPERTIES UserIntentPreserved ChildBornToLiveOwner
CHECK_DEADLOCK FALSE
