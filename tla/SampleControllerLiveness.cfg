SPECIFICATION FairSpec
CONSTANTS
  ReplicaCounts <- OneCount
  Templates = {t1}
  StatusSubresource = TRUE
  Disturbances = {"create", "delete", "remove", "relistChild", "fault", "lostReply", "statusFault", "tick", "crash"}
  MaxDisturbances = 3
PROPERTIES AlwaysQuietAgain EventuallyConsistent ChildrenFollow KeepsLifecycle
CHECK_DEADLOCK FALSE
