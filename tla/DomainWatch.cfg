SPECIFICATION FairSpec
CONSTANTS
  InstancesMax = 2
  QueueMax = 1
CHECK_DEADLOCK FALSE
PROPERTIES NothingMissed AttachedIsServed StoppedIsRetired
