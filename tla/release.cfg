SPECIFICATION FairRelease
CONSTANTS
  Methods = {m1, m2}
  Documented = {m1}
  MinMethods = 1
  Libraries <- MCLibraries
  Rest <- MCRest
  Needs <- MCNeeds
  MaxVersion = 2
  MaxFaults = 1
INVARIANTS DependsOnPublished
PROPERTIES  ReleaseCompletes
CHECK_DEADLOCK FALSE
