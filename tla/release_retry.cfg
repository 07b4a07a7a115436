SPECIFICATION ReleaseSpec
CONSTANTS
  Methods = {m1}
  Documented = {m1}
  MinMethods = 1
  Libraries <- MCLibraries
  Rest <- MCRest
  Needs <- MCNeeds
  MaxVersion = 2
  MaxFaults = 1
PROPERTIES DuplicateTolerated
CHECK_DEADLOCK FALSE
