\* Two deliveries of any kind, one retry, one scene change per run.
SPECIFICATION Spec
CONSTANTS
  Deliveries = {d1, d2}
  Kinds = {"command", "checkout", "payment", "keyless"}
  Scenes = {"form", "done"}
  NoValue = "none"
  Transitions <- MCTransitions
  RouteTables <- MCRouteTables
  MiddlewareTables <- MCMiddlewareTables
  LateRoutes <- MCLateRoutes
  ConflictRetries = 1
  MaxMoves = 1
SYMMETRY DeliverySymmetry
INVARIANTS   GatesHold PaymentsFulfilled
PROPERTIES DispatchesBest
CHECK_DEADLOCK FALSE
