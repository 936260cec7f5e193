CONSTANTS
  Nodes = {a, b, s}
  Singles = {{}, {s}}
  MaxKids = 2
  MaxHeld = 2
  MaxRefs = 4
  StackBound = 60
  FailSites = {"config", "subset"}
  Reconfig = "acyclic"
  Sharing = "none"
SPECIFICATION Spec
INVARIANTS NoFault HeldIntact Reclaimed
PROPERTIES Returns
CHECK_DEADLOCK FALSE
