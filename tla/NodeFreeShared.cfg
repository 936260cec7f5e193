CONSTANTS
  Nodes = {a, b, c}
  Singles = {{}}
  MaxKids = 2
  MaxHeld = 3
  MaxRefs = 5
  StackBound = 60
  FailSites = {}
  Reconfig = "never"
  Sharing = "any"
SPECIFICATION Spec
INVARIANTS HeldIntact
CHECK_DEADLOCK FALSE
