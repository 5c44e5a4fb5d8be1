CONSTANTS
  W = 4
  Matches = {{}, {2}}
  Rings = {1}
  Pages = {"ok", "warn"}
  MaxVi = 2
SPECIFICATION BlockSpec
INVARIANT EveryElementOnce
PROPERTY Completes
