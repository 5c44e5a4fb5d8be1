SPECIFICATION ConsoleFairSpec
CONSTANTS
  Scripts <- MCScripts
  Gates <- MCGates
  Marked = TRUE
  Blocked = 2
  MaxNoise = 2
  IdleAt = 2
INVARIANTS NoByteLost
PROPERTIES CommandSafe ScriptTyped
CHECK_DEADLOCK FALSE
