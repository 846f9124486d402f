SPECIFICATION Spec
CONSTANTS
  Functions <- AllFunctions
  Arg = "a"
  Named <- Registers
  Unnamed = {"ret_reg", "old_exc"}
  MaxObjects = 8
  Shapes = {"if", "loop", "for", "try", "finally"}
  RenewInTry = FALSE
INVARIANTS
  UndefinedIsCaught
  ReferencesBalance
CHECK_DEADLOCK FALSE
