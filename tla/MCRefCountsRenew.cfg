SPECIFICATION Spec
CONSTANTS
  Functions <- AllFunctions
  Arg = "a"
  Named <- Registers
  Unnamed = {"ret_reg", "old_exc"}
  MaxObjects = 8
  Shapes = {"try"}
  RenewInTry = TRUE
INVARIANTS
  UndefinedIsCaught
CHECK_DEADLOCK FALSE
