\* Calls, host functions that execute again, exceptions and exit.
SPECIFICATION Spec
CONSTANTS
  Functions = {"f", "g", "h"}
  Imports = {"h"}
  Params <- MCParams
  Locals <- MCLocals
  Results <- MCResults
  StackSize <- MCSizes
  MaxStack = 4
  Values = {0, 1}
  Zero = 0
  MaxOperands = 2
  MaxNative = 4
INVARIANTS TypeOK BudgetExact IdleIsClean ExitStopsCode
PROPERTIES ImplementsCallFrames
