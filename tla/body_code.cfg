SPECIFICATION Spec
CONSTANTS
  ValueTypes = {"i32", "i64"}
  Size <- MCSize
  Params <- OneI32
  Locals <- OneI64
  Result = "i32"
  Consts = {0, 1}
  PlainOps <- Plains
  Opcodes = {"unreachable", "nop", "block", "loop", "if", "br", "br_if", "return", "br_table", "const", "drop", "select", "get_local", "set_local", "tee_local"}
  MaxOps = 9
  Tried <- Bodies
  PlainTried <- AnyPlain
  MaxCases = 1
  MaxNested = 2
  MaxLocalBytes = 24
  ElemSize = 8
  OpcodeSize = 24
ACTION_CONSTRAINT OneArgument
INVARIANTS TypeOK FlatMatchesStructured DepthBounded OperandsAsTracked CodeFits BranchesLand
CHECK_DEADLOCK FALSE
