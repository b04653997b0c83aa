SPECIFICATION Spec
CONSTANTS
  ValueTypes = {"i32", "v128"}
  Size <- MCSize
  Params <- OneI32
  Locals <- OneV128
  Result = "i32"
  Consts = {1}
  PlainOps <- NoOps
  Opcodes = {"block", "br", "select", "get_local", "set_local"}
  MaxOps = 9
  Tried <- AnyBody
  PlainTried <- AnyPlain
  ArgsTried <- AnyArgument
  MaxCases = 0
  MaxNested = 2
  MaxLocalBytes = 100
  ElemSize = 8
  OpcodeSize = 24
  Literal <- MCLiteral
  NewStore <- MCStore
  Offsets = {0, 3, 130}
  LaneOf <- MCLaneOf
  Shuffles <- MCShuffles
  eosio_fp = FALSE
  PageBytes = 144
  MaxPages = 2
  has_tzcnt = FALSE
  Stride = 64
  MaxPushes = 14
INVARIANT SameOperands
CHECK_DEADLOCK FALSE
