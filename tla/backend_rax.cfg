SPECIFICATION Spec
CONSTANTS
  ValueTypes = {"i32", "i64", "f32", "f64", "v128"}
  Size <- MCSize
  Params <- NoTypes
  Locals <- AllLocals
  Result = "i32"
  Consts = {1, 2, 3, 4, 5}
  PlainOps <- PageCounts
  Opcodes = {"const"}
  MaxOps = 4
  Tried <- AnyBody
  PlainTried <- AnyPlain
  ArgsTried <- AnyArgument
  MaxCases = 0
  MaxNested = 1
  MaxLocalBytes = 100
  ElemSize = 8
  OpcodeSize = 24
  Literal <- MCLiteral
  NewStore <- MCStore
  Offsets = {0, 3, 130}
  LaneOf <- MCLaneOf
  Shuffles <- MCShuffles
  eosio_fp = FALSE
  PageBytes = 144
  MaxPages = 2
  has_tzcnt = FALSE
  Stride = 64
  MaxPushes = 14
INVARIANT SameOperands
CHECK_DEADLOCK FALSE
