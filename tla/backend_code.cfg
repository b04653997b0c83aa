SPECIFICATION Spec
CONSTANTS
  ValueTypes = {"i32", "i64", "f32", "f64", "v128"}
  Size <- MCSize
  Params <- OneI32
  Locals <- AllLocals
  Result = "i32"
  Consts = {1, 2, 3, 4, 5}
  PlainOps <- OpcodeOps
  Opcodes = {"block", "loop", "if", "br", "br_if", "br_table", "drop", "select", "get_local", "set_local", "tee_local", "const"}
  MaxOps = 8
  Tried <- Bodies
  PlainTried <- PlainOfBodies
  ArgsTried <- FewArguments
  MaxCases = 2
  MaxNested = 3
  MaxLocalBytes = 100
  ElemSize = 8
  OpcodeSize = 24
  Literal <- MCLiteral
  NewStore <- MCStore
  Offsets = {0, 3, 130}
  LaneOf <- MCLaneOf
  Shuffles <- MCShuffles
  eosio_fp = FALSE
  PageBytes = 144
  MaxPages = 2
  has_tzcnt = FALSE
  Stride = 64
  MaxPushes = 4
INVARIANTS SameWay SameOperands SameStore SameResult ContextKept SlotsBounded FloatsMatchReference
CHECK_DEADLOCK FALSE
