CONSTANTS
  PC <- MCPC
  pc_rtvec = 0
  Word = {}
  NoInstr = NoInstr
  ITCM_OUTS_NUM = 1
  ITCM_HW = 12
  PC_HW = 16
  itcm_nohold = FALSE
  ErrLanes <- MCErrLanes
  prog <- MCProg
  FlushPcs <- MCFlushPcs
  Junks <- MCJunks
  HaltFlush = FALSE
SPECIFICATION FetchSpec
INVARIANTS
  FetchedExact
  HoldupIsIfuLane
  IfuSleepsQuietly
