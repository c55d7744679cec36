\* Two functions of two inputs: the cycle, stopped, failing and resumed, against the abstract dataflow.
CONSTANTS
  MaxDps = 5
  MaxFns = 2
  MaxIn = 2
  MaxOut = 1
  PhaseHalf = 2
  NameArgs = {"fits"}
  DpTypeArgs = {"BOOL"}
  FnTypeArgs = {"AND_BOOL_BOOL_RET_BOOL"}
  CreatePhases <- MCCreatePhases
  InArgs <- MCInArgs
  OutArgs <- MCOutArgs
  MaxDepth = 1
  InCallback = {}
  MidCycle = {}
  FeedLimit = 1
SPECIFICATION FairTickSpec
INVARIANTS DisagreementIsPending SettledBetweenCycles
PROPERTIES ImplementsDataflow CycleCompletes
