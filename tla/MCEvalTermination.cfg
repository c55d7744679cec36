\* A cycle whose callback returns, and does not move the cursor back, ends.
CONSTANTS
  MaxDps = 2
  MaxFns = 2
  MaxIn = 2
  MaxOut = 1
  PhaseHalf = 2
  NameArgs = {"fits"}
  DpTypeArgs = {"BOOL"}
  FnTypeArgs = {"AND_BOOL_BOOL_RET_BOOL"}
  CreatePhases <- MCCreatePhases
  InArgs <- MCInArgsOne
  OutArgs <- MCOutArgsOne
  MaxDepth = 1
  InCallback = {"build", "set"}
  MidCycle = {"init", "build", "set", "reset", "run"}
SPECIFICATION FairEvalSpec
PROPERTIES Termination
