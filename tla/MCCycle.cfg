\* Every call anywhere: between the runs of a cycle, from callbacks, and a cycle from a callback of another.
CONSTANTS
  MaxDps = 3
  MaxFns = 2
  MaxIn = 2
  MaxOut = 1
  PhaseHalf = 2
  NameArgs = {"fits"}
  DpTypeArgs = {"BOOL"}
  FnTypeArgs = {"AND_BOOL_BOOL_RET_BOOL"}
  CreatePhases <- MCCreatePhases
  InArgs <- MCInArgs
  OutArgs <- MCOutArgs
  MaxDepth = 2
  InCallback = {"init", "build", "set", "reset", "run"}
  MidCycle = {"init", "build", "set", "reset", "run"}
VIEW CycleView
SPECIFICATION CycleSpec
INVARIANTS EvalTypeOK IndexCurrent IndexComplete IndexOrdered IndexTopological PassedConsumed
PROPERTIES AllConsumed RunsNeverFail
