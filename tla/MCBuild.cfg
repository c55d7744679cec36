\* Every composition call with every refusal, on grids of up to three functions in three phases.
CONSTANTS
  MaxDps = 3
  MaxFns = 3
  MaxIn = 2
  MaxOut = 1
  PhaseHalf = 4
  NameArgs = {"fits", "long"}
  DpTypeArgs = {"BOOL", "INT", "other"}
  FnTypeArgs = {"INVERT_BOOL_RET_BOOL", "AND_BOOL_BOOL_RET_BOOL", "other"}
  CreatePhases <- MCCreatePhases
  InArgs <- MCInArgs
  OutArgs <- MCOutArgs
VIEW GridView
SPECIFICATION BuildSpec
INVARIANTS TypeOK Integrity PhaseOrdered Acyclic SlotsClean
