\* Composition against a statement of the documentation.
CONSTANTS
  MaxDps = 3
  MaxFns = 2
  MaxIn = 2
  MaxOut = 1
  PhaseHalf = 4
  NameArgs = {"fits", "long"}
  DpTypeArgs = {"BOOL", "INT", "other"}
  FnTypeArgs = {"INVERT_BOOL_RET_BOOL", "AND_BOOL_BOOL_RET_BOOL", "other"}
  CreatePhases <- MCCreatePhases
  InArgs <- MCInArgs
  OutArgs <- MCOutArgs
VIEW GridView
SPECIFICATION BuildSpec
INVARIANTS NoSelfFeed
