\* A full grid, written and read.
CONSTANTS
  MaxDps = 3
  MaxFns = 2
  MaxIn = 2
  MaxOut = 1
  PhaseHalf = 2
  NameArgs = {"fits"}
  DpTypeArgs = {"BOOL"}
  FnTypeArgs = {"AND_BOOL_BOOL_RET_BOOL"}
  CreatePhases <- MCCreatePhases
  InArgs <- MCInArgs
  OutArgs <- MCOutArgs
  MaxDepth = 1
  InCallback = {}
  MidCycle = {"build", "set", "reset", "run", "io"}
  ForeignDocs = {}
  ImportBinAt = "fresh"
  IoForms = {"json"}
VIEW IoView
SPECIFICATION ExportSpec
INVARIANTS FullReadsBack
