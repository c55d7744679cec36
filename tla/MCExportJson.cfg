\* Grids written as JSON and read again, and documents from elsewhere.
CONSTANTS
  MaxDps = 3
  MaxFns = 2
  MaxIn = 2
  MaxOut = 1
  PhaseHalf = 2
  NameArgs = {"fits"}
  DpTypeArgs = {"BOOL", "REAL", "other"}
  FnTypeArgs = {"AND_BOOL_BOOL_RET_BOOL"}
  CreatePhases <- MCCreatePhases
  InArgs <- MCInArgs
  OutArgs <- MCOutArgs
  MaxDepth = 1
  InCallback = {}
  MidCycle = {"build", "set", "reset", "run", "io"}
  ForeignDocs <- MCForeignDocs
  ImportBinAt = "fresh"
  IoForms = {"json"}
VIEW IoView
SPECIFICATION ExportSpec
INVARIANTS IndexSane RoomyReadsBack
