\* Snapshots brought back into any runtime.
CONSTANTS
  MaxDps = 2
  MaxFns = 2
  MaxIn = 2
  MaxOut = 1
  PhaseHalf = 2
  NameArgs = {"fits"}
  DpTypeArgs = {"BOOL"}
  FnTypeArgs = {"AND_BOOL_BOOL_RET_BOOL"}
  CreatePhases <- MCCreatePhases
  InArgs <- MCInArgsOne
  OutArgs <- MCOutArgs
  MaxDepth = 1
  InCallback = {}
  MidCycle = {"build", "set", "reset", "run", "io"}
  ForeignDocs <- MCForeignDocs
  ImportBinAt = "any"
  IoForms = {"bin"}
VIEW IoView
SPECIFICATION ExportSpec
INVARIANTS IndexSane
