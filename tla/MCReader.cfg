\* The reader, on the texts of documents and on the texts cut short.
CONSTANTS
  MaxDps = 3
  MaxFns = 2
  MaxIn = 2
  MaxOut = 1
  PhaseHalf = 2
  Depth = 6
  Docs <- MCDocs
  Texts <- MCTexts
SPECIFICATION ReaderSpec
INVARIANTS AddressesKnown StacksInStep CutNeverAccepted ReadsAsImport
CHECK_DEADLOCK FALSE
