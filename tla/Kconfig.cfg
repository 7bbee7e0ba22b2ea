SPECIFICATION KconfigSpec
CONSTANTS
  ExprLeaves <- MCLeaves
  ExprType <- MCType
  MaxLeaves = 3
  MaxNots = 1
  MenuSyms <- MCSyms
  Statements <- MCStatements
  MaxStatements = 4
  Kconfigs <- MCKconfigs
  NameCode <- MCNameCode
  EditedFiles <- MCFiles
  Numbers = {3, 12}
  MaxEdits = 2
  BSyms = {"T", "N"}
  BNumeric = {"N"}
  BValues = {0, 1, 2, 7}
  BFiles = {"a.c", "c.h"}
  Objects = {"o"}
  FilesOf <- MCFilesOf
  Texts <- MCTexts
  Defaults <- MCDefaults
  MaxChanges = 2
  MaxKills = 1
  PreAssignments <- MCAssignments
  Uses <- MCUses
  Environment <- MCEnvironment
  ShellOutput <- MCShellOutput
  ShellBuf = 5
  MaxDepth = 4
  MaxAssigned = 3
  ItemCounts = {0, 2, 6}
  WindowRows = {1, 3, 4, 6}
  HotKey <- MCHotKey
  Letters = {"b", "s", "n"}
  MaxKeys = 3
  MaxLen = 4
  FieldWidths = {1, 2, 3}
  FirstTexts <- MCFirstTexts
  Typed = {"a", "h", "o"}
  MaxInput = 5
  LineMax = 4
  Pages <- MCPages
  BoxHeights = {1, 2, 4}
  BoxWidth = 4
  MaxPaging = 4
INVARIANT ExpressionsKept
INVARIANT MenusAsWritten
INVARIANT SymbolsSound
INVARIANT BuildSound
INVARIANT DialogsExact
PROPERTY PagingKeepsPlace
CHECK_DEADLOCK FALSE
