CONSTANTS
  Plain <- MCPlain
  Wide <- MCWide
  BlockTag <- MCBlockTag
  RoleOf <- MCRoleOf
  Data <- MCData
  MaxHeard = 3
  MaxCells = 2
  MaxTables = 2
  PlainText <- MCPlainText
  Paragraph <- MCParagraph
  DocxTable <- MCDocxTable
  MaxSegments = 4
  PdfSource <- MCPdfSource
  Message <- MCMessage
  Config <- MCConfig
SPECIFICATION Spec
CHECK_DEADLOCK FALSE
INVARIANTS
  SpansAreExact
  IngestedIsValid
  LayoutChunksTile
  ChunksFitOrSayWhy
  HierarchyPointsBack
  WindowsCover
