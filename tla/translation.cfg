SPECIFICATION Spec
CONSTANTS
  MaxDepth = 5
  OtherTypes = {"other", "DISTINCT"}
  ScanRequests <- MCScans
  InsertRequests <- MCInserts
  ReadRequests <- MCReads
  Statements <- MCStatements
  Attachments <- MCAttachments
  Lower <- MCLower
  Garbled <- MCGarbled
INVARIANTS
  
  ValuesLand
  
  
  NormalisedAttach
CHECK_DEADLOCK FALSE
