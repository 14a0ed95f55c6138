CONSTANTS
  Size = 2
  Legacy = 1
  MaxRecords = 4
  MaxPage = 3
SPECIFICATION Spec
INVARIANTS NoRecordSkipped PageExists IssuedRowHasStatus
