CONSTANTS
  ClaimNames = {"birth_date", "sub", "issuing_country"}
  Values <- SomeValues
  WalletKeys <- SomeKeys
  Signatures <- SomeSignatures
  Base = 4
  Width = 2
  MaxEntries = 5
SPECIFICATION FormatsSpec
INVARIANTS SelectionVerifies RevealsSelectionOnly StatusReadsBack
CHECK_DEADLOCK FALSE
