CONSTANTS
  IssuableSchemes <- MCSchemes
  Definition <- MCDefinition
  MaxVersion = 2
  MaxRecords = 2
SPECIFICATION Spec
INVARIANTS RecordOfOneForm ResultIsLastSubmission FormatAsAdvertised
