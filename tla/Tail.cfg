\* One replacement, one truncation and one fault, for both kinds of parser.
SPECIFICATION FairSpec
CONSTANTS
  HasInodes = TRUE
  MaxLines = 2
  MaxReplacements = 1
  MaxTruncations = 1
  MaxFaults = 1
INVARIANTS TypeOK NothingSkipped OnlyNewTail
PROPERTIES EverythingRead ShrunkIsRead
