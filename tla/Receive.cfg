CONSTANTS
  Dictionary <- MCDictionary
  Answers <- MCAnswers
  Replies <- MCReplies
  Size = 4
  Burst = 3
  MaxBytes = 10
  Capacity = 9
  Break = "."
  Lost = 3
SPECIFICATION PathSpec
INVARIANTS UnreadIsNewest FlushForgets FoundAfterLineBreak StatusNotForged
PROPERTIES DeliveredInOrder
CHECK_DEADLOCK FALSE
