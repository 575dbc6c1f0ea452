\* Two of five messages, the longest of which does not fit the buffer; reads
\* of at most five characters; a table of two pairs.
CONSTANTS
  MAXKEYLEN = 3
  TabSize = 2
  Messages <- AllMessages
  MaxMessages = 2
  maxlen = 8
  ReadSize = 5
  StringBound = 5
SPECIFICATION Spec
INVARIANTS NothingLost ParsedAsSent ParseMatchesReference CopiesBounded
