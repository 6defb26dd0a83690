SPECIFICATION Spec
CONSTANTS
  Nil = Nil
  Garbage = Garbage
  AllocMayFail = TRUE
  MinCapacity = 1
  SkippedValues <- MCSkippedValues
  EntryLists <- MCEntryLists
  QuotedValues <- MCQuotedValues
  Registrations <- MCRegistrations
  TornStrings <- MCTornStrings
  TornTokens <- MCTornTokens
  MaxEvents = 2
  Texts = {"x", "y"}
  Credentials <- MCCredentials
  Rules <- MCRules
  MaxCalls = 3
  MaxLexemes = 5
  MaxEntries = 4
  MaxChars = 5
INVARIANTS MessagesTypeOK ReadsDocumentedLists SerializedReadsBack UnquoteExact StripAgreesWithUnquote LogKeepsNewest JsonMirrorsCalls EventsMirrorHeader
PROPERTIES HandlerReturns
CHECK_DEADLOCK FALSE
