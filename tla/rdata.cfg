SPECIFICATION Spec
CONSTANT Programs <- MCPrograms
INVARIANTS GetComplete  QuotingRecovered UrlRoundTrip BinaryReadBack
CHECK_DEADLOCK FALSE
