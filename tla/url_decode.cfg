SPECIFICATION Spec
CONSTANT Programs <- AccentPrograms
INVARIANT UrlRoundTrip
CHECK_DEADLOCK FALSE
