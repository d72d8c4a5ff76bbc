CONSTANT Options <- AllLines
SPECIFICATION FairSpec
INVARIANTS Accounting LimitKept StopsWhenQuiet NeverTooMany
PROPERTY StopsUnlessObstructed
