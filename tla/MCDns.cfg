\* Three coroutines and two names; two calls for one name can overlap, and so
\* can three completions.
CONSTANTS
    None = None
    Coros = {c1, c2, c3}
    Hosts = {h1, h2}
    MaxLookups = 3
SPECIFICATION Spec
INVARIANTS TypeOK CompletionKept RightAnswer
PROPERTIES ReturnsAfterAnswer EveryLookupReturns
\* No coroutine need look anything up.
CHECK_DEADLOCK FALSE
