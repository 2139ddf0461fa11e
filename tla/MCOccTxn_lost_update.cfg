CONSTANTS
    Thread = {t1, t2}
    Row = {1}
    Query <- CounterQueries
    MaxAttempts = 1
    NoThread = NoThread
SPECIFICATION Spec
INVARIANT NoLostUpdate
