CONSTANTS
    BatchSize <- MCBatchSize
    MaxWrites <- MCMaxWrites
    MaxDeletes <- MCMaxDeletes
SPECIFICATION Spec
INVARIANTS
    TypeOK
    BatchesMatchReference
PROPERTIES
    AllSentOnce
\* The loop returns once every tuple has been sent: the final state is the
\* function's return, not a deadlock.
CHECK_DEADLOCK FALSE
