SPECIFICATION FairSpec
CONSTANTS
    Request = {r1, r2}
    JobRun = {j1}
    None = None
INVARIANTS
    TypeOK
    OncePerRequest
    AnswerIsTrue
    EventsTraced
    FailuresLeaveTrace
PROPERTIES
    EveryTaskEnds
    LogSpec
\* every request and job comes once
CHECK_DEADLOCK FALSE
