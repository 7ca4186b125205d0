\* One job, four crashes or database errors, also inside recovery, and the restarted worker.
SPECIFICATION FairSpec
CONSTANTS
    Job = {j1}
    Key = {k1}
    Body = {work, unknown}
    Runnable = {work}
    Client = {c1, c2}
    Steps = 2
    MaxFailure = 4
    Nil = Nil
INVARIANTS CrashesStrandNoJob EventsMatchStatus
PROPERTIES CancelWins DispatchedJobsEnd
