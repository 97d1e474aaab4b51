\* Two setup hooks and one cleanup hook, on a system that lets us kill their processes and on one that may not.
CONSTANTS NSetup = 2
          NCleanup = 1
          Systems = {FALSE, TRUE}
SPECIFICATION FairSpec
INVARIANTS SuccessIsGenuine NothingLeftBehind SetupFailureStopsSetup
           CleanupIsShielded VerdictIsEarned
PROPERTIES ImplementsContract LifecycleEnds
\* A lifecycle ends.
CHECK_DEADLOCK FALSE
