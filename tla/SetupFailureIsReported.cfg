\* A permitted scenario with one setup hook and one cleanup hook.
CONSTANTS NSetup = 1
          NCleanup = 1
          NoHost = NoHost
          InvalidUrl = InvalidUrl
          Canonical <- MCCanonical
          Options <- LifecycleOptions
SPECIFICATION Spec
INVARIANT SetupFailureIsReported
CHECK_DEADLOCK FALSE
