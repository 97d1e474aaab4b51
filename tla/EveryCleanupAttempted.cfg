\* One setup and two cleanup hooks that the operating system may not let us kill.
CONSTANTS NSetup = 1
          NCleanup = 2
          Systems = {TRUE}
SPECIFICATION Spec
INVARIANT EveryCleanupAttempted
CHECK_DEADLOCK FALSE
