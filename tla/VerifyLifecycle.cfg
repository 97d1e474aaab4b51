\* Every interleaving of permitted scenarios with two setup hooks and one cleanup hook, and
\* scenarios that lack one declaration.
CONSTANTS NSetup = 2
          NCleanup = 1
          NoHost = NoHost
          InvalidUrl = InvalidUrl
          Canonical <- MCCanonical
          Options <- PolicyOptions
SPECIFICATION FairSpec
INVARIANTS TypeOK CompleteIsFaultless PhasesDoNotOverlap CleanupAlwaysAttempted
           InterruptionIsReported EveryObservationAccountedFor CleanupFailureIsReported EffectsAreDeclared
PROPERTIES ImplementsContract VerifyReturns
\* A call returns.
CHECK_DEADLOCK FALSE
