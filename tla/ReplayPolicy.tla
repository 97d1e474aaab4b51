---------------------------- MODULE ReplayPolicy ----------------------------
(***************************************************************************)
(* evaluateReplayPolicy (orchestrator/src/verification-policy.ts): what    *)
(* must be declared before a scenario may run hooks or send requests.      *)
(*                                                                         *)
(* An options record holds what the decision reads of the configuration    *)
(* and of the scenario:                                                    *)
(*   allowHosts, allowDependencyHosts   sequences of host names as written *)
(*   host                host[t], the hostname of t's URL, or InvalidUrl   *)
(*   isolated            the targets with an isolation declaration         *)
(*   hookIsolation       network.hookIsolation is declared                 *)
(*   allowStateChanging  sideEffects.allowStateChanging                    *)
(*   stateChanging       safety.classification is "state-changing"         *)
(*   idempotent          the cleanup hooks that declare idempotent: true   *)
(***************************************************************************)
EXTENDS Naturals, Sequences

CONSTANTS NSetup, NCleanup,  \* the number of setup and of cleanup hooks
          Canonical,         \* normalizeNetworkHost, a function on names; NoHost if undefined
          NoHost, InvalidUrl

Targets == {"baseline", "candidate"}
SetupHooks == 1 .. NSetup
CleanupHooks == NSetup + 1 .. NSetup + NCleanup
Hooks == 1 .. NSetup + NCleanup

(* A failure names its code and where it belongs: its target, or else its  *)
(* phase ("startup", "setup", "cleanup" or "total").                       *)
Failure(code, where) == [code |-> code, where |-> where]

(* normalizedHosts() returns undefined for a list with an invalid name or  *)
(* with two names for one host.                                            *)
ValidHosts(list) ==
    /\ \A i \in DOMAIN list : Canonical[list[i]] # NoHost
    /\ \A i, j \in DOMAIN list : i # j => Canonical[list[i]] # Canonical[list[j]]

(* isTargetAllowed(): an invalid URL is left to the HTTP executor.         *)
TargetAllowed(o, t) ==
    \/ o.host[t] = InvalidUrl
    \/ /\ o.host[t] # NoHost
       /\ ValidHosts(o.allowHosts)
       /\ \E i \in DOMAIN o.allowHosts : Canonical[o.allowHosts[i]] = o.host[t]

NetworkFailures(o) ==
    IF ValidHosts(o.allowHosts) /\ ValidHosts(o.allowDependencyHosts)
    THEN {Failure("VERIFY_NETWORK_DENIED", t) : t \in {u \in Targets : ~TargetAllowed(o, u)}}
    ELSE {Failure("VERIFY_POLICY_INVALID", "startup")}

(* Faulty: a scenario that changes nothing needs no isolation for hooks.   *)
HookFailuresIfChanging(o) ==
    IF Hooks # {} /\ ~o.hookIsolation /\ o.stateChanging
    THEN {Failure("VERIFY_NETWORK_ENFORCEMENT_UNSUPPORTED", "setup")}
    ELSE {}

HookFailures(o) ==
    IF Hooks # {} /\ ~o.hookIsolation
    THEN {Failure("VERIFY_NETWORK_ENFORCEMENT_UNSUPPORTED", "setup")}
    ELSE {}

SideEffectFailures(o) ==
    IF ~o.stateChanging THEN {}
    ELSE (IF o.allowStateChanging THEN {}
          ELSE {Failure("VERIFY_SIDE_EFFECT_DENIED", "setup")})
         \cup {Failure("VERIFY_TARGET_NOT_ISOLATED", t) : t \in Targets \ o.isolated}
         \cup (IF CleanupHooks \subseteq o.idempotent THEN {}
               ELSE {Failure("VERIFY_CLEANUP_NOT_IDEMPOTENT", "setup")})

PolicyFailures(o) == NetworkFailures(o) \cup HookFailures(o) \cup SideEffectFailures(o)
=============================================================================
