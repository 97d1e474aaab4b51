---------------------------- MODULE HookContract ----------------------------
(***************************************************************************)
(* What the calls of executeScenarioHook (orchestrator/src/hooks.ts)       *)
(* promise their caller: a call is refused before a process exists, or a   *)
(* process runs and the call settles once, with a code that agrees with    *)
(* the first reason, if any, for which its termination was requested.      *)
(*                                                                         *)
(* ScenarioHook keeps this contract with processes, timers and an abort    *)
(* listener; VerifyScenario drives its hooks through it.                   *)
(***************************************************************************)

CONSTANT Hooks   \* the hooks of a scenario, setup and cleanup

VARIABLES call,     \* call[h], the promise: "idle", "running" or "settled"
          reason,   \* reason[h], terminationReason: "none", "timeout" or "abort"
          outcome   \* outcome[h]: "none" until the promise settles

contractVars == <<call, reason, outcome>>

(* The codes a hook call rejects with; the first three before it has a     *)
(* process.                                                                *)
RefusalCodes ==
    {"SCENARIO_HOOK_ABORTED", "SCENARIO_HOOK_ENV_MISSING", "SCENARIO_HOOK_START_FAILED"}

HookCodes == RefusalCodes \cup {"SCENARIO_HOOK_FAILED", "SCENARIO_HOOK_TIMEOUT"}

(* What a started call may settle with, given its reason; an "error" event *)
(* of the child settles it whatever the reason.                            *)
OutcomesFor(why) ==
    {"SCENARIO_HOOK_START_FAILED"} \cup
    (CASE why = "timeout" -> {"SCENARIO_HOOK_TIMEOUT"}
       [] why = "abort"   -> {"SCENARIO_HOOK_ABORTED"}
       [] OTHER           -> {"OK", "SCENARIO_HOOK_FAILED"})

ContractTypeOK ==
    /\ call \in [Hooks -> {"idle", "running", "settled"}]
    /\ reason \in [Hooks -> {"none", "timeout", "abort"}]
    /\ outcome \in [Hooks -> {"none", "OK"} \cup HookCodes]

ContractInit ==
    /\ call = [h \in Hooks |-> "idle"]
    /\ reason = [h \in Hooks |-> "none"]
    /\ outcome = [h \in Hooks |-> "none"]

SettleWith(h, result) ==
    /\ call' = [call EXCEPT ![h] = "settled"]
    /\ outcome' = [outcome EXCEPT ![h] = result]

Refuse(h, code) ==
    /\ call[h] = "idle"
    /\ SettleWith(h, code)
    /\ UNCHANGED reason

Spawn(h) ==
    /\ call[h] = "idle"
    /\ call' = [call EXCEPT ![h] = "running"]
    /\ UNCHANGED <<reason, outcome>>

(* The first request to terminate decides the reason.  kill() can itself   *)
(* emit "error", which settles the call in the same step.                  *)
Terminate(h, why) ==
    /\ call[h] = "running"
    /\ reason[h] = "none"
    /\ reason' = [reason EXCEPT ![h] = why]
    /\ \/ UNCHANGED <<call, outcome>>
       \/ SettleWith(h, "SCENARIO_HOOK_START_FAILED")

Settle(h, result) ==
    /\ call[h] = "running"
    /\ result \in OutcomesFor(reason[h])
    /\ SettleWith(h, result)
    /\ UNCHANGED reason

ContractNext == \E h \in Hooks :
    \/ \E code \in RefusalCodes : Refuse(h, code)
    \/ Spawn(h)
    \/ \E why \in {"timeout", "abort"} : Terminate(h, why)
    \/ \E result \in {"OK"} \cup HookCodes : Settle(h, result)

ContractSpec == ContractInit /\ [][ContractNext]_contractVars
=============================================================================
