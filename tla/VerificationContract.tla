------------------------ MODULE VerificationContract ------------------------
(***************************************************************************)
(* What verifyScenario promises the command that calls it: either it       *)
(* refuses without having done anything, or it runs, and its result is     *)
(* "complete" exactly when nothing went wrong until it returned - and then *)
(* every target has been observed.  The caller's signal, once aborted      *)
(* before the return, is a thing that went wrong.                          *)
(***************************************************************************)

CONSTANT Targets

VARIABLES stopped,   \* the caller's signal is aborted
          stage,     \* "waiting", "running" or "returned"
          effects,   \* a hook has been called or a request been made
          sound,     \* nothing has gone wrong so far
          status,    \* "none", then "complete" or "incomplete"
          observed   \* the targets whose observation the result holds

contractVars == <<stopped, stage, effects, sound, status, observed>>

ContractInit ==
    /\ stopped \in BOOLEAN
    /\ stage = "waiting"
    /\ effects = FALSE
    /\ sound = TRUE
    /\ status = "none"
    /\ observed = {}

Refuse ==
    /\ stage = "waiting"
    /\ stage' = "returned"
    /\ status' = "incomplete"
    /\ UNCHANGED <<stopped, effects, sound, observed>>

Begin ==
    /\ stage = "waiting"
    /\ stage' = "running"
    /\ sound' = ~stopped
    /\ UNCHANGED <<stopped, effects, status, observed>>

Run ==
    /\ stage = "running"
    /\ effects' \in {effects, TRUE}
    /\ sound' \in {sound, FALSE}
    /\ UNCHANGED <<stopped, stage, status, observed>>

Return ==
    /\ stage = "running"
    /\ stage' = "returned"
    /\ status' = IF sound THEN "complete" ELSE "incomplete"
    /\ observed' \in SUBSET Targets
    /\ sound => observed' = Targets
    /\ UNCHANGED <<stopped, effects, sound>>

Stop ==
    /\ ~stopped
    /\ stopped' = TRUE
    /\ sound' = (sound /\ stage # "running")
    /\ UNCHANGED <<stage, effects, status, observed>>

ContractNext == Stop \/ Refuse \/ Begin \/ Run \/ Return

ContractSpec == ContractInit /\ [][ContractNext]_contractVars
=============================================================================
