-------------------------- MODULE MCVerifyScenario --------------------------
(***************************************************************************)
(* A small world for TLC: two hosts of which "APP" and "app" are spellings *)
(* of one, a name no list may hold, and the options that matter.           *)
(***************************************************************************)
EXTENDS VerifyScenario

MCCanonical == [n \in {"app", "APP", "db", "bad name"} |->
                   CASE n \in {"app", "APP"} -> "app" [] n = "db" -> "db" [] OTHER -> NoHost]

Permitted == [allowHosts |-> <<"APP", "db">>, allowDependencyHosts |-> <<>>,
              host |-> [baseline |-> "app", candidate |-> "db"],
              isolated |-> {}, hookIsolation |-> TRUE, allowStateChanging |-> FALSE,
              stateChanging |-> FALSE, idempotent |-> {}]

Changing == [Permitted EXCEPT !.allowStateChanging = TRUE, !.stateChanging = TRUE,
                              !.isolated = Targets, !.idempotent = CleanupHooks]

(* What one missing or invalid declaration makes of permitted options.     *)
Lacking(o) ==
    {[o EXCEPT !.allowHosts = hosts] :
        hosts \in {<<>>, <<"APP">>, <<"app", "APP", "db">>, <<"app", "db", "bad name">>}}
    \cup {[o EXCEPT !.host[t] = h] : t \in Targets, h \in {NoHost, InvalidUrl}}
    \cup {[o EXCEPT !.allowDependencyHosts = <<"bad name">>], [o EXCEPT !.hookIsolation = FALSE],
          [o EXCEPT !.allowStateChanging = FALSE], [o EXCEPT !.idempotent = {}]}
    \cup {[o EXCEPT !.isolated = Targets \ {t}] : t \in Targets}

LifecycleOptions == {Permitted}
PolicyOptions == LifecycleOptions \cup Lacking(Permitted) \cup {Changing} \cup Lacking(Changing)
=============================================================================
