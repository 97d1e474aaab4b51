---------------------------- MODULE RequestRules ----------------------------
(***************************************************************************)
(* prepareScenarioRequest and prepareTargetRequest (replay-http/src): what *)
(* of a scenario's request and of a target's settings is sent.  Method,    *)
(* path and query, and the text of a body, are left out.                   *)
(*                                                                         *)
(* A header's value is [kind, value]: a "text", or in a scenario an "env"  *)
(* with the name of a variable.  Of a body we keep whether it is "absent", *)
(* "text" or "json".  The order of a mapping is not modelled: of several   *)
(* complaints any may be the first, and a target has each name once.       *)
(***************************************************************************)
EXTENDS HeaderNames

CONSTANT OriginOnly    \* OriginOnly[url]: new URL() takes it for an http(s) origin

Missing(header, environment) == header.kind = "env" /\ header.value[1] \notin DOMAIN environment

(* A header of the scenario with its reference resolved.                   *)
Value(header, environment) ==
    IF header.kind = "env" THEN <<environment[header.value[1]]>> ELSE header.value

(* What resolveHeaders() complains of.  YAML has no body that              *)
(* JSON.stringify() refuses.                                               *)
RequestFaults(headers, environment) ==
    {"HTTP_REQUEST_HEADER_INVALID" : x \in {n \in DOMAIN headers :
        \/ \E m \in DOMAIN headers \ {n} : Lower[m] = Lower[n]
        \/ ~Missing(headers[n], environment) /\ ~ValidHeader(n, Value(headers[n], environment))}}
    \cup {"HTTP_REQUEST_ENV_MISSING" : x \in {n \in DOMAIN headers : Missing(headers[n], environment)}}

(* The values by the names in lower case, each of which occurs once.       *)
Lowered(values) ==
    [n \in {Lower[m] : m \in DOMAIN values} |-> values[CHOOSE m \in DOMAIN values : Lower[m] = n]]

(* The headers prepareScenarioRequest() returns.                           *)
RequestHeaders(scenario, environment) ==
    LET resolved == [n \in DOMAIN scenario.headers |-> Value(scenario.headers[n], environment)]
        implied  == [n \in IF scenario.body = "json" THEN {"content-type"} ELSE {}
                        |-> <<"application/json">>]
    IN  Over(Lowered(resolved), implied)

(* Faulty: what the target is configured with comes last.                  *)
TargetOverRequest(configured, prepared) == Over(Lowered(configured), prepared)

(* prepareHeaders(): the headers of the request are set after the target's.*)
RequestOverTarget(configured, prepared) == Over(prepared, Lowered(configured))

(* prepareTargetRequest()                                                  *)
ValidTarget(url, configured, prepared) ==
    /\ OriginOnly[url]
    /\ \A n \in DOMAIN configured : ValidHeader(n, configured[n])
    /\ \A n \in DOMAIN prepared : ValidHeader(n, prepared[n])
=============================================================================
