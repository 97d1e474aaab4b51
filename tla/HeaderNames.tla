---------------------------- MODULE HeaderNames ----------------------------
(***************************************************************************)
(* Names of headers, which the configuration, the scenario loader, the     *)
(* capture and the preparation of requests compare without regard to case. *)
(***************************************************************************)
EXTENDS SequencesExt

CONSTANTS Lower,            \* toLowerCase() on the names that occur
          InvalidHeaders,   \* the names validateHeaderName() refuses
          InvalidValues     \* the strings validateHeaderValue() refuses

ASSUME HeaderNamesAssumption ==
    \A n \in DOMAIN Lower : Lower[n] \in DOMAIN Lower /\ Lower[Lower[n]] = Lower[n]

(* assertHeader() and assertHeaders() check a name in lower case.          *)
ValidHeader(name, value) ==
    Lower[name] \notin InvalidHeaders /\ ToSet(value) \cap InvalidValues = {}

(* The entries of f, and those of g under other names.                     *)
Over(f, g) == [x \in DOMAIN f \cup DOMAIN g |-> IF x \in DOMAIN f THEN f[x] ELSE g[x]]
=============================================================================
