----------------------------- MODULE AtomicFile -----------------------------
(***************************************************************************)
(* What a writer of a file promises whoever reads the file, and its own    *)
(* caller: the destination changes in one step from one whole content to   *)
(* another; success is reported only after that step, failure only without *)
(* it; and a writer that is to create the file replaces nothing.           *)
(***************************************************************************)

CONSTANTS Writers, NoFile

VARIABLES creators,   \* the writers that must not replace an existing file
          file,       \* NoFile, "old", or the writer whose content it holds
          installed,  \* the writers that made their step
          report      \* report[w]: "none", "ok", "exists", "failed" or "aborted"

fileVars == <<creators, file, installed, report>>

FileInit ==
    /\ creators \in SUBSET Writers
    /\ file \in {NoFile, "old"}
    /\ installed = {}
    /\ report = [w \in Writers |-> "none"]

Install(w) ==
    /\ w \notin installed
    /\ report[w] = "none"
    /\ w \in creators => file = NoFile
    /\ file' = w
    /\ installed' = installed \cup {w}
    /\ UNCHANGED <<creators, report>>

Report(w) ==
    /\ report[w] = "none"
    /\ \/ w \in installed /\ report' = [report EXCEPT ![w] = "ok"]
       \/ w \notin installed /\ \E why \in {"failed", "aborted"} :
              report' = [report EXCEPT ![w] = why]
       \/ /\ w \in creators \ installed /\ file # NoFile
          /\ report' = [report EXCEPT ![w] = "exists"]
    /\ UNCHANGED <<creators, file, installed>>

FileNext == \E w \in Writers : Install(w) \/ Report(w)

FileSpec == FileInit /\ [][FileNext]_fileVars
=============================================================================
