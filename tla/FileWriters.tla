----------------------------- MODULE FileWriters ----------------------------
(***************************************************************************)
(* The four ways in which the program writes a file, at the granularity of *)
(* its file system calls: writeEvidenceArtifact (evidence-schema), the     *)
(* exclusive and the overwriting writeTextFile (cli) and                   *)
(* persistSanitizedCapture (capture-http).  Several processes may write    *)
(* the same destination; any call may fail as Fallible says; a process may *)
(* be killed between two calls.                                            *)
(*                                                                         *)
(* A step is the effect of one call and what the code does with its        *)
(* result, up to issuing the next one.  A file is named for the writer     *)
(* that created it ("old": it was there before), so that a name that is    *)
(* moved or taken over keeps track of what it holds.                       *)
(***************************************************************************)
EXTENDS FiniteSets

CONSTANTS Writers,
          NoFile,
          Fallible    \* the calls that may fail: "mkdir", "open", "write",
                      \* "close", "rename", "replace", "link", "unlink"

ASSUME FileWritersAssumption == NoFile \notin Writers \cup {"old"} /\ "old" \notin Writers

VARIABLES kind,     \* kind[w]: the function w executes
          dir,      \* dir[n]: the file the name n stands for, or NoFile
          whole,    \* the files whose content has been written completely
          pc,       \* pc[w]: the call w has issued, "start", "return", and at
                    \* the end "done", "unclean" (an unlink failed) or "killed"
          verdict,  \* verdict[w]: what w returns or throws, "none" while undecided
          aborted   \* options.signal.aborted of the captures

vars == <<kind, dir, whole, pc, verdict, aborted>>

Evidence  == {w \in Writers : kind[w] = "evidence"}
Overwrite == {w \in Writers : kind[w] = "overwrite"}
Exclusive == {w \in Writers : kind[w] = "exclusive"}
Capture   == {w \in Writers : kind[w] = "capture"}

Dest == <<"destination">>
Temp(w) == <<"temporary", w>>
Backup(w) == <<"backup", w>>
Names == {Dest} \cup {Temp(w) : w \in Writers} \cup {Backup(w) : w \in Writers}

Steps == {"start", "open", "write", "close", "install", "backup", "direct", "replace", "restore",
          "tidy", "return", "discard", "done", "unclean", "killed"}

Ended == {"done", "unclean", "killed"}

(* A temporary name stands for its writer's own file or for none.          *)
TypeOK ==
    /\ kind \in [Writers -> {"evidence", "overwrite", "exclusive", "capture"}]
    /\ dir \in [Names -> Writers \cup {"old", NoFile}]
    /\ \A w \in Writers : dir[Temp(w)] \in {w, NoFile}
    /\ whole \subseteq Writers \cup {"old"}
    /\ pc \in [Writers -> Steps]
    /\ verdict \in [Writers -> {"none", "ok", "exists", "failed", "aborted"}]
    /\ aborted \in BOOLEAN

(* Every destination is written by one function; only for writeTextFile    *)
(* may the calls differ in options.overwrite.                              *)
Init ==
    /\ \E kinds \in {{"evidence"}, {"capture"}, {"overwrite", "exclusive"}} :
          kind \in [Writers -> kinds]
    /\ \E present \in {"old", NoFile} :
          dir = [n \in Names |-> IF n = Dest THEN present ELSE NoFile]
    /\ whole = {dir[Dest]} \ {NoFile}
    /\ pc = [w \in Writers |-> "start"]
    /\ verdict = [w \in Writers |-> "none"]
    /\ aborted = FALSE

-----------------------------------------------------------------------------
Goto(w, step) == pc' = [pc EXCEPT ![w] = step] /\ UNCHANGED verdict

Settle(w, result) ==
    pc' = [pc EXCEPT ![w] = "done"] /\ verdict' = [verdict EXCEPT ![w] = result]

(* Faulty: the failure is passed on without removing anything.             *)
FailLeavingFile(w, why) == Settle(w, why)

(* An error within the try: what has been created is removed first.        *)
Fail(w, why) ==
    pc' = [pc EXCEPT ![w] = "discard"] /\ verdict' = [verdict EXCEPT ![w] = why]

Move(from, to) == dir' = [dir EXCEPT ![to] = dir[from], ![from] = NoFile]

(* Faulty: open belongs to the try, whose catch removes the file.          *)
OpenInsideTry(w, why) == Fail(w, why)

(* The exclusive writer opens its file before its try.                     *)
NotOpened(w, why) ==
    IF w \in Exclusive THEN Settle(w, why) ELSE Fail(w, "failed")

(* The file a writer fills: only the exclusive one works in place.         *)
WorkName(w) == IF w \in Exclusive THEN Dest ELSE Temp(w)

Interrupted(w) == w \in Capture /\ aborted

(* The directory is created; for writeTextFile outside of its try.         *)
Start(w) ==
    /\ pc[w] = "start"
    /\ IF Interrupted(w)
       THEN Settle(w, "aborted")
       ELSE \/ Goto(w, "open")
            \/ /\ "mkdir" \in Fallible
               /\ IF w \in Evidence \cup Capture THEN Fail(w, "failed") ELSE Settle(w, "failed")
    /\ UNCHANGED <<kind, dir, whole, aborted>>

(* open(..., "wx")                                                         *)
Open(w) ==
    /\ pc[w] = "open"
    /\ \/ /\ dir[WorkName(w)] = NoFile
          /\ dir' = [dir EXCEPT ![WorkName(w)] = w]
          /\ Goto(w, "write")
       \/ /\ dir[WorkName(w)] # NoFile
          /\ NotOpened(w, "exists")
          /\ UNCHANGED dir
       \/ "open" \in Fallible /\ NotOpened(w, "failed") /\ UNCHANGED dir
    /\ UNCHANGED <<kind, whole, aborted>>

(* writeFile and sync.  After a failure the file is closed - by the        *)
(* exclusive writer as a part of its removal.                              *)
Write(w) ==
    /\ pc[w] = "write"
    /\ \/ whole' = whole \cup {w} /\ Goto(w, "close")
       \/ /\ "write" \in Fallible
          /\ IF w \in Exclusive
             THEN Fail(w, "failed")
             ELSE /\ pc' = [pc EXCEPT ![w] = "close"]
                  /\ verdict' = [verdict EXCEPT ![w] = "failed"]
          /\ UNCHANGED whole
    /\ UNCHANGED <<kind, dir, aborted>>

(* Faulty: goes on after a write that failed.                              *)
FilledOrFailed(w) == TRUE

Filled(w) == verdict[w] = "none"

(* close; a capture then looks at its signal once more.                    *)
Close(w) ==
    /\ pc[w] = "close"
    /\ \E closed \in {TRUE} \cup (IF "close" \in Fallible THEN {FALSE} ELSE {}) :
         IF w \in Exclusive THEN Settle(w, IF closed THEN "ok" ELSE "failed")
         ELSE IF ~Filled(w) \/ ~closed THEN Fail(w, "failed")
         ELSE IF Interrupted(w) THEN Fail(w, "aborted")
         ELSE Goto(w, "install")
    /\ UNCHANGED <<kind, dir, whole, aborted>>

-----------------------------------------------------------------------------
(* Installing the file                                                     *)

(* rename(temporary, destination).  A replacement that is refused (EEXIST  *)
(* or EPERM) makes the overwriting writer try with a backup.               *)
Rename(w) ==
    /\ w \in Evidence \cup Overwrite /\ pc[w] = "install"
    /\ \/ Move(Temp(w), Dest) /\ Goto(w, "return")
       \/ /\ "replace" \in Fallible
          /\ IF w \in Overwrite THEN Goto(w, "backup") ELSE Fail(w, "failed")
          /\ UNCHANGED dir
       \/ "rename" \in Fallible /\ Fail(w, "failed") /\ UNCHANGED dir
    /\ UNCHANGED <<kind, whole, aborted>>

(* link(temporary, destination)                                            *)
Link(w) ==
    /\ w \in Capture /\ pc[w] = "install"
    /\ \/ dir[Dest] = NoFile /\ dir' = [dir EXCEPT ![Dest] = dir[Temp(w)]] /\ Goto(w, "tidy")
       \/ dir[Dest] # NoFile /\ Fail(w, "exists") /\ UNCHANGED dir
       \/ "link" \in Fallible /\ Fail(w, "failed") /\ UNCHANGED dir
    /\ UNCHANGED <<kind, whole, aborted>>

(* Faulty: the destination is deleted to make room.                        *)
DropDestination(w) == dir' = [dir EXCEPT ![Dest] = NoFile]

SetAside(w) == Move(Dest, Backup(w))

(* rename(destination, backup)                                             *)
MakeBackup(w) ==
    /\ pc[w] = "backup"
    /\ \/ dir[Dest] # NoFile /\ SetAside(w) /\ Goto(w, "replace")
       \/ dir[Dest] = NoFile /\ Goto(w, "direct") /\ UNCHANGED dir
       \/ "rename" \in Fallible /\ Fail(w, "failed") /\ UNCHANGED dir
    /\ UNCHANGED <<kind, whole, aborted>>

(* rename(temporary, destination) when there was nothing to back up        *)
Direct(w) ==
    /\ pc[w] = "direct"
    /\ \/ Move(Temp(w), Dest) /\ Goto(w, "return")
       \/ "rename" \in Fallible /\ Fail(w, "failed") /\ UNCHANGED dir
    /\ UNCHANGED <<kind, whole, aborted>>

(* rename(temporary, destination) after the backup                         *)
Replace(w) ==
    /\ pc[w] = "replace"
    /\ \/ Move(Temp(w), Dest) /\ Goto(w, "tidy")
       \/ "rename" \in Fallible /\ Goto(w, "restore") /\ UNCHANGED dir
    /\ UNCHANGED <<kind, whole, aborted>>

(* rename(backup, destination), whose own failure is ignored               *)
Restore(w) ==
    /\ pc[w] = "restore"
    /\ \/ dir[Backup(w)] # NoFile /\ Move(Backup(w), Dest)
       \/ "rename" \in Fallible /\ UNCHANGED dir
    /\ Fail(w, "failed")
    /\ UNCHANGED <<kind, whole, aborted>>

-----------------------------------------------------------------------------
(* The end                                                                 *)

(* unlink, whose failure is ignored, and the end                           *)
Unlink(w, name, result) ==
    /\ verdict' = [verdict EXCEPT ![w] = result]
    /\ \/ dir' = [dir EXCEPT ![name] = NoFile] /\ pc' = [pc EXCEPT ![w] = "done"]
       \/ "unlink" \in Fallible /\ UNCHANGED dir /\ pc' = [pc EXCEPT ![w] = "unclean"]
    /\ UNCHANGED <<kind, whole, aborted>>

(* What is no longer needed is removed.                                    *)
Tidy(w) ==
    /\ pc[w] = "tidy"
    /\ Unlink(w, IF w \in Capture THEN Temp(w) ELSE Backup(w), "ok")

Return(w) ==
    /\ pc[w] = "return"
    /\ Settle(w, "ok")
    /\ UNCHANGED <<kind, dir, whole, aborted>>

(* What was created is removed.                                            *)
Discard(w) ==
    /\ pc[w] = "discard"
    /\ Unlink(w, WorkName(w), verdict[w])

Kill(w) ==
    /\ pc[w] \notin Ended
    /\ pc' = [pc EXCEPT ![w] = "killed"]
    /\ UNCHANGED <<kind, dir, whole, verdict, aborted>>

Abort ==
    /\ ~aborted
    /\ aborted' = TRUE
    /\ UNCHANGED <<kind, dir, whole, pc, verdict>>

Next ==
    \/ \E w \in Writers :
         \/ Start(w) \/ Open(w) \/ Write(w) \/ Close(w)
         \/ Rename(w) \/ Link(w)
         \/ MakeBackup(w) \/ Direct(w) \/ Replace(w) \/ Restore(w)
         \/ Tidy(w) \/ Return(w) \/ Discard(w) \/ Kill(w)
    \/ Abort

Spec == Init /\ [][Next]_vars

-----------------------------------------------------------------------------
(* Properties                                                              *)

(* Whoever reads the destination finds a complete file, also while another *)
(* process writes, after a failure and after a crash.  "Writes a UTF-8     *)
(* file without exposing partially written output" (cli/src/files.ts:43).  *)
DestinationIsWhole == dir[Dest] # NoFile => dir[Dest] \in whole

(* Unless somebody writes in place: the destination is whole or missing,   *)
(* and a complete file that was there survives, in whatever version, at    *)
(* the destination or as a backup, whatever fails or crashes.              *)
CompleteCopySurvives ==
    Exclusive = {} =>
        /\ DestinationIsWhole
        /\ "old" \in whole =>
              \E n \in {Dest} \cup {Backup(w) : w \in Writers} : dir[n] \in whole

(* Writers that are to create the destination never change or remove a     *)
(* complete file that is there, not even while cleaning up after           *)
(* themselves (cli/src/files.ts:53-61, capture-http/src/persist.ts:54-58). *)
NothingReplaced ==
    [][Writers = Exclusive \cup Capture /\ dir[Dest] \in whole
          => dir'[Dest] = dir[Dest]]_vars

(* A writer that is over leaves no temporary file, and a backup only if it *)
(* failed, as far as unlink works.                                         *)
NothingLeftOver ==
    \A w \in Writers : pc[w] = "done" =>
        /\ dir[Temp(w)] = NoFile
        /\ dir[Backup(w)] # NoFile => verdict[w] = "failed"

-----------------------------------------------------------------------------
(* The promise of AtomicFile, which evidence and captures keep             *)

Atomic == Writers = Evidence \/ Writers = Capture

Installed(w) ==
    \/ dir[Dest] = w
    \/ w \in whole /\ dir[Temp(w)] = NoFile /\ verdict[w] \in {"none", "ok"}

Contract == INSTANCE AtomicFile WITH
    creators <- Capture,
    file <- IF ~Atomic THEN NoFile
            ELSE IF dir[Dest] \in whole \cup {NoFile} THEN dir[Dest] ELSE "partial",
    installed <- {w \in Writers : Atomic /\ Installed(w)},
    report <- [w \in Writers |-> IF Atomic /\ pc[w] \in {"done", "unclean"}
                                THEN verdict[w] ELSE "none"]

(* The destination changes only by taking on a complete content in one     *)
(* step, and each writer's result says whether its step was made - over    *)
(* all interleavings, failures and crashes of several writers              *)
(* (evidence-schema/src/artifact.ts:214-229, capture-http/src/persist.ts). *)
ImplementsAtomicFile == Contract!FileSpec
=============================================================================
