-------------------------- MODULE FileWritersProofs --------------------------
(***************************************************************************)
(* Theorems about FileWriters for any number of processes that write one   *)
(* destination and any set of calls that may fail.                         *)
(***************************************************************************)
EXTENDS FileWriters, TLAPS

(* How far a writer has come, and what its temporary file and its verdict  *)
(* are by then.                                                            *)
Progress(w) ==
    /\ pc[w] \in {"start", "open", "write"} => w \notin whole /\ verdict[w] = "none"
    /\ pc[w] \in {"start", "open"} => dir[Temp(w)] = NoFile
    /\ pc[w] \in {"write", "close"} /\ w \notin Exclusive => dir[Temp(w)] = w
    /\ pc[w] = "close" => verdict[w] \in {"none", "failed"} /\ (verdict[w] = "none" => w \in whole)
    /\ pc[w] \in {"install", "backup", "direct", "replace", "restore"} =>
          w \in whole /\ dir[Temp(w)] = w /\ verdict[w] = "none" /\ w \notin Exclusive
    /\ pc[w] \in {"backup", "direct", "replace", "restore"} => w \in Overwrite
    /\ pc[w] = "return" => /\ w \in Evidence \cup Overwrite
                           /\ w \in whole /\ dir[Temp(w)] = NoFile /\ verdict[w] = "none"
    /\ pc[w] = "tidy" => /\ w \in Overwrite \cup Capture
                         /\ w \in whole /\ verdict[w] = "none"
                         /\ w \in Overwrite => dir[Temp(w)] = NoFile
    /\ pc[w] = "discard" => verdict[w] \in {"failed", "aborted", "exists"}
    /\ verdict[w] = "exists" => w \in Exclusive \cup Capture
    /\ pc[w] = "done" => dir[Temp(w)] = NoFile
    /\ w \in Exclusive => dir[Temp(w)] = NoFile

(* A backup is held from the moment the destination is set aside until it  *)
(* is restored or tidied away; afterwards only of a writer that failed.    *)
BackupPart(w) ==
    dir[Backup(w)] # NoFile =>
        /\ w \in Overwrite
        /\ \/ pc[w] \in {"replace", "restore", "tidy", "unclean", "killed"}
           \/ pc[w] \in {"discard", "done"} /\ verdict[w] = "failed"

(* Unless somebody writes in place, only whole files reach the destination *)
(* or a backup, and one of them is never about to be removed.              *)
Held == \/ dir[Dest] # NoFile
        \/ \E w \in Writers : pc[w] # "tidy" /\ dir[Backup(w)] # NoFile

ContentPart ==
    Exclusive = {} =>
        /\ dir[Dest] \in whole \cup {NoFile}
        /\ \A w \in Writers : dir[Backup(w)] \in whole \cup {NoFile}
        /\ "old" \in whole => Held

(* A writer in place that is to create the file holds the destination      *)
(* until it has written or removed it.                                     *)
ExclusivePart ==
    Writers = Exclusive \cup Capture =>
        \A w \in Exclusive : pc[w] \in {"write", "discard"} => dir[Dest] = w /\ w \notin whole

(* Who is at the destination has installed its file.                       *)
EvidencePart ==
    Writers = Evidence =>
        \A w \in Writers : dir[Dest] = w =>
            w \in whole /\ dir[Temp(w)] = NoFile /\ verdict[w] \in {"none", "ok"}

CapturePart ==
    Writers = Capture =>
        \A w \in Writers :
            /\ dir[Dest] = w => pc[w] \in {"tidy"} \cup Ended /\ verdict[w] \in {"none", "ok"}
            /\ pc[w] = "tidy" => dir[Dest] = w
            /\ w \in whole /\ dir[Temp(w)] = NoFile /\ verdict[w] \in {"none", "ok"} =>
                  dir[Dest] = w
            /\ verdict[w] = "exists" => dir[Dest] # NoFile

IInv ==
    /\ TypeOK
    /\ \A w \in Writers : Progress(w) /\ BackupPart(w)
    /\ ContentPart /\ ExclusivePart /\ EvidencePart /\ CapturePart

-----------------------------------------------------------------------------
(* Names and calls                                                         *)

LEMMA NamesDistinct ==
    /\ Dest \in Names
    /\ \A w \in Writers : /\ Temp(w) \in Names /\ Backup(w) \in Names
                          /\ Temp(w) # Dest /\ Backup(w) # Dest
    /\ \A v, w \in Writers : /\ Temp(v) # Backup(w)
                             /\ Temp(v) = Temp(w) => v = w
                             /\ Backup(v) = Backup(w) => v = w
<1>1. "temporary" # "backup" /\ "destination" # "temporary" /\ "destination" # "backup"
  OBVIOUS
<1>2. Dest[1] = "destination"
  BY DEF Dest
<1>3. \A w : Temp(w)[1] = "temporary" /\ Temp(w)[2] = w
  BY DEF Temp
<1>4. \A w : Backup(w)[1] = "backup" /\ Backup(w)[2] = w
  BY DEF Backup
<1>5. Dest \in Names /\ \A w \in Writers : Temp(w) \in Names /\ Backup(w) \in Names
  BY DEF Names
<1> QED BY <1>1, <1>2, <1>3, <1>4, <1>5

LEMMA MoveMoves ==
    ASSUME TypeOK, NEW from \in Names, NEW to \in Names, from # to, Move(from, to)
    PROVE  /\ dir' \in [Names -> Writers \cup {"old", NoFile}]
           /\ dir'[to] = dir[from] /\ dir'[from] = NoFile
           /\ \A n \in Names \ {from, to} : dir'[n] = dir[n]
BY DEF TypeOK, Move

(* The calls of one writer.                                                *)
Step(w) ==
    \/ Start(w) \/ Open(w) \/ Write(w) \/ Close(w)
    \/ Rename(w) \/ Link(w)
    \/ MakeBackup(w) \/ Direct(w) \/ Replace(w) \/ Restore(w)
    \/ Tidy(w) \/ Return(w) \/ Discard(w) \/ Kill(w)

(* What a writer does to the names: nothing, or it sets one of them.       *)
Sets(name, file) ==
    /\ dir' \in [Names -> Writers \cup {"old", NoFile}]
    /\ dir'[name] = file
    /\ \A n \in Names \ {name} : dir'[n] = dir[n]

Moves(from, to) ==
    /\ dir' \in [Names -> Writers \cup {"old", NoFile}]
    /\ dir'[to] = dir[from] /\ dir'[from] = NoFile
    /\ \A n \in Names \ {from, to} : dir'[n] = dir[n]

(* The control of a writer and the contents, apart from the names.         *)
ControlKept(w) ==
    /\ pc' \in [Writers -> Steps]
    /\ verdict' \in [Writers -> {"none", "ok", "exists", "failed", "aborted"}]
    /\ whole' \subseteq Writers \cup {"old"}
    /\ \A v \in Writers \ {w} : pc'[v] = pc[v] /\ verdict'[v] = verdict[v]
    /\ whole' \in {whole, whole \cup {w}}
    /\ UNCHANGED <<kind, aborted>>

LEMMA StepControl ==
    ASSUME TypeOK, NEW w \in Writers, Step(w)
    PROVE  ControlKept(w)
<1> USE DEF TypeOK, ControlKept, Goto, Settle, Fail, NotOpened, Steps
<1>1. CASE Start(w) \/ Open(w)
  BY <1>1 DEF Start, Open
<1>6. CASE Close(w)
  BY <1>6 DEF Close
<1>2. CASE Write(w)
  BY <1>2 DEF Write
<1>3. CASE Rename(w) \/ Link(w) \/ MakeBackup(w) \/ Direct(w) \/ Replace(w) \/ Restore(w)
  BY <1>3 DEF Rename, Link, MakeBackup, Direct, Replace, Restore
<1>4. CASE Tidy(w) \/ Discard(w)
  BY <1>4 DEF Tidy, Discard, Unlink
<1>5. CASE Return(w) \/ Kill(w)
  BY <1>5 DEF Return, Kill
<1> QED BY <1>1, <1>2, <1>3, <1>4, <1>5, <1>6 DEF Step

(* What each call that changes a name does to it.                          *)
LEMMA StepNames ==
    ASSUME TypeOK, NEW w \in Writers, Step(w)
    PROVE  \/ UNCHANGED dir /\ pc'[w] # "tidy"
           \/ /\ Open(w) /\ dir[WorkName(w)] = NoFile /\ Sets(WorkName(w), w)
              /\ pc'[w] = "write" /\ verdict'[w] = verdict[w]
           \/ /\ Rename(w) \/ Direct(w) \/ Replace(w)
              /\ Moves(Temp(w), Dest)
              /\ pc'[w] = (IF Replace(w) THEN "tidy" ELSE "return") /\ verdict'[w] = verdict[w]
           \/ /\ Link(w) /\ dir[Dest] = NoFile /\ Sets(Dest, dir[Temp(w)])
              /\ pc'[w] = "tidy" /\ verdict'[w] = verdict[w]
           \/ /\ MakeBackup(w) /\ dir[Dest] # NoFile /\ Moves(Dest, Backup(w))
              /\ pc'[w] = "replace" /\ verdict'[w] = verdict[w]
           \/ /\ Restore(w) /\ dir[Backup(w)] # NoFile /\ Moves(Backup(w), Dest)
              /\ pc'[w] = "discard" /\ verdict'[w] = "failed"
           \/ /\ Tidy(w) /\ Sets(IF w \in Capture THEN Temp(w) ELSE Backup(w), NoFile)
              /\ pc'[w] = "done" /\ verdict'[w] = "ok"
           \/ /\ Discard(w) /\ Sets(WorkName(w), NoFile)
              /\ pc'[w] = "done" /\ verdict'[w] = verdict[w]

<1> USE DEF TypeOK, Goto, Settle, Fail
<1>1. WorkName(w) \in Names /\ w \in Writers \cup {"old", NoFile}
  BY NamesDistinct DEF WorkName
<1>2. CASE Start(w) \/ Write(w) \/ Close(w) \/ Return(w) \/ Kill(w)
  BY <1>2 DEF Start, Write, Close, Return, Kill
<1>3. CASE Open(w)
  BY <1>1, <1>3 DEF Open, NotOpened, Sets
<1>4. CASE Link(w)
  <2>1. dir[Temp(w)] \in Writers \cup {"old", NoFile} /\ Dest \in Names
    BY NamesDistinct
  <2> QED BY <1>4, <2>1 DEF Link, Sets
<1>5. /\ Temp(w) # Dest /\ Backup(w) # Dest
      /\ Dest \in Names /\ Temp(w) \in Names /\ Backup(w) \in Names
  BY NamesDistinct
<1>6. /\ Move(Temp(w), Dest) => Moves(Temp(w), Dest)
      /\ Move(Dest, Backup(w)) => Moves(Dest, Backup(w))
      /\ Move(Backup(w), Dest) => Moves(Backup(w), Dest)
  BY <1>5, MoveMoves DEF Moves
<1>7. CASE Rename(w)
  <2>1. ~Replace(w)
    BY <1>7 DEF Rename, Replace
  <2> QED BY <1>6, <1>7, <2>1 DEF Rename
<1>8. CASE Direct(w)
  <2>1. ~Replace(w)
    BY <1>8 DEF Direct, Replace
  <2> QED BY <1>6, <1>8, <2>1 DEF Direct
<1>9. CASE Replace(w)
  BY <1>6, <1>9 DEF Replace
<1>10. CASE MakeBackup(w)
  BY <1>6, <1>10 DEF MakeBackup, SetAside
<1>11. CASE Restore(w)
  BY <1>6, <1>11 DEF Restore
<1>12. CASE Tidy(w)
  <2> DEFINE name == IF w \in Capture THEN Temp(w) ELSE Backup(w)
  <2>1. name \in Names
    BY <1>5
  <2> QED BY <1>12, <2>1 DEF Tidy, Unlink, Sets
<1>13. CASE Discard(w)
  BY <1>1, <1>13 DEF Discard, Unlink, Sets
<1> QED BY <1>2, <1>3, <1>4, <1>7, <1>8, <1>9, <1>10, <1>11, <1>12, <1>13 DEF Step

(* A writer leaves the other writers' own names alone.                     *)
LEMMA OthersKept ==
    ASSUME TypeOK, NEW w \in Writers, Step(w), NEW v \in Writers \ {w}
    PROVE  /\ pc'[v] = pc[v] /\ verdict'[v] = verdict[v]
           /\ v \in whole' <=> v \in whole
           /\ dir'[Temp(v)] = dir[Temp(v)] /\ dir'[Backup(v)] = dir[Backup(v)]
<1>1. pc'[v] = pc[v] /\ verdict'[v] = verdict[v] /\ (v \in whole' <=> v \in whole)
  BY StepControl DEF ControlKept
<1>2. /\ Temp(v) \in Names \ {Dest, Temp(w), Backup(w)}
      /\ Backup(v) \in Names \ {Dest, Temp(w), Backup(w)}
  BY NamesDistinct
<1>3. Temp(v) # WorkName(w) /\ Backup(v) # WorkName(w)
  BY <1>2 DEF WorkName
<1> QED BY <1>1, <1>2, <1>3, StepNames DEF Sets, Moves

-----------------------------------------------------------------------------
(* Type correctness and progress                                           *)

LEMMA TypeKept == ASSUME TypeOK, NEW w \in Writers, Step(w) PROVE TypeOK'
<1>1. ControlKept(w)
  BY StepControl
<1>2. dir' \in [Names -> Writers \cup {"old", NoFile}]
  BY StepNames DEF TypeOK, Sets, Moves
<1>3. \A v \in Writers \ {w} : dir'[Temp(v)] \in {v, NoFile}
  BY OthersKept DEF TypeOK
<1>4. dir'[Temp(w)] \in {w, NoFile}
  <2>1. /\ Temp(w) \in Names \ {Dest, Backup(w)}
        /\ Temp(w) # WorkName(w) => WorkName(w) = Dest
    BY NamesDistinct DEF WorkName
  <2>2. dir[Temp(w)] \in {w, NoFile}
    BY DEF TypeOK
  <2> QED BY <2>1, <2>2, StepNames DEF Sets, Moves
<1> QED BY <1>1, <1>2, <1>3, <1>4 DEF TypeOK, ControlKept

LEMMA ProgressKept ==
    ASSUME TypeOK, NEW w \in Writers, Progress(w), Step(w)
    PROVE  Progress(w)'
<1>1. ControlKept(w)
  BY StepControl
<1>2. /\ Evidence' = Evidence /\ Overwrite' = Overwrite
      /\ Exclusive' = Exclusive /\ Capture' = Capture
  BY <1>1 DEF ControlKept, Evidence, Overwrite, Exclusive, Capture
<1>3. /\ Temp(w) \in Names \ {Dest, Backup(w)}
      /\ w \notin Exclusive => WorkName(w) = Temp(w)
      /\ w \in Exclusive => WorkName(w) = Dest
  BY NamesDistinct DEF WorkName
<1>4. /\ kind[w] \in {"evidence", "overwrite", "exclusive", "capture"}
      /\ w \in Evidence <=> kind[w] = "evidence"
      /\ w \in Overwrite <=> kind[w] = "overwrite"
      /\ w \in Exclusive <=> kind[w] = "exclusive"
      /\ w \in Capture <=> kind[w] = "capture"
  BY DEF TypeOK, Evidence, Overwrite, Exclusive, Capture
<1> USE DEF TypeOK, Goto, Settle, Fail, NotOpened
<1>5. CASE Start(w)
  BY <1>2, <1>4, <1>5 DEF Start, Interrupted, Progress
<1>6. CASE Open(w)
  BY <1>2, <1>3, <1>4, <1>6 DEF Open, Progress
<1>7. CASE Write(w)
  BY <1>2, <1>4, <1>7 DEF Write, Progress
<1>8. CASE Close(w)
  BY <1>2, <1>4, <1>8 DEF Close, Filled, Interrupted, Progress
<1>9. CASE Rename(w)
  <2>1. \/ dir'[Temp(w)] = NoFile /\ pc'[w] = "return" /\ verdict'[w] = verdict[w]
        \/ UNCHANGED dir /\ pc'[w] = "backup" /\ verdict'[w] = verdict[w] /\ w \in Overwrite
        \/ UNCHANGED dir /\ pc'[w] = "discard" /\ verdict'[w] = "failed"
    BY <1>3, <1>9, NamesDistinct, MoveMoves DEF Rename
  <2> QED BY <1>2, <1>4, <1>9, <2>1 DEF Rename, Progress
<1>11. CASE Link(w)
  <2>1. \/ dir'[Temp(w)] = dir[Temp(w)] /\ pc'[w] = "tidy" /\ verdict'[w] = verdict[w]
        \/ UNCHANGED dir /\ pc'[w] = "discard" /\ verdict'[w] \in {"exists", "failed"}
    BY <1>3, <1>11 DEF Link
  <2> QED BY <1>2, <1>4, <1>11, <2>1 DEF Link, Progress
<1>12. CASE MakeBackup(w)
  <2>1. \/ /\ dir'[Temp(w)] = dir[Temp(w)] /\ pc'[w] \in {"replace", "direct"}
           /\ verdict'[w] = verdict[w]
        \/ UNCHANGED dir /\ pc'[w] = "discard" /\ verdict'[w] = "failed"
    BY <1>3, <1>12, NamesDistinct, MoveMoves DEF MakeBackup, SetAside
  <2> QED BY <1>2, <1>4, <1>12, <2>1 DEF MakeBackup, Progress
<1>13. CASE Direct(w) \/ Replace(w)
  <2>1. \/ /\ dir'[Temp(w)] = NoFile /\ pc'[w] \in {"return", "tidy"} /\ verdict'[w] = verdict[w]
        \/ UNCHANGED dir /\ pc'[w] = "restore" /\ verdict'[w] = verdict[w]
        \/ UNCHANGED dir /\ pc'[w] = "discard" /\ verdict'[w] = "failed"
    BY <1>3, <1>13, NamesDistinct, MoveMoves DEF Direct, Replace
  <2> QED BY <1>2, <1>4, <1>13, <2>1 DEF Direct, Replace, Progress
<1>14. CASE Restore(w)
  <2>1. pc'[w] = "discard" /\ verdict'[w] = "failed"
    BY <1>14 DEF Restore
  <2> QED BY <1>2, <1>4, <1>14, <2>1 DEF Restore, Progress
<1>15. CASE Tidy(w)
  <2>1. /\ verdict'[w] = "ok" /\ pc'[w] \in {"done", "unclean"}
        /\ pc'[w] = "done" => dir'[Temp(w)] = NoFile
    BY <1>3, <1>4, <1>15, NamesDistinct DEF Tidy, Unlink, Progress
  <2> QED BY <1>2, <1>4, <1>15, <2>1 DEF Tidy, Progress
<1>16. CASE Discard(w)
  <2>1. /\ verdict'[w] = verdict[w] /\ pc'[w] \in {"done", "unclean"}
        /\ pc'[w] = "done" \/ w \in Exclusive => dir'[Temp(w)] = NoFile
    BY <1>3, <1>4, <1>16, NamesDistinct DEF Discard, Unlink, Progress
  <2> QED BY <1>2, <1>4, <1>16, <2>1 DEF Discard, Progress
<1>10. CASE Return(w) \/ Kill(w)
  BY <1>2, <1>4, <1>10 DEF Return, Kill, Progress
<1> QED BY <1>5, <1>6, <1>7, <1>8, <1>9, <1>10, <1>11, <1>12, <1>13, <1>14, <1>15, <1>16 DEF Step

LEMMA KindsKept ==
    ASSUME TypeOK, NEW w \in Writers, Step(w)
    PROVE  /\ Evidence' = Evidence /\ Overwrite' = Overwrite
           /\ Exclusive' = Exclusive /\ Capture' = Capture
BY StepControl DEF ControlKept, Evidence, Overwrite, Exclusive, Capture

LEMMA KindsDisjoint ==
    ASSUME TypeOK, NEW w \in Writers
    PROVE  /\ w \in Evidence \cup Overwrite \cup Exclusive \cup Capture
           /\ w \in Evidence => w \notin Overwrite \cup Exclusive \cup Capture
           /\ w \in Capture => w \notin Overwrite \cup Exclusive \cup Evidence
           /\ w \in Exclusive => w \notin Overwrite \cup Capture \cup Evidence
BY DEF TypeOK, Evidence, Overwrite, Exclusive, Capture

LEMMA AllProgress ==
    ASSUME TypeOK, \A v \in Writers : Progress(v), NEW w \in Writers, Step(w)
    PROVE  \A v \in Writers : Progress(v)'
<1>1. Progress(w)'
  BY ProgressKept
<1>2. ASSUME NEW v \in Writers \ {w} PROVE Progress(v)'
  BY <1>2, OthersKept, KindsKept DEF Progress
<1> QED BY <1>1, <1>2

LEMMA BackupKept ==
    ASSUME TypeOK, \A v \in Writers : Progress(v) /\ BackupPart(v), NEW w \in Writers, Step(w)
    PROVE  \A v \in Writers : BackupPart(v)'
<1>1. ASSUME NEW v \in Writers \ {w} PROVE BackupPart(v)'
  BY <1>1, OthersKept, KindsKept DEF BackupPart
<1>2. BackupPart(w)'
  <2>1. /\ Backup(w) \in Names \ {Dest, Temp(w)}
        /\ WorkName(w) # Backup(w)
    BY NamesDistinct DEF WorkName
  <2>2. BackupPart(w) /\ Overwrite' = Overwrite
    BY KindsKept
  <2>3. ASSUME dir'[Backup(w)] = dir[Backup(w)], dir[Backup(w)] # NoFile
        PROVE  BackupPart(w)'
    <3>1. pc[w] \in {"replace", "restore", "tidy", "discard", "unclean", "killed", "done"}
      BY <2>2, <2>3 DEF BackupPart
    <3>2. ~(Start(w) \/ Open(w) \/ Write(w) \/ Close(w) \/ Rename(w) \/ Link(w) \/ MakeBackup(w)
            \/ Direct(w) \/ Return(w))
      BY <3>1 DEF Start, Open, Write, Close, Rename, Link, MakeBackup, Direct, Return
    <3>3. CASE Replace(w) \/ Restore(w) \/ Kill(w)
      BY <2>2, <2>3, <3>3 DEF Replace, Restore, Kill, Goto, Fail, BackupPart, TypeOK
    <3>4. CASE Tidy(w)
      BY <3>4, <2>1, <2>3, <2>2, KindsDisjoint DEF Tidy, Unlink, BackupPart, TypeOK
    <3>5. CASE Discard(w)
      BY <3>5, <2>2, <2>3 DEF Discard, Unlink, BackupPart, TypeOK
    <3> QED BY <3>2, <3>3, <3>4, <3>5 DEF Step
  <2>4. ASSUME dir'[Backup(w)] # dir[Backup(w)] PROVE BackupPart(w)'
    <3>1. \/ dir'[Backup(w)] = NoFile
          \/ MakeBackup(w) /\ pc'[w] = "replace"
      BY <2>1, <2>4, StepNames DEF Sets, Moves
    <3>2. MakeBackup(w) => w \in Overwrite
      BY DEF MakeBackup, Progress
    <3> QED BY <2>2, <3>1, <3>2 DEF BackupPart
  <2> QED BY <2>3, <2>4 DEF BackupPart
<1> QED BY <1>1, <1>2

-----------------------------------------------------------------------------
(* The destination                                                         *)

LEMMA ContentKept ==
    ASSUME TypeOK, ContentPart, \A v \in Writers : Progress(v), NEW w \in Writers, Step(w)
    PROVE  ContentPart'
<1> SUFFICES ASSUME Exclusive = {}
             PROVE  /\ dir'[Dest] \in whole' \cup {NoFile}
                    /\ \A v \in Writers : dir'[Backup(v)] \in whole' \cup {NoFile}
                    /\ "old" \in whole' => Held'
  BY KindsKept DEF ContentPart
<1>1. /\ whole \subseteq whole' /\ ("old" \in whole' => "old" \in whole)
      /\ \A v \in Writers \ {w} : pc'[v] = pc[v]
  BY StepControl, FileWritersAssumption DEF ControlKept
<1>2. /\ dir[Dest] \in whole \cup {NoFile}
      /\ \A v \in Writers : dir[Backup(v)] \in whole \cup {NoFile}
      /\ "old" \in whole => Held
  BY DEF ContentPart
<1>3. /\ Dest \in Names \ {Temp(w), Backup(w)}
      /\ \A v \in Writers : Backup(v) \in Names \ {Dest, Temp(w)}
      /\ \A v \in Writers \ {w} : Backup(v) \in Names \ {Dest, Temp(w), Backup(w)}
      /\ WorkName(w) = Temp(w)
  BY NamesDistinct DEF WorkName
<1>4. Rename(w) \/ Link(w) \/ Direct(w) \/ Replace(w) => dir[Temp(w)] \in whole
  BY DEF Rename, Link, Direct, Replace, Progress
<1>5. NoFile \notin whole
  BY FileWritersAssumption DEF TypeOK
<1> DEFINE Kept == /\ dir'[Dest] = dir[Dest]
                   /\ \A v \in Writers : dir'[Backup(v)] = dir[Backup(v)]
           Taken == /\ dir'[Dest] \in whole
                    /\ \A v \in Writers : dir'[Backup(v)] = dir[Backup(v)]
           Aside == /\ dir'[Dest] = NoFile /\ dir'[Backup(w)] = dir[Dest] /\ dir[Dest] # NoFile
                    /\ pc'[w] = "replace"
                    /\ \A v \in Writers \ {w} : dir'[Backup(v)] = dir[Backup(v)]
           Restored == /\ dir'[Dest] = dir[Backup(w)] /\ dir'[Backup(w)] = NoFile
                       /\ dir[Backup(w)] # NoFile
                       /\ \A v \in Writers \ {w} : dir'[Backup(v)] = dir[Backup(v)]
           Dropped == /\ pc[w] = "tidy"
                      /\ dir'[Dest] = dir[Dest] /\ dir'[Backup(w)] = NoFile
                      /\ \A v \in Writers \ {w} : dir'[Backup(v)] = dir[Backup(v)]
<1>6. UNCHANGED dir => Kept
  OBVIOUS
<1>7. ASSUME Taken \/ (Kept /\ pc'[w] # "tidy")
      PROVE  dir'[Dest] \in whole' \cup {NoFile}
             /\ (\A v \in Writers : dir'[Backup(v)] \in whole' \cup {NoFile})
             /\ ("old" \in whole' => Held')
  BY <1>1, <1>2, <1>5, <1>7 DEF Held
<1>8. ASSUME Aside \/ Restored \/ Dropped
      PROVE  dir'[Dest] \in whole' \cup {NoFile}
             /\ (\A v \in Writers : dir'[Backup(v)] \in whole' \cup {NoFile})
             /\ ("old" \in whole' => Held')
  <2>1. CASE Aside
    BY <1>1, <1>2, <2>1 DEF Held
  <2>2. CASE Restored
    BY <1>1, <1>2, <2>2 DEF Held
  <2>3. CASE Dropped
    BY <1>1, <1>2, <2>3 DEF Held
  <2> QED BY <1>8, <2>1, <2>2, <2>3
<1>9. (Kept /\ pc'[w] # "tidy") \/ Taken \/ Aside \/ Restored \/ Dropped
  <2>1. CASE Open(w) /\ Sets(WorkName(w), w) /\ pc'[w] = "write"
    BY <1>3, <2>1 DEF Sets
  <2>2. CASE (Rename(w) \/ Direct(w) \/ Replace(w)) /\ Moves(Temp(w), Dest)
    BY <1>3, <1>4, <2>2 DEF Moves
  <2>3. CASE Link(w) /\ Sets(Dest, dir[Temp(w)])
    BY <1>3, <1>4, <2>3 DEF Sets
  <2>4. CASE MakeBackup(w) /\ dir[Dest] # NoFile /\ Moves(Dest, Backup(w)) /\ pc'[w] = "replace"
    BY <1>3, <2>4 DEF Moves
  <2>5. CASE Restore(w) /\ dir[Backup(w)] # NoFile /\ Moves(Backup(w), Dest)
    BY <1>3, <2>5 DEF Moves
  <2>6. CASE /\ Tidy(w) /\ pc'[w] = "done"
             /\ Sets(IF w \in Capture THEN Temp(w) ELSE Backup(w), NoFile)
    <3>1. CASE w \in Capture
      BY <1>3, <2>6, <3>1 DEF Sets
    <3>2. CASE w \notin Capture
      BY <1>3, <2>6, <3>2 DEF Sets, Tidy
    <3> QED BY <3>1, <3>2
  <2>7. CASE Discard(w) /\ Sets(WorkName(w), NoFile) /\ pc'[w] = "done"
    BY <1>3, <2>7 DEF Sets
  <2> QED BY <1>6, <2>1, <2>2, <2>3, <2>4, <2>5, <2>6, <2>7, StepNames
<1> QED BY <1>7, <1>8, <1>9

(* Writers that are to create the destination change it only when it is    *)
(* missing, or to remove what one of them has created in place.            *)
LEMMA CreatorsMove ==
    ASSUME TypeOK, Writers = Exclusive \cup Capture, NEW w \in Writers, Progress(w), Step(w)
    PROVE  \/ dir'[Dest] = dir[Dest]
           \/ /\ dir[Dest] = NoFile /\ dir'[Dest] = w
              /\ \/ Open(w) /\ w \in Exclusive
                 \/ Link(w) /\ w \in Capture /\ pc'[w] = "tidy"
           \/ Discard(w) /\ w \in Exclusive /\ dir'[Dest] = NoFile
<1>1. /\ Dest \in Names \ {Temp(w), Backup(w)}
      /\ WorkName(w) = IF w \in Exclusive THEN Dest ELSE Temp(w)
  BY NamesDistinct DEF WorkName
<1>2. w \notin Evidence \cup Overwrite
  BY KindsDisjoint
<1>3. ~(Rename(w) \/ MakeBackup(w) \/ Direct(w) \/ Replace(w) \/ Restore(w))
  BY <1>2 DEF Rename, MakeBackup, Direct, Replace, Restore, Progress
<1>4. Link(w) => w \in Capture /\ dir[Temp(w)] = w
  BY DEF Link, Progress
<1>5. CASE Open(w) /\ dir[WorkName(w)] = NoFile /\ Sets(WorkName(w), w)
  BY <1>1, <1>5 DEF Sets
<1>6. CASE Discard(w) /\ Sets(WorkName(w), NoFile)
  BY <1>1, <1>6 DEF Sets
<1>7. CASE Link(w) /\ dir[Dest] = NoFile /\ Sets(Dest, dir[Temp(w)]) /\ pc'[w] = "tidy"
  BY <1>1, <1>4, <1>7 DEF Sets
<1>8. CASE Tidy(w) /\ Sets(IF w \in Capture THEN Temp(w) ELSE Backup(w), NoFile)
  BY <1>1, <1>8 DEF Sets
<1> QED BY <1>3, <1>5, <1>6, <1>7, <1>8, StepNames

LEMMA ExclusiveKept ==
    ASSUME TypeOK, \A v \in Writers : Progress(v), ExclusivePart, NEW w \in Writers, Step(w)
    PROVE  ExclusivePart'
<1> SUFFICES ASSUME Writers = Exclusive \cup Capture, NEW v \in Exclusive,
                    pc'[v] \in {"write", "discard"}
             PROVE  dir'[Dest] = v /\ v \notin whole'
  BY KindsKept DEF ExclusivePart
<1>1. v \in Writers /\ w # NoFile /\ v # NoFile
  BY FileWritersAssumption DEF Exclusive
<1>2. CASE v # w
  <2>1. dir[Dest] = v /\ v \notin whole'
    BY <1>1, <1>2, OthersKept DEF ExclusivePart
  <2>2. ~(Discard(w) /\ w \in Exclusive)
    BY <1>2, <2>1 DEF Discard, ExclusivePart
  <2> QED BY <1>1, <2>1, <2>2, CreatorsMove
<1>3. CASE v = w
  <2>1. WorkName(w) = Dest /\ Dest \in Names
    BY <1>3, NamesDistinct DEF WorkName
  <2>2. CASE Open(w)
    <3>1. pc[w] = "open" /\ UNCHANGED whole
      BY <2>2 DEF Open
    <3>2. Sets(Dest, w)
      BY <1>3, <2>1, <2>2, <3>1 DEF Open, Sets, NotOpened, Settle, TypeOK
    <3> QED BY <1>3, <3>1, <3>2 DEF Sets, Progress
  <2>3. CASE Write(w)
    BY <1>3, <2>3 DEF Write, Goto, Fail, ExclusivePart, TypeOK
  <2>4. w \notin Capture \cup Evidence \cup Overwrite
    BY <1>3, KindsDisjoint
  <2>5. ~(Start(w) \/ Close(w) \/ Return(w) \/ Kill(w) \/ Tidy(w) \/ Discard(w))
    BY <1>3, <2>4 DEF Start, Close, Return, Kill, Tidy, Discard, Unlink, Goto, Settle, Interrupted,
                      TypeOK
  <2>6. ~(Rename(w) \/ Link(w) \/ MakeBackup(w) \/ Direct(w) \/ Replace(w) \/ Restore(w))
    BY <2>4 DEF Rename, Link, MakeBackup, Direct, Replace, Restore, Progress
  <2> QED BY <2>2, <2>3, <2>5, <2>6 DEF Step
<1> QED BY <1>2, <1>3

LEMMA NothingReplacedStep ==
    ASSUME TypeOK, \A v \in Writers : Progress(v), ExclusivePart, NEW w \in Writers, Step(w),
           Writers = Exclusive \cup Capture, dir[Dest] \in whole
    PROVE  dir'[Dest] = dir[Dest]
<1>1. dir[Dest] # NoFile
  BY FileWritersAssumption DEF TypeOK
<1>2. ~(Discard(w) /\ w \in Exclusive)
  BY DEF Discard, ExclusivePart
<1> QED BY <1>1, <1>2, CreatorsMove

(* The evidence writers change it only by renaming their whole file.       *)
LEMMA EvidenceMove ==
    ASSUME TypeOK, Writers = Evidence, NEW w \in Writers, Progress(w), Step(w)
    PROVE  \/ dir'[Dest] = dir[Dest]
           \/ /\ Rename(w) /\ pc'[w] = "return" /\ UNCHANGED <<verdict, whole>>
              /\ dir'[Dest] = w /\ dir'[Temp(w)] = NoFile
<1>1. Dest \in Names \ {Temp(w), Backup(w)} /\ WorkName(w) = Temp(w)
  BY NamesDistinct, KindsDisjoint DEF WorkName
<1>2. w \notin Capture \cup Overwrite
  BY KindsDisjoint
<1>3. ~(Link(w) \/ MakeBackup(w) \/ Direct(w) \/ Replace(w) \/ Restore(w) \/ Tidy(w))
  BY <1>2 DEF Link, MakeBackup, Direct, Replace, Restore, Tidy, Progress
<1>4. CASE Open(w) /\ Sets(WorkName(w), w)
  BY <1>1, <1>4 DEF Sets
<1>5. CASE Discard(w) /\ Sets(WorkName(w), NoFile)
  BY <1>1, <1>5 DEF Sets
<1>6. CASE Rename(w) /\ Moves(Temp(w), Dest)
  <2>1. dir[Temp(w)] = w /\ w # NoFile
    BY <1>6, FileWritersAssumption DEF Rename, Progress
  <2>2. dir'[Dest] = w /\ dir'[Temp(w)] = NoFile
    BY <1>6, <2>1 DEF Moves
  <2> QED BY <1>6, <2>1, <2>2 DEF Rename, Goto, TypeOK
<1> QED BY <1>3, <1>4, <1>5, <1>6, StepNames

LEMMA EvidenceKept ==
    ASSUME TypeOK, \A v \in Writers : Progress(v), EvidencePart, NEW w \in Writers, Step(w)
    PROVE  EvidencePart'
<1> SUFFICES ASSUME Writers = Evidence, NEW v \in Writers, dir'[Dest] = v
             PROVE  v \in whole' /\ dir'[Temp(v)] = NoFile /\ verdict'[v] \in {"none", "ok"}
  BY KindsKept DEF EvidencePart
<1>1. CASE v # w
  <2>1. dir[Dest] = v
    BY <1>1, EvidenceMove
  <2> QED BY <1>1, <2>1, OthersKept DEF EvidencePart
<1>2. CASE v = w /\ dir[Dest] = w
  <2>1. w \in whole /\ dir[Temp(w)] = NoFile /\ verdict[w] \in {"none", "ok"} /\ w # NoFile
    BY <1>2, FileWritersAssumption DEF EvidencePart
  <2>2. pc[w] \in {"return"} \cup Ended
    BY <2>1, KindsDisjoint DEF Progress, TypeOK, Steps, Ended
  <2>3. CASE Return(w)
    BY <1>2, <2>1, <2>3 DEF Return, Settle, TypeOK
  <2>4. CASE Kill(w)
    BY <1>2, <2>1, <2>4 DEF Kill
  <2>5. ~(Start(w) \/ Open(w) \/ Write(w) \/ Close(w) \/ Rename(w) \/ Link(w) \/ MakeBackup(w)
          \/ Direct(w) \/ Replace(w) \/ Restore(w) \/ Tidy(w) \/ Discard(w))
    BY <2>2 DEF Start, Open, Write, Close, Rename, Link, MakeBackup, Direct, Replace, Restore, Tidy,
                Discard, Ended
  <2> QED BY <2>3, <2>4, <2>5 DEF Step
<1>3. CASE v = w /\ dir[Dest] # w
  <2>1. /\ Rename(w) /\ UNCHANGED <<verdict, whole>> /\ dir'[Temp(w)] = NoFile
    BY <1>3, EvidenceMove
  <2> QED BY <1>3, <2>1 DEF Rename, Progress
<1> QED BY <1>1, <1>2, <1>3

(* A capture changes it only by linking its whole file to a free name.     *)
LEMMA CaptureMove ==
    ASSUME TypeOK, Writers = Capture, NEW w \in Writers, Progress(w), Step(w)
    PROVE  \/ dir'[Dest] = dir[Dest] /\ pc'[w] # "tidy"
           \/ Link(w) /\ dir[Dest] = NoFile /\ dir'[Dest] = w /\ pc'[w] = "tidy"
<1>1. Writers = Exclusive \cup Capture /\ w \notin Exclusive \cup Evidence \cup Overwrite
  BY KindsDisjoint DEF Exclusive
<1>2. ASSUME dir'[Dest] = dir[Dest] PROVE pc'[w] # "tidy"
  <2>1. ~(Rename(w) \/ MakeBackup(w) \/ Direct(w) \/ Replace(w) \/ Restore(w))
    BY <1>1 DEF Rename, MakeBackup, Direct, Replace, Restore, Progress
  <2>2. Link(w) => dir[Temp(w)] = w /\ w # NoFile
    BY FileWritersAssumption DEF Link, Progress
  <2>3. ~(Link(w) /\ dir[Dest] = NoFile /\ Sets(Dest, dir[Temp(w)]))
    BY <1>2, <2>2 DEF Sets
  <2> QED BY <2>1, <2>3, StepNames
<1> QED BY <1>1, <1>2, CreatorsMove

LEMMA CaptureKept ==
    ASSUME TypeOK, \A v \in Writers : Progress(v), CapturePart, NEW w \in Writers, Step(w)
    PROVE  CapturePart'
<1> SUFFICES ASSUME Writers = Capture, NEW v \in Writers
             PROVE  /\ dir'[Dest] = v => /\ pc'[v] \in {"tidy"} \cup Ended
                                         /\ verdict'[v] \in {"none", "ok"}
                    /\ pc'[v] = "tidy" => dir'[Dest] = v
                    /\ v \in whole' /\ dir'[Temp(v)] = NoFile /\ verdict'[v] \in {"none", "ok"} =>
                          dir'[Dest] = v
                    /\ verdict'[v] = "exists" => dir'[Dest] # NoFile
  BY KindsKept DEF CapturePart
<1>1. w # NoFile /\ v # NoFile
  BY FileWritersAssumption
<1>2. CASE v # w
  <2>1. /\ pc'[v] = pc[v] /\ verdict'[v] = verdict[v] /\ dir'[Temp(v)] = dir[Temp(v)]
        /\ v \in whole' <=> v \in whole
    BY <1>2, OthersKept
  <2>2. \/ dir'[Dest] = dir[Dest]
        \/ dir[Dest] = NoFile /\ dir'[Dest] = w
    BY CaptureMove
  <2> QED BY <1>1, <1>2, <2>1, <2>2 DEF CapturePart
<1>3. CASE v = w
  <2>1. CASE Link(w) /\ dir[Dest] = NoFile /\ dir'[Dest] = w /\ pc'[w] = "tidy"
    BY <1>1, <1>3, <2>1 DEF Link, Goto, Fail, Progress, TypeOK
  <2>2. CASE dir'[Dest] = dir[Dest] /\ pc'[w] # "tidy"
    <3> USE DEF TypeOK, Goto, Settle, Fail
    <3>1. w \in Capture /\ w \notin Exclusive \cup Evidence \cup Overwrite
      BY KindsDisjoint
    <3>2. CASE Start(w)
      BY <1>3, <2>2, <3>1, <3>2 DEF Start, CapturePart, Progress, Ended
    <3>3. CASE Open(w)
      BY <1>3, <2>2, <3>1, <3>3 DEF Open, NotOpened, CapturePart, Progress, Ended
    <3>4. CASE Write(w)
      BY <1>1, <1>3, <2>2, <3>1, <3>4 DEF Write, CapturePart, Progress, Ended
    <3>10. CASE Close(w)
      <4>1. dir'[Temp(w)] = w /\ verdict'[w] \in {"none", "failed", "aborted"} /\ dir[Dest] # w
        BY <1>3, <3>1, <3>10 DEF Close, Filled, Interrupted, CapturePart, Progress, Ended
      <4> QED BY <1>1, <1>3, <2>2, <4>1
    <3>5. CASE Link(w)
      BY <1>3, <2>2, <3>1, <3>5 DEF Link, CapturePart, Progress, Ended
    <3>6. CASE Tidy(w)
      BY <1>3, <2>2, <3>6 DEF Tidy, Unlink, CapturePart, Progress, Ended
    <3>7. CASE Discard(w)
      BY <1>3, <2>2, <3>7 DEF Discard, Unlink, CapturePart, Progress, Ended
    <3>8. CASE Kill(w)
      BY <1>3, <2>2, <3>8 DEF Kill, CapturePart, Ended
    <3>9. ~(Rename(w) \/ MakeBackup(w) \/ Direct(w) \/ Replace(w) \/ Restore(w) \/ Return(w))
      BY <3>1 DEF Rename, MakeBackup, Direct, Replace, Restore, Return, Progress
    <3> QED BY <3>2, <3>3, <3>4, <3>5, <3>6, <3>7, <3>8, <3>9, <3>10 DEF Step
  <2> QED BY <2>1, <2>2, CaptureMove
<1> QED BY <1>2, <1>3

-----------------------------------------------------------------------------
(* The invariant and what follows from it                                  *)

LEMMA InitHolds == Init => IInv
<1> SUFFICES ASSUME Init PROVE IInv
  OBVIOUS
<1>1. TypeOK
  <2>1. kind \in [Writers -> {"evidence", "overwrite", "exclusive", "capture"}]
    BY DEF Init
  <2>2. /\ dir \in [Names -> {"old", NoFile}] /\ whole \subseteq {"old"}
        /\ \A w \in Writers : dir[Temp(w)] = NoFile /\ dir[Backup(w)] = NoFile
    BY NamesDistinct DEF Init
  <2> QED BY <2>1, <2>2 DEF Init, TypeOK, Steps
<1>2. \A w \in Writers : dir[Temp(w)] = NoFile /\ dir[Backup(w)] = NoFile /\ dir[Dest] # w
  BY NamesDistinct, FileWritersAssumption DEF Init
<1>3. \A w \in Writers : Progress(w) /\ BackupPart(w)
  <2>1. \A w \in Writers : pc[w] = "start" /\ verdict[w] = "none" /\ w \notin whole
    BY NamesDistinct, FileWritersAssumption DEF Init
  <2> QED BY <1>2, <2>1 DEF Progress, BackupPart
<1>4. ContentPart
  <2>1. dir[Dest] \in whole \cup {NoFile} /\ ("old" \in whole => dir[Dest] # NoFile)
    BY NamesDistinct, FileWritersAssumption DEF Init
  <2> QED BY <1>2, <2>1 DEF ContentPart, Held
<1>5. ExclusivePart /\ EvidencePart /\ CapturePart
  <2>1. \A w \in Writers : pc[w] = "start" /\ verdict[w] = "none" /\ w \notin whole
    BY NamesDistinct, FileWritersAssumption DEF Init
  <2> QED BY <1>2, <2>1 DEF ExclusivePart, EvidencePart, CapturePart, Exclusive
<1> QED BY <1>1, <1>3, <1>4, <1>5 DEF IInv

LEMMA IdleKept ==
    ASSUME IInv, UNCHANGED <<kind, dir, whole, pc, verdict>>, aborted' \in BOOLEAN
    PROVE  IInv'
<1>1. /\ Evidence' = Evidence /\ Overwrite' = Overwrite
      /\ Exclusive' = Exclusive /\ Capture' = Capture
  BY DEF Evidence, Overwrite, Exclusive, Capture
<1>2. TypeOK'
  BY DEF IInv, TypeOK
<1>3. \A w \in Writers : Progress(w)' /\ BackupPart(w)'
  BY <1>1 DEF IInv, Progress, BackupPart
<1>4. ContentPart' /\ ExclusivePart' /\ EvidencePart' /\ CapturePart'
  BY <1>1 DEF IInv, ContentPart, Held, ExclusivePart, EvidencePart, CapturePart
<1> QED BY <1>2, <1>3, <1>4 DEF IInv

LEMMA InductiveInvariant == Spec => []IInv
<1>1. ASSUME IInv, NEW w \in Writers, Step(w) PROVE IInv'
  BY <1>1, TypeKept, AllProgress, BackupKept, ContentKept, ExclusiveKept, EvidenceKept, CaptureKept
     DEF IInv
<1>2. ASSUME IInv, Abort \/ UNCHANGED vars PROVE IInv'
  BY <1>2, IdleKept DEF Abort, vars, IInv, TypeOK
<1>3. IInv /\ [Next]_vars => IInv'
  BY <1>1, <1>2 DEF Next, Step
<1> QED BY <1>3, InitHolds, PTL DEF Spec

(* Every variable keeps its type, and no temporary name ever stands for    *)
(* another writer's file, for any number of processes.                     *)
THEOREM TypeCorrect == Spec => []TypeOK
<1>1. IInv => TypeOK
  BY DEF IInv
<1> QED BY <1>1, InductiveInvariant, PTL

(* As far as unlink works, a writer that is over leaves no temporary file, *)
(* and a backup only if it failed.                                         *)
THEOREM CleanupCorrect == Spec => []NothingLeftOver
<1>1. IInv => NothingLeftOver
  BY DEF IInv, NothingLeftOver, Progress, BackupPart
<1> QED BY <1>1, InductiveInvariant, PTL

(* Unless somebody writes in place, the destination is whole or missing    *)
(* and a complete file that was there survives, whatever fails or crashes. *)
THEOREM CopyCorrect == Spec => []CompleteCopySurvives
<1>1. IInv => CompleteCopySurvives
  <2> SUFFICES ASSUME IInv, Exclusive = {}
               PROVE  /\ DestinationIsWhole
                      /\ "old" \in whole =>
                            \E n \in {Dest} \cup {Backup(w) : w \in Writers} : dir[n] \in whole
    BY DEF CompleteCopySurvives
  <2> QED BY DEF IInv, ContentPart, Held, DestinationIsWhole
<1> QED BY <1>1, InductiveInvariant, PTL

(* Writers that are to create the destination never change or remove a     *)
(* complete file that is there, however many they are.                     *)
THEOREM CreationCorrect == Spec => NothingReplaced
<1>1. IInv /\ [Next]_vars =>
         [Writers = Exclusive \cup Capture /\ dir[Dest] \in whole => dir'[Dest] = dir[Dest]]_vars
  BY NothingReplacedStep DEF IInv, Next, Step, Abort
<1> QED BY <1>1, InductiveInvariant, PTL DEF Spec, NothingReplaced

-----------------------------------------------------------------------------
(* The promise of AtomicFile                                               *)

(* When a writer counts as having installed its file.                      *)
InstalledBy ==
    /\ dir[Dest] \in whole \cup {NoFile}
    /\ \A w \in Writers :
          /\ pc[w] \in {"start", "open", "write", "close", "install", "discard"} => ~Installed(w)
          /\ pc[w] \in {"return", "tidy"} => Installed(w)
          /\ pc[w] \notin {"backup", "direct", "replace", "restore"}
          /\ dir[Dest] = w => w \in whole /\ verdict[w] \in {"none", "ok"}
          /\ w \in Evidence /\ dir[Dest] = w => dir[Temp(w)] = NoFile

LEMMA InvInstalledBy == IInv /\ Atomic => InstalledBy
<1> SUFFICES ASSUME IInv, Atomic PROVE InstalledBy
  OBVIOUS
<1>1. Exclusive = {} /\ Overwrite = {}
  BY KindsDisjoint DEF Atomic, Exclusive, Overwrite, IInv
<1>2. dir[Dest] \in whole \cup {NoFile}
  BY <1>1 DEF IInv, ContentPart
<1>3. ASSUME NEW w \in Writers
      PROVE  /\ pc[w] \in {"start", "open", "write", "close", "install", "discard"} => ~Installed(w)
             /\ pc[w] \in {"return", "tidy"} => Installed(w)
             /\ pc[w] \notin {"backup", "direct", "replace", "restore"}
             /\ dir[Dest] = w => w \in whole /\ verdict[w] \in {"none", "ok"}
             /\ w \in Evidence /\ dir[Dest] = w => dir[Temp(w)] = NoFile
  <2>1. Progress(w) /\ w # NoFile
    BY FileWritersAssumption DEF IInv
  <2>2. CASE Writers = Evidence
    <3>1. w \in Evidence /\ w \notin Capture
      BY <2>2, KindsDisjoint DEF IInv
    <3>2. dir[Dest] = w => w \in whole /\ dir[Temp(w)] = NoFile /\ verdict[w] \in {"none", "ok"}
      BY <2>2 DEF IInv, EvidencePart
    <3> QED BY <1>1, <2>1, <3>1, <3>2 DEF Installed, Progress
  <2>3. CASE Writers = Capture
    <3>1. w \in Capture /\ w \notin Evidence
      BY <2>3, KindsDisjoint DEF IInv
    <3>2. /\ dir[Dest] = w => pc[w] \in {"tidy"} \cup Ended /\ verdict[w] \in {"none", "ok"}
          /\ pc[w] = "tidy" => dir[Dest] = w
      BY <2>3 DEF IInv, CapturePart
    <3>3. dir[Dest] = w => w \in whole
      BY <1>2, <2>1
    <3> QED BY <1>1, <2>1, <3>1, <3>2, <3>3 DEF Installed, Progress, Ended
  <2> QED BY <2>2, <2>3 DEF Atomic
<1> QED BY <1>2, <1>3 DEF InstalledBy

Reporting == {"done", "unclean"}

(* What a step of an atomic writer is to a reader of the destination.      *)
Inner(w) == /\ dir'[Dest] = dir[Dest] /\ (Installed(w)' <=> Installed(w))
            /\ pc'[w] \notin Reporting

Reports(w) == /\ dir'[Dest] = dir[Dest] /\ (Installed(w)' <=> Installed(w))
              /\ pc'[w] \in Reporting
              /\ \/ verdict'[w] = "ok" /\ Installed(w)
                 \/ verdict'[w] \in {"failed", "aborted"} /\ ~Installed(w)
                 \/ verdict'[w] = "exists" /\ ~Installed(w) /\ w \in Capture /\ dir[Dest] # NoFile

Installs(w) == /\ dir'[Dest] = w /\ ~Installed(w) /\ Installed(w)'
               /\ w \in Capture => dir[Dest] = NoFile
               /\ pc'[w] \notin Reporting

LEMMA OwnStep ==
    ASSUME IInv, InstalledBy, InstalledBy', Atomic, NEW w \in Writers, Step(w)
    PROVE  Inner(w) \/ Reports(w) \/ Installs(w)
<1>1. /\ Progress(w) /\ TypeOK
      /\ w \notin Exclusive \cup Overwrite
      /\ w \in Evidence \/ w \in Capture
  BY KindsDisjoint DEF Atomic, IInv
<1>2. ASSUME dir'[Dest] # dir[Dest] PROVE Installs(w)
  <2>1. CASE Writers = Evidence
    <3>1. Rename(w) /\ pc'[w] = "return" /\ dir'[Dest] = w
      BY <1>1, <1>2, <2>1, EvidenceMove
    <3>2. ~Installed(w) /\ Installed(w)' /\ w \notin Capture
      BY <1>1, <2>1, <3>1, KindsDisjoint DEF Rename, InstalledBy
    <3> QED BY <3>1, <3>2 DEF Installs, Reporting
  <2>2. CASE Writers = Capture
    <3>1. Link(w) /\ pc'[w] = "tidy" /\ dir'[Dest] = w /\ dir[Dest] = NoFile
      BY <1>1, <1>2, <2>2, CaptureMove
    <3>2. ~Installed(w) /\ Installed(w)'
      BY <3>1 DEF Link, InstalledBy
    <3> QED BY <3>1, <3>2 DEF Installs, Reporting
  <2> QED BY <2>1, <2>2 DEF Atomic
<1>3. ASSUME dir'[Dest] = dir[Dest] PROVE Inner(w) \/ Reports(w)
  <2> USE DEF TypeOK, Goto, Settle, Fail
  <2>1. CASE Start(w)
    <3>1. ~Installed(w) /\ ~Installed(w)'
      BY <1>1, <1>3, <2>1 DEF Start, InstalledBy, Installed, Progress
    <3>2. pc'[w] \notin Reporting \/ (pc'[w] = "done" /\ verdict'[w] = "aborted")
      BY <1>1, <2>1 DEF Start, Reporting
    <3> QED BY <1>3, <3>1, <3>2 DEF Inner, Reports, Reporting
  <2>2. CASE Open(w) \/ Write(w) \/ Close(w) \/ Rename(w) \/ Link(w)
    <3>1. pc[w] \in {"open", "write", "close", "install"}
      BY <2>2 DEF Open, Write, Close, Rename, Link
    <3>2. pc'[w] \in {"write", "close", "install", "discard", "return", "tidy", "backup"}
      <4>1. CASE Open(w) \/ Write(w)
        BY <1>1, <4>1 DEF Open, NotOpened, Write
      <4>2. CASE Close(w) \/ Rename(w) \/ Link(w)
        BY <1>1, <4>2 DEF Close, Rename, Link
      <4> QED BY <2>2, <4>1, <4>2
    <3>3. pc'[w] \notin {"return", "tidy", "backup"}
      <4>1. ~Installed(w)
        BY <3>1 DEF InstalledBy
      <4>2. CASE Rename(w) /\ pc'[w] = "return"
        <5>1. Moves(Temp(w), Dest) /\ dir[Temp(w)] = w
          BY <1>1, <4>2, StepNames, NamesDistinct, MoveMoves DEF Rename, Progress, Moves
        <5> QED BY <1>3, <4>1, <5>1 DEF Moves, Installed
      <4>3. CASE Link(w) /\ pc'[w] = "tidy"
        <5>1. dir[Temp(w)] = w /\ dir'[Dest] = w
          BY <1>1, <4>3, NamesDistinct DEF Link, Progress
        <5> QED BY <1>3, <4>1, <5>1 DEF Installed
      <4>4. pc'[w] # "backup"
        BY DEF InstalledBy
      <4>5. CASE Open(w) \/ Write(w) \/ Close(w)
        BY <1>1, <4>5 DEF Open, NotOpened, Write, Close
      <4> QED BY <1>1, <2>2, <4>2, <4>3, <4>4, <4>5 DEF Rename, Link
    <3>4. ~Installed(w) /\ ~Installed(w)'
      BY <3>1, <3>2, <3>3 DEF InstalledBy
    <3> QED BY <1>3, <3>2, <3>4 DEF Inner, Reporting
  <2>3. ~(MakeBackup(w) \/ Direct(w) \/ Replace(w) \/ Restore(w))
    BY DEF InstalledBy, MakeBackup, Direct, Replace, Restore
  <2>4. CASE Tidy(w)
    <3>1. Installed(w) /\ w \in Capture /\ Atomic
      BY <1>1, <2>4 DEF Tidy, InstalledBy, Progress
    <3>2. dir[Dest] = w
      BY <1>1, <2>4, <3>1, KindsDisjoint DEF IInv, CapturePart, Tidy, Atomic
    <3>3. Installed(w)' /\ verdict'[w] = "ok" /\ pc'[w] \in Reporting
      BY <1>1, <1>3, <2>4, <3>2 DEF Tidy, Unlink, Installed, Reporting
    <3> QED BY <1>3, <3>1, <3>3 DEF Reports
  <2>5. CASE Return(w)
    <3>1. Installed(w)
      BY <2>5 DEF Return, InstalledBy
    <3>2. Installed(w)' /\ verdict'[w] = "ok" /\ pc'[w] \in Reporting
      BY <1>1, <2>5 DEF Return, Installed, Progress, Reporting
    <3> QED BY <1>3, <3>1, <3>2 DEF Reports
  <2>6. CASE Discard(w)
    <3>1. ~Installed(w) /\ verdict[w] \in {"failed", "aborted", "exists"}
      BY <1>1, <2>6 DEF Discard, InstalledBy, Progress
    <3>2. verdict'[w] = verdict[w] /\ pc'[w] \in Reporting
      BY <1>1, <2>6 DEF Discard, Unlink, Reporting
    <3>3. ~Installed(w)'
      BY <1>3, <3>1, <3>2 DEF Installed
    <3>4. verdict[w] = "exists" => w \in Capture /\ dir[Dest] # NoFile
      BY <1>1, KindsDisjoint DEF Progress, IInv, CapturePart, Atomic
    <3> QED BY <1>3, <3>1, <3>2, <3>3, <3>4 DEF Reports
  <2>7. CASE Kill(w)
    BY <1>1, <1>3, <2>7 DEF Kill, Inner, Installed, Reporting
  <2> QED BY <2>1, <2>2, <2>3, <2>4, <2>5, <2>6, <2>7 DEF Step
<1> QED BY <1>2, <1>3

(* The variables of AtomicFile, as FileWriters maps them.                  *)
File == IF ~Atomic THEN NoFile
        ELSE IF dir[Dest] \in whole \cup {NoFile} THEN dir[Dest] ELSE "partial"
InstalledSet == {w \in Writers : Atomic /\ Installed(w)}
ReportOf == [w \in Writers |-> IF Atomic /\ pc[w] \in {"done", "unclean"}
                               THEN verdict[w] ELSE "none"]

LEMMA StepImplements ==
    ASSUME IInv, InstalledBy, InstalledBy', Atomic, Atomic', NEW w \in Writers, Step(w)
    PROVE  Contract!FileNext \/ UNCHANGED Contract!fileVars
<1>1. Capture' = Capture /\ File = dir[Dest] /\ File' = dir'[Dest]
  BY KindsKept DEF IInv, File, InstalledBy
<1>2. ReportOf[w] = "none"
  <2>1. pc[w] \notin Reporting
    BY DEF Step, Start, Open, Write, Close, Rename, Link, MakeBackup, Direct, Replace, Restore,
           Tidy, Return, Discard, Kill, Reporting, Ended
  <2> QED BY <2>1 DEF ReportOf, Reporting
<1>3. ASSUME NEW v \in Writers \ {w}
      PROVE  ReportOf'[v] = ReportOf[v] /\ (Installed(v)' <=> Installed(v))
  <2>1. /\ pc'[v] = pc[v] /\ verdict'[v] = verdict[v] /\ dir'[Temp(v)] = dir[Temp(v)]
        /\ v \in whole' <=> v \in whole
    BY OthersKept DEF IInv
  <2>2. CASE dir'[Dest] = dir[Dest]
    BY <2>1, <2>2 DEF ReportOf, Installed
  <2>3. CASE Installs(w)
    <3>1. dir[Dest] = v => v \in whole /\ dir[Temp(v)] = NoFile /\ verdict[v] \in {"none", "ok"}
      <4>1. CASE v \in Evidence
        BY <4>1 DEF InstalledBy
      <4>2. CASE w \in Capture
        BY <2>3, <4>2, FileWritersAssumption DEF Installs
      <4> QED BY <4>1, <4>2 DEF Atomic
    <3> QED BY <2>1, <2>3, <3>1 DEF ReportOf, Installed, Installs
  <2> QED BY <2>2, <2>3, OwnStep DEF Inner, Reports
<1>4. /\ InstalledSet = {v \in Writers : Installed(v)}
      /\ InstalledSet' = {v \in Writers : Installed(v)'}
  BY DEF InstalledSet
<1>5. CASE Inner(w)
  <2>1. InstalledSet' = InstalledSet
    BY <1>3, <1>4, <1>5 DEF Inner
  <2>2. ReportOf' = ReportOf
    <3>1. \A v \in Writers : ReportOf'[v] = ReportOf[v]
      BY <1>2, <1>3, <1>5 DEF Inner, Reporting, ReportOf
    <3> QED BY <3>1 DEF ReportOf
  <2> QED BY <1>1, <1>5, <2>1, <2>2 DEF Inner, Contract!fileVars, File, InstalledSet, ReportOf
<1>6. CASE Installs(w)
  <2>1. InstalledSet' = InstalledSet \cup {w} /\ w \notin InstalledSet
    BY <1>3, <1>4, <1>6 DEF Installs
  <2>2. ReportOf' = ReportOf
    <3>1. \A v \in Writers : ReportOf'[v] = ReportOf[v]
      BY <1>2, <1>3, <1>6 DEF Installs, Reporting, ReportOf
    <3> QED BY <3>1 DEF ReportOf
  <2>3. (w \in Capture => File = NoFile) /\ File' = w
    BY <1>1, <1>6 DEF Installs
  <2>4. Contract!Install(w)
    BY <1>1, <1>2, <2>1, <2>2, <2>3 DEF Contract!Install, File, InstalledSet, ReportOf
  <2> QED BY <2>4 DEF Contract!FileNext
<1>7. CASE Reports(w)
  <2>1. InstalledSet' = InstalledSet /\ File' = File
    BY <1>1, <1>3, <1>4, <1>7 DEF Reports
  <2>2. ReportOf' = [ReportOf EXCEPT ![w] = verdict'[w]]
    <3>1. ReportOf'[w] = verdict'[w]
      BY <1>7 DEF Reports, Reporting, ReportOf
    <3>2. \A v \in Writers : ReportOf'[v] = [ReportOf EXCEPT ![w] = verdict'[w]][v]
      BY <1>3, <3>1 DEF ReportOf
    <3> QED BY <3>2 DEF ReportOf
  <2>3. \/ verdict'[w] = "ok" /\ w \in InstalledSet
        \/ verdict'[w] \in {"failed", "aborted"} /\ w \notin InstalledSet
        \/ verdict'[w] = "exists" /\ w \in Capture \ InstalledSet /\ File # NoFile
    BY <1>1, <1>4, <1>7 DEF Reports
  <2>4. Contract!Report(w)
    BY <1>1, <1>2, <2>1, <2>2, <2>3 DEF Contract!Report, File, InstalledSet, ReportOf
  <2> QED BY <2>4 DEF Contract!FileNext
<1> QED BY <1>5, <1>6, <1>7, OwnStep

(* Evidence artifacts and sanitized captures keep the promise of           *)
(* AtomicFile: the destination changes only by taking on a complete file   *)
(* in one step, and a writer's result says whether its step was made - for *)
(* any number of processes, failures and crashes (writeEvidenceArtifact    *)
(* and persistSanitizedCapture).                                           *)
THEOREM AtomicFileImplemented == Spec => ImplementsAtomicFile
<1>1. Init => Contract!FileInit
  <2> SUFFICES ASSUME Init PROVE Contract!FileInit
    OBVIOUS
  <2>1. /\ dir[Dest] \in {"old", NoFile}
        /\ \A w \in Writers : w \notin whole /\ dir[Dest] # w /\ pc[w] = "start"
    BY NamesDistinct, FileWritersAssumption DEF Init
  <2>2. dir[Dest] \in whole \cup {NoFile}
    BY NamesDistinct DEF Init
  <2>3. InstalledSet = {} /\ ReportOf = [w \in Writers |-> "none"] /\ File \in {NoFile, "old"}
    BY <2>1, <2>2 DEF InstalledSet, Installed, ReportOf, File
  <2>4. Capture \in SUBSET Writers
    BY DEF Capture
  <2> QED BY <2>3, <2>4 DEF Contract!FileInit, InstalledSet, ReportOf, File
<1>2. IInv /\ (Atomic => InstalledBy) /\ (Atomic' => InstalledBy') /\ [Next]_vars =>
         [Contract!FileNext]_(Contract!fileVars)
  <2> SUFFICES ASSUME IInv, Atomic => InstalledBy, Atomic' => InstalledBy', [Next]_vars
               PROVE  Contract!FileNext \/ UNCHANGED Contract!fileVars
    OBVIOUS
  <2>1. ASSUME NEW w \in Writers, Step(w)
        PROVE  Contract!FileNext \/ UNCHANGED Contract!fileVars
    <3>1. (Atomic' <=> Atomic) /\ Capture' = Capture
      BY <2>1, KindsKept DEF IInv, Atomic
    <3>2. CASE Atomic
      BY <2>1, <3>1, <3>2, StepImplements
    <3>3. CASE ~Atomic
      <4>1. /\ File = NoFile /\ File' = NoFile /\ InstalledSet = {} /\ InstalledSet' = {}
            /\ ReportOf' = ReportOf
        BY <3>1, <3>3 DEF File, InstalledSet, ReportOf
      <4> QED BY <3>1, <4>1 DEF Contract!fileVars, File, InstalledSet, ReportOf
    <3> QED BY <3>2, <3>3
  <2>2. ASSUME Abort \/ UNCHANGED vars PROVE UNCHANGED Contract!fileVars
    <3>1. UNCHANGED <<kind, dir, whole, pc, verdict>>
      BY <2>2 DEF Abort, vars
    <3>2. Evidence' = Evidence /\ Capture' = Capture
      BY <3>1 DEF Evidence, Capture
    <3> QED BY <3>1, <3>2 DEF Contract!fileVars, Atomic, Installed
  <2> QED BY <2>1, <2>2 DEF Next, Step
<1>3. Spec => [](IInv /\ (Atomic => InstalledBy))
  BY InductiveInvariant, InvInstalledBy, PTL
<1> QED BY <1>1, <1>2, <1>3, PTL DEF Spec, ImplementsAtomicFile, Contract!FileSpec
=============================================================================
