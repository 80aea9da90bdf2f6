----------------------------- MODULE FileStore -----------------------------
(***************************************************************************)
(* Saving a file of BoosterNX: write a temporary file, then                *)
(* ReplaceWithTemporaryFile (atomic_file_replace.hpp), one file system     *)
(* call per action.  SaveSession, SaveStreamSettings and RecordGamePlayed  *)
(* all end this way; the first one does not look whether the temporary     *)
(* file was written (Checked = FALSE).  A FAT file system may refuse to    *)
(* rename onto an existing file, any call may fail, the program may end    *)
(* between two calls, and the file may be cleared in the middle of a save. *)
(***************************************************************************)
EXTENDS Naturals

CONSTANTS
  Contents,   \* what can be saved
  None,       \* no file, or no value
  Torn,       \* an incomplete file, which no loader accepts
  Checked,    \* the writer checks that the temporary file is complete
  MaxFaults   \* failures of the file system

ASSUME FileAssumption ==
  /\ None \notin Contents /\ Torn \notin Contents /\ None # Torn
  /\ Checked \in BOOLEAN
  /\ MaxFaults \in Nat

VARIABLES
  dest,      \* the file at destination_path
  bak,       \* the file at backup_path
  tmp,       \* the file at temporary_path
  spc,       \* the next call of the saving thread
  new,       \* what it saves
  faults,    \* history: calls that failed
  excused,   \* history: something failed, or cleared the file, since the save began
  result     \* what the last save returned

fileVars == <<dest, bak, tmp, spc, new, faults, excused, result>>

Files == Contents \cup {None, Torn}

(* Loading: an incomplete file is not valid JSON, so it counts as none. *)
Readable(file) == IF file \in Contents THEN file ELSE None

FileInit ==
  /\ dest \in Contents \cup {None}
  /\ bak = None /\ tmp = None
  /\ spc = "idle" /\ new = None
  /\ faults = 0 /\ excused = FALSE /\ result = "none"

(* A call returns normally (ok) or fails and does nothing.                 *)
Outcome(ok) ==
  /\ ok \/ faults < MaxFaults
  /\ faults' = IF ok THEN faults ELSE faults + 1
  /\ excused' = (excused \/ ~ok)

Continue(next) == spc' = next /\ UNCHANGED <<new, result>>
Return(value) == spc' = "idle" /\ new' = None /\ result' = value

BeginSave(v) ==
  /\ spc = "idle"
  /\ spc' = "write" /\ new' = v /\ excused' = FALSE /\ result' = "none"
  /\ UNCHANGED <<dest, bak, tmp, faults>>

\* The file does not open, and an earlier temporary file stays, or it is
\* not written to its end.  SaveSession goes on all the same.
WriteTemporary ==
  /\ spc = "write"
  /\ \/ Outcome(TRUE) /\ tmp' = new /\ Continue("remove backup")
     \/ /\ Outcome(FALSE)
        /\ IF Checked THEN tmp' \in {tmp, Torn, None} /\ Return("failed")
                      ELSE tmp' \in {tmp, Torn} /\ Continue("remove backup")
  /\ UNCHANGED <<dest, bak>>

(* Mutant: a backup that a crash left behind stays in the way. *)
MutantRemoveBackup ==
  /\ spc = "remove backup" /\ Continue("install")
  /\ UNCHANGED <<dest, bak, tmp, faults, excused>>

RemoveBackup ==
  /\ spc = "remove backup"
  /\ \E ok \in BOOLEAN : Outcome(ok) /\ bak' = IF ok THEN None ELSE bak
  /\ Continue("install")
  /\ UNCHANGED <<dest, tmp>>

\* A rename is refused when the destination exists, on a FAT file system;
\* elsewhere it replaces the destination.
Install ==
  /\ spc = "install"
  /\ \/ /\ tmp # None
        /\ Outcome(TRUE)
        /\ dest' = tmp /\ tmp' = None /\ Return("saved")
     \/ /\ Outcome(dest # None \/ tmp = None)
        /\ Continue("keep")
        /\ UNCHANGED <<dest, tmp>>
  /\ UNCHANGED bak

Keep ==
  /\ spc = "keep"
  /\ \/ /\ dest # None /\ bak = None
        /\ Outcome(TRUE)
        /\ bak' = dest /\ dest' = None /\ Continue("reinstall")
     \/ /\ Outcome(dest = None \/ bak # None)
        /\ Continue("drop temporary")
        /\ UNCHANGED <<dest, bak>>
  /\ UNCHANGED tmp

Reinstall ==
  /\ spc = "reinstall"
  /\ \/ /\ tmp # None
        /\ Outcome(TRUE)
        /\ dest' = tmp /\ tmp' = None /\ Continue("drop backup")
     \/ /\ Outcome(tmp = None)
        /\ Continue("roll back")
        /\ UNCHANGED <<dest, tmp>>
  /\ UNCHANGED bak

DropBackup ==
  /\ spc = "drop backup"
  /\ \E ok \in BOOLEAN : Outcome(ok) /\ bak' = IF ok THEN None ELSE bak
  /\ Return("saved")
  /\ UNCHANGED <<dest, tmp>>

RollBack ==
  /\ spc = "roll back"
  /\ \/ /\ bak # None
        /\ Outcome(TRUE)
        /\ dest' = bak /\ bak' = None
     \/ /\ Outcome(bak = None)
        /\ UNCHANGED <<dest, bak>>
  /\ Continue("drop temporary")
  /\ UNCHANGED tmp

DropTemporary ==
  /\ spc = "drop temporary"
  /\ \E ok \in BOOLEAN : Outcome(ok) /\ tmp' = IF ok THEN None ELSE tmp
  /\ Return("failed")
  /\ UNCHANGED <<dest, bak>>

SaveStep ==
  \/ WriteTemporary \/ RemoveBackup \/ Install \/ Keep \/ Reinstall
  \/ DropBackup \/ RollBack \/ DropTemporary

\* ClearSavedSession removes the file, then its backup, whether or not the
\* first one succeeded.
ClearFile ==
  /\ \E ok \in BOOLEAN :
       /\ ok \/ faults < MaxFaults
       /\ faults' = IF ok THEN faults ELSE faults + 1
       /\ dest' = IF ok THEN None ELSE dest
  /\ excused' = TRUE
  /\ UNCHANGED <<bak, tmp, spc, new, result>>

ClearBackup ==
  /\ bak' \in {bak, None} /\ excused' = TRUE
  /\ UNCHANGED <<dest, tmp, spc, new, faults, result>>

\* The program ends: the files stay as they are, the temporary one perhaps
\* half written.
Crash ==
  /\ spc' = "idle" /\ new' = None
  /\ tmp' \in IF spc = "write" THEN {tmp, Torn, new} ELSE {tmp}
  /\ UNCHANGED <<dest, bak, faults, excused, result>>

FileNext ==
  \/ \E v \in Contents : BeginSave(v)
  \/ SaveStep \/ ClearFile \/ ClearBackup \/ Crash

FileSpec == FileInit /\ [][FileNext]_fileVars
----------------------------------------------------------------------------
(* Properties                                                              *)

FilesOK ==
  /\ dest \in Files /\ bak \in Files /\ tmp \in Files
  /\ spc \in {"idle", "write", "remove backup", "install", "keep", "reinstall",
              "drop backup", "roll back", "drop temporary"}
  /\ new \in Contents \cup {None} /\ (spc = "idle" <=> new = None)
  /\ faults \in 0..MaxFaults /\ excused \in BOOLEAN
  /\ result \in {"none", "saved", "failed"}

(* What a save that nothing disturbed has established at each call: the    *)
(* temporary file is complete, no old backup is in the way, the file it    *)
(* moves aside is there.                                                   *)
Undisturbed ==
  excused = FALSE =>
  /\ spc \in {"remove backup", "install", "keep", "reinstall"} => tmp = new
  /\ spc \in {"install", "keep"} => bak = None
  /\ spc = "keep" => dest # None
  /\ spc = "drop backup" => dest = new
  /\ spc \notin {"roll back", "drop temporary"}

FileInvariant == FilesOK /\ Undisturbed

Hidden == spc \in {"reinstall", "roll back"}

(* Whatever fails and wherever the program ends, a reader finds what was   *)
(* there before, what was saved last or what an interrupted save had       *)
(* drafted, or nothing; nothing only after a failure, a clearing or an end *)
(* of the program between the two renames; and a save during which nothing *)
(* failed has taken effect, also after earlier ends left files behind.     *)
Stored == INSTANCE StoredValue WITH
  found <- Readable(dest),
  draft <- Readable(tmp),
  saving <- new,
  kept <- IF Hidden THEN Readable(bak) ELSE None

ImplementsStoredValue == Stored!Spec
=============================================================================
