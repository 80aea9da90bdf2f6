---------------------------- MODULE StoredValue ----------------------------
(***************************************************************************)
(* What a reader may find of a value that is saved to a file, whatever     *)
(* happens in between: the abstract specification that FileStore           *)
(* implements.  A save drafts the new value beside the old one; it may     *)
(* hide the old one; then it installs the draft, brings the old value      *)
(* back, or loses it.  Only a save that was excused, because something     *)
(* failed or the value was cleared meanwhile, may return without having    *)
(* installed its own value; what it installs instead is an earlier draft.  *)
(***************************************************************************)
CONSTANTS Contents, None

VARIABLES
  found,    \* what a reader finds
  draft,    \* what is drafted beside it, perhaps by a save that never returned
  saving,   \* the value being saved, or None
  kept,     \* the value that a save has hidden, or None
  excused,  \* the save under way need not succeed
  result    \* what the last save returned

vars == <<found, draft, saving, kept, excused, result>>

Init ==
  /\ found \in Contents \cup {None}
  /\ draft = None /\ saving = None /\ kept = None
  /\ excused = FALSE /\ result = "none"

Begin(v) ==
  /\ saving = None
  /\ saving' = v /\ excused' = FALSE /\ result' = "none"
  /\ UNCHANGED <<found, draft, kept>>

Draft ==
  /\ saving # None
  /\ draft' = saving
  /\ UNCHANGED <<found, saving, kept, excused, result>>

\* What is installed: the value, and in an excused save an earlier draft.
Installs == found' = saving \/ (excused /\ found' = draft)

Hide ==
  /\ saving # None
  /\ kept' = found /\ found' = None
  /\ UNCHANGED <<draft, saving, excused, result>>

Install ==
  /\ saving # None
  /\ Installs
  /\ draft' = None /\ kept' = None
  /\ UNCHANGED <<saving, excused, result>>

Restore ==
  /\ saving # None /\ excused
  /\ found' = kept /\ kept' = None
  /\ UNCHANGED <<draft, saving, excused, result>>

Fail ==
  /\ saving # None
  /\ excused' = TRUE
  /\ draft' \in {draft, None} /\ kept' \in {kept, None}
  /\ UNCHANGED <<found, saving, result>>

ReturnSaved ==
  /\ saving # None
  /\ \/ Installs /\ draft' = None /\ excused' = excused
     \/ (found = saving \/ excused) /\ excused' \in {excused, TRUE}
        /\ UNCHANGED <<found, draft>>
  /\ saving' = None /\ kept' = None /\ result' = "saved"

\* Unless something failed no save is given up.
ReturnFailed ==
  /\ saving # None
  /\ excused' = TRUE
  /\ draft' \in {draft, None}
  /\ saving' = None /\ kept' = None /\ result' = "failed"
  /\ UNCHANGED found

Clear ==
  /\ found' \in {found, None} /\ kept' \in {kept, None}
  /\ excused' = TRUE
  /\ UNCHANGED <<draft, saving, result>>

\* The program ends, and what a save was keeping is lost.
Crash ==
  /\ draft' \in {draft, saving, None}
  /\ saving' = None /\ kept' = None
  /\ UNCHANGED <<found, excused, result>>

Next ==
  \/ \E v \in Contents : Begin(v)
  \/ Draft \/ Hide \/ Install \/ Restore \/ Fail
  \/ ReturnSaved \/ ReturnFailed \/ Clear \/ Crash

Spec == Init /\ [][Next]_vars
=============================================================================
