--------------------------- MODULE AccountProofs ---------------------------
(***************************************************************************)
(* Proofs about saving a file and about the account that is saved.         *)
(*                                                                         *)
(* First, FileStore implements StoredValue, for every set of contents,     *)
(* number of failures and kind of writer.  Then, the session file under    *)
(* the whole of Account changes as StoredValue allows, whatever the user,  *)
(* the server and the threads do.  Last, the file and the session agree:   *)
(* the results that wait for the UI thread say what the session will be,   *)
(* and the newest of them is what the file holds, unless one of them will  *)
(* find its form gone.                                                     *)
(***************************************************************************)
EXTENDS Account, TLAPS, SequenceTheorems

LEMMA InitInvariant == FileInit => FileInvariant
<1> SUFFICES ASSUME FileInit PROVE FilesOK /\ Undisturbed
  BY DEF FileInvariant
<1>1. FilesOK
  <2>1. dest \in Files /\ bak \in Files /\ tmp \in Files
    BY DEF FileInit, Files
  <2>2. spc = "idle" /\ new = None /\ excused \in BOOLEAN /\ result = "none"
    BY DEF FileInit
  <2>3. faults \in 0..MaxFaults
    BY FileAssumption DEF FileAssumption, FileInit
  <2> QED BY <2>1, <2>2, <2>3 DEF FilesOK
<1>2. Undisturbed
  BY DEF FileInit, Undisturbed
<1> QED BY <1>1, <1>2

(* Every action keeps the invariant: a save reaches a call only with what  *)
(* the calls before it left, or it has been excused.                       *)
LEMMA StepInvariant ==
  ASSUME FileInvariant, [FileNext]_fileVars
  PROVE  FileInvariant'
<1> USE DEF FileInvariant, FilesOK, Continue, Return, FileNext, SaveStep, fileVars,
      BeginSave, WriteTemporary, RemoveBackup, Install, Keep, Reinstall, DropBackup,
      RollBack, DropTemporary, ClearFile, ClearBackup, Crash
<1>1. dest' \in Files /\ bak' \in Files /\ tmp' \in Files
  BY DEF Files
<1>2. spc' \in {"idle", "write", "remove backup", "install", "keep", "reinstall",
               "drop backup", "roll back", "drop temporary"}
  OBVIOUS
<1>3. new' \in Contents \cup {None}
  OBVIOUS
<1>4. spc' = "idle" <=> new' = None
  BY FileAssumption DEF FileAssumption
<1>5. faults' \in 0..MaxFaults
  <2>1. faults' = faults \/ (faults < MaxFaults /\ faults' = faults + 1)
    BY DEF Outcome
  <2>2. faults \in 0..MaxFaults /\ MaxFaults \in Nat
    BY FileAssumption DEF FileAssumption
  <2> QED
    BY ONLY <2>1, <2>2
<1>6. excused' \in BOOLEAN
  BY DEF Outcome
<1>7. result' \in {"none", "saved", "failed"}
  OBVIOUS
<1>8. Undisturbed'
  BY FileAssumption DEF FileAssumption, Outcome, Undisturbed, Files
<1> QED
  BY <1>1, <1>2, <1>3, <1>4, <1>5, <1>6, <1>7, <1>8 DEF FilesOK

(* The invariant holds of everything a save, a clearing and an end of the  *)
(* program do to the files.                                                *)
THEOREM FileInvariance == FileSpec => []FileInvariant
<1>1. FileInvariant /\ [FileNext]_fileVars => FileInvariant'
  BY StepInvariant
<1> QED
  BY InitInvariant, <1>1, PTL DEF FileSpec
----------------------------------------------------------------------------
LEMMA InitSimulated == FileInit => Stored!Init
BY FileAssumption DEF FileAssumption, FileInit, Stored!Init, Readable, Hidden

(* Every call of a save, whether it succeeds or fails, every clearing and  *)
(* every end of the program is a step of StoredValue, or changes nothing   *)
(* of what StoredValue speaks about.                                       *)
LEMMA StepSimulated ==
  ASSUME FileInvariant, FileInvariant', [FileNext]_fileVars
  PROVE  [Stored!Next]_(Stored!vars)
<1> USE FileAssumption DEF FileAssumption, FileInvariant, FilesOK, Undisturbed, Files, Outcome, Continue,
      Return, Readable, Hidden
<1>1. ASSUME NEW v \in Contents, BeginSave(v) PROVE Stored!Begin(v)
  BY <1>1 DEF BeginSave, Stored!Begin
<1>2. CASE WriteTemporary
  <2>1. Stored!Draft \/ Stored!Fail \/ Stored!ReturnFailed
    BY <1>2 DEF WriteTemporary, Stored!Draft, Stored!Fail, Stored!ReturnFailed
  <2> QED BY <2>1 DEF Stored!Next
<1>3. CASE RemoveBackup
  <2>1. Stored!Fail \/ UNCHANGED Stored!vars
    BY <1>3 DEF RemoveBackup, Stored!Fail, Stored!vars
  <2> QED BY <2>1 DEF Stored!Next
<1>4. CASE Install
  <2>1. Stored!ReturnSaved \/ Stored!Fail \/ UNCHANGED Stored!vars
    BY <1>4 DEF Install, Stored!ReturnSaved, Stored!Installs, Stored!Fail, Stored!vars
  <2> QED BY <2>1 DEF Stored!Next
<1>5. CASE Keep
  <2>1. Stored!Hide \/ Stored!Fail \/ UNCHANGED Stored!vars
    BY <1>5 DEF Keep, Stored!Hide, Stored!Fail, Stored!vars
  <2> QED BY <2>1 DEF Stored!Next
<1>6. CASE Reinstall
  <2>1. Stored!Install \/ Stored!Fail \/ UNCHANGED Stored!vars
    BY <1>6 DEF Reinstall, Stored!Install, Stored!Installs, Stored!Fail, Stored!vars
  <2> QED BY <2>1 DEF Stored!Next
<1>7. CASE DropBackup
  <2>1. Stored!ReturnSaved
    BY <1>7 DEF DropBackup, Stored!ReturnSaved
  <2> QED BY <2>1 DEF Stored!Next
<1>8. CASE RollBack
  <2>1. Stored!Restore \/ Stored!Fail
    BY <1>8 DEF RollBack, Stored!Restore, Stored!Fail
  <2> QED BY <2>1 DEF Stored!Next
<1>9. CASE DropTemporary
  <2>1. Stored!ReturnFailed
    BY <1>9 DEF DropTemporary, Stored!ReturnFailed
  <2> QED BY <2>1 DEF Stored!Next
<1>10. CASE ClearFile
  <2>1. Stored!Clear
    BY <1>10 DEF ClearFile, Stored!Clear
  <2> QED BY <2>1 DEF Stored!Next
<1>11. CASE ClearBackup
  <2>1. Stored!Clear
    BY <1>11 DEF ClearBackup, Stored!Clear
  <2> QED BY <2>1 DEF Stored!Next
<1>12. CASE Crash
  <2>1. Stored!Crash
    BY <1>12 DEF Crash, Stored!Crash
  <2> QED BY <2>1 DEF Stored!Next
<1>13. CASE UNCHANGED fileVars
  BY <1>13 DEF fileVars, Stored!vars
<1> QED
  BY <1>1, <1>2, <1>3, <1>4, <1>5, <1>6, <1>7, <1>8, <1>9, <1>10, <1>11, <1>12, <1>13
  DEF FileNext, SaveStep, Stored!Next

(* Whatever fails and wherever the program ends, what a reader finds       *)
(* changes only as StoredValue allows.                                     *)
THEOREM Implementation == FileSpec => ImplementsStoredValue
<1>1. FileInvariant /\ FileInvariant' /\ [FileNext]_fileVars => [Stored!Next]_(Stored!vars)
  BY StepSimulated
<1> QED
  BY InitSimulated, FileInvariance, <1>1, PTL DEF FileSpec, ImplementsStoredValue, Stored!Spec
----------------------------------------------------------------------------
LEMMA ItemIn ==
  ASSUME NEW a \in Contents
  PROVE  /\ Item("validate", a) \in Requests /\ Item("login", a) \in Requests
         /\ Item("reload", a) \in Requests /\ Item("complete", a) \in Results
BY DEF Item, Requests, Results

LEMMA AliveIn ==
  ASSUME NEW P, NEW Q, NEW r \in [kind : P, account : Q, alive : BOOLEAN], NEW b \in BOOLEAN
  PROVE  [r EXCEPT !.alive = b] \in [kind : P, account : Q, alive : BOOLEAN]
OBVIOUS

LEMMA OrphanedIn ==
  ASSUME NEW P, NEW Q,
         NEW s \in Seq([kind : P, account : Q, alive : BOOLEAN])
  PROVE  /\ Orphaned(s) \in Seq([kind : P, account : Q, alive : BOOLEAN])
         /\ Len(Orphaned(s)) = Len(s)
<1> DEFINE R == [kind : P, account : Q, alive : BOOLEAN]
           keeps(i) == IF s[i].kind \in {"login", "signed in", "refused"}
                         THEN FALSE ELSE s[i].alive
<1>1. \A i \in 1..Len(s) : [s[i] EXCEPT !.alive = keeps(i)] \in R
  <2> TAKE i \in 1..Len(s)
  <2>1. s[i] \in R
    <3> HIDE DEF R
    <3>1. s \in Seq(R)
      BY DEF R
    <3> QED BY <3>1, ElementOfSeq
  <2>2. keeps(i) \in BOOLEAN
    BY <2>1
  <2> HIDE DEF keeps
  <2> QED BY <2>1, <2>2, AliveIn
<1>2. Orphaned(s) = [i \in 1..Len(s) |-> [s[i] EXCEPT !.alive = keeps(i)]]
  BY DEF Orphaned
<1> HIDE DEF R, keeps
<1>3. Orphaned(s) \in [1..Len(s) -> R]
  BY <1>1, <1>2
<1>4. Len(s) \in Nat
  BY DEF R
<1>5. Orphaned(s) \in Seq(R) /\ Len(Orphaned(s)) = Len(s)
  BY <1>3, <1>4
<1> QED BY <1>5 DEF R

LEMMA OrphanedQueues ==
  /\ \A s \in Seq(Requests) :
       Orphaned(s) \in Seq(Requests) /\ (s # <<>> => Orphaned(s) # <<>>)
  /\ \A s \in Seq(Results) : Orphaned(s) \in Seq(Results)
<1>1. \A s \in Seq(Requests) : Orphaned(s) \in Seq(Requests) /\ Len(Orphaned(s)) = Len(s)
  BY OrphanedIn DEF Requests
<1>2. \A s \in Seq(Results) : Orphaned(s) \in Seq(Results)
  BY OrphanedIn DEF Results
<1>3. ASSUME NEW s \in Seq(Requests), s # <<>> PROVE Orphaned(s) # <<>>
  <2>1. Len(s) # 0
    BY <1>3, EmptySeq
  <2> QED BY <1>1, <2>1
<1> QED BY <1>1, <1>2, <1>3

LEMMA HeadOfTasks ==
  ASSUME tasks \in Seq(Requests), tasks # <<>>
  PROVE  Head(tasks).account \in Contents
<1>1. Head(tasks) \in Requests
  BY HeadTailProperties
<1> QED BY <1>1 DEF Requests

LEMMA HeadOfPosts ==
  ASSUME posts \in Seq(Results), posts # <<>>
  PROVE  Head(posts).account \in Contents \cup {None}
<1>1. Head(posts) \in Results
  BY HeadTailProperties
<1> QED BY <1>1 DEF Results

(* A request that ends leaves the queue, and its result joins the other.   *)
LEMMA PostQueues ==
  ASSUME tasks \in Seq(Requests), posts \in Seq(Results), tasks # <<>>,
         NEW k \in {"complete", "signed in", "refused", "library", "no library"},
         NEW a \in Contents \cup {None}, Post(k, a)
  PROVE  tasks' \in Seq(Requests) /\ posts' \in Seq(Results) /\ tpc' = "request"
<1>1. Head(tasks) \in Requests /\ Tail(tasks) \in Seq(Requests)
  BY HeadTailProperties
<1>2. [Head(tasks) EXCEPT !.kind = k, !.account = a] \in Results
  BY <1>1 DEF Requests, Results
<1>3. /\ tasks' = Tail(tasks) /\ tpc' = "request"
      /\ posts' = Append(posts, [Head(tasks) EXCEPT !.kind = k, !.account = a])
  BY DEF Post
<1> QED BY <1>1, <1>2, <1>3, AppendProperties

(* A refresh asks for the library of the account signed in, if there is    *)
(* one.                                                                    *)
LEMMA ReloadQueues ==
  ASSUME NEW s \in Contents \cup {None}, NEW q \in Seq(Requests), ReloadLibrary(s, q)
  PROVE  tasks' \in Seq(Requests) /\ (q # <<>> => tasks' # <<>>)
<1>1. CASE loading \/ s = None
  BY <1>1 DEF ReloadLibrary
<1>2. CASE ~loading /\ s # None
  <2>1. Item("reload", s) \in Requests
    BY <1>2, ItemIn
  <2>2. tasks' = Append(q, Item("reload", s))
    BY <1>2 DEF ReloadLibrary
  <2> QED BY <2>1, <2>2, AppendProperties
<1> QED BY <1>1, <1>2

LEMMA AppearsQueues ==
  ASSUME NEW s \in Contents \cup {None}, NEW q \in Seq(Requests), LibraryAppears(s, q)
  PROVE  tasks' \in Seq(Requests) /\ (q # <<>> => tasks' # <<>>)
BY ReloadQueues DEF LibraryAppears

LEMMA TabsQueues ==
  ASSUME QueuesOK, posts # <<>>, NEW s \in Contents \cup {None}, ShowMainTabs(s),
         UNCHANGED tpc
  PROVE  QueuesOK'
<1>1. Orphaned(tasks) \in Seq(Requests) /\ (tasks # <<>> => Orphaned(tasks) # <<>>)
  BY OrphanedQueues DEF QueuesOK
<1>2. tasks' \in Seq(Requests) /\ (Orphaned(tasks) # <<>> => tasks' # <<>>)
  BY <1>1, AppearsQueues DEF ShowMainTabs
<1>3. Tail(posts) \in Seq(Results)
  BY HeadTailProperties DEF QueuesOK
<1>4. posts' \in Seq(Results)
  BY <1>3, OrphanedQueues DEF ShowMainTabs
<1> QED BY <1>1, <1>2, <1>4 DEF ShowMainTabs, QueuesOK

LEMMA InitQueues == Init => QueuesOK
BY DEF Init, QueuesOK

LEMMA StepQueues ==
  ASSUME QueuesOK, [Next]_vars
  PROVE  QueuesOK'
<1> USE DEF QueuesOK
<1>1. CASE Start
  <2>1. CASE Readable(dest) = None
    BY <1>1, <2>1 DEF Start, threadVars
  <2>2. CASE Readable(dest) # None
    <3>1. Readable(dest) \in Contents
      BY <2>2 DEF Readable
    <3>2. \/ posts' = <<Item("complete", Readable(dest))>> /\ UNCHANGED tasks
          \/ tasks' = <<Item("validate", Readable(dest))>> /\ UNCHANGED posts
      BY <1>1, <2>2 DEF Start
    <3>3. /\ <<Item("complete", Readable(dest))>> \in Seq(Results)
          /\ <<Item("validate", Readable(dest))>> \in Seq(Requests)
          /\ <<Item("validate", Readable(dest))>> # <<>>
      BY <3>1, ItemIn
    <3>4. UNCHANGED <<tpc, session>>
      BY <1>1, <2>2 DEF Start
    <3> QED BY <3>2, <3>3, <3>4
  <2> QED BY <2>1, <2>2
<1>2. CASE End
  BY <1>2 DEF End
<1>3. CASE Save \/ Saving
  BY <1>3 DEF Save, Saving, Running, uiVars, threadVars
<1>4. CASE ValidationFails \/ LoginFails \/ FetchLibrary
  <2>1. tasks # <<>> /\ UNCHANGED session
    BY <1>4 DEF ValidationFails, LoginFails, FetchLibrary, Running, uiVars
  <2>2. Head(tasks).account \in Contents
    BY <2>1, HeadOfTasks
  <2>3. tasks' \in Seq(Requests) /\ posts' \in Seq(Results) /\ tpc' = "request"
    BY <1>4, <2>1, <2>2, PostQueues DEF ValidationFails, LoginFails, FetchLibrary
  <2> QED BY <2>1, <2>3
<1>5. CASE Saved
  <2>1. tasks # <<>> /\ UNCHANGED session
    BY <1>5 DEF Saved, uiVars
  <2>2. Head(tasks).account \in Contents
    BY <2>1, HeadOfTasks
  <2>3. tasks' \in Seq(Requests) /\ posts' \in Seq(Results) /\ tpc' = "request"
    BY <1>5, <2>1, <2>2, PostQueues DEF Saved
  <2> QED BY <2>1, <2>3
<1>6. CASE Complete
  <2>1. posts # <<>>
    BY <1>6 DEF Complete, Posted
  <2> QED BY <1>6, <2>1, HeadOfPosts, TabsQueues DEF Complete
<1>7. CASE SignedIn
  <2>1. posts # <<>> /\ UNCHANGED tpc
    BY <1>7 DEF SignedIn, Posted
  <2>2. Head(posts).account \in Contents \cup {None} /\ Tail(posts) \in Seq(Results)
    BY <2>1, HeadOfPosts, HeadTailProperties
  <2>3. CASE screen = "login"
    BY <1>7, <2>1, <2>2, <2>3, TabsQueues DEF SignedIn
  <2>4. CASE screen # "login"
    <3>1. session' = Head(posts).account /\ PopForm
      BY <1>7, <2>4 DEF SignedIn
    <3>2. CASE form = "open"
      <4>1. posts' = Tail(posts) /\ ReloadLibrary(Head(posts).account, tasks)
        BY <3>1, <3>2 DEF PopForm
      <4> QED BY <2>1, <2>2, <3>1, <4>1, ReloadQueues
    <3>3. CASE form # "open"
      <4>1. /\ posts' = Orphaned(Tail(posts))
            /\ ReloadLibrary(Head(posts).account, Orphaned(tasks))
        BY <3>1, <3>3 DEF PopForm
      <4> QED BY <2>1, <2>2, <3>1, <4>1, ReloadQueues, OrphanedQueues
    <3> QED BY <3>2, <3>3
  <2> QED BY <2>3, <2>4
<1>8. CASE LateResult \/ LibraryLoaded \/ LibraryFailed
  <2>1. posts # <<>> /\ posts' = Tail(posts) /\ UNCHANGED <<tasks, tpc, session>>
    BY <1>8 DEF LateResult, LibraryLoaded, LibraryFailed, Posted, uiVars
  <2> QED BY <2>1, HeadTailProperties
<1>9. CASE FadeEnds
  BY <1>9, OrphanedQueues DEF FadeEnds
<1>10. CASE LogoutEnds
  BY <1>10 DEF LogoutEnds, threadVars
<1>11. ASSUME NEW a \in Contents, SubmitLogin(a) PROVE QueuesOK'
  <2>1. tasks' = Append(tasks, Item("login", a)) /\ Item("login", a) \in Requests
    BY <1>11, ItemIn DEF SubmitLogin
  <2>2. tasks' \in Seq(Requests) /\ tasks' # <<>>
    BY <2>1, AppendProperties
  <2> QED BY <1>11, <2>2 DEF SubmitLogin, uiVars
<1>12. CASE BeginLogin \/ Back \/ Logout \/ OpenSearch \/ OpenSettings
  BY <1>12 DEF BeginLogin, Back, Logout, OpenSearch, OpenSettings, threadVars
<1>13. CASE Refresh
  BY <1>13, ReloadQueues DEF Refresh
<1>14. CASE OpenLibrary
  BY <1>14, AppearsQueues DEF OpenLibrary
<1>15. CASE UNCHANGED vars
  BY <1>15 DEF vars, uiVars, threadVars
<1> QED
  BY <1>1, <1>2, <1>3, <1>4, <1>5, <1>6, <1>7, <1>8, <1>9, <1>10, <1>11, <1>12, <1>13,
    <1>14, <1>15
  DEF Next, TaskStep, UIPost, User
----------------------------------------------------------------------------
(* Account touches the files only through the actions of FileStore.        *)
LEMMA FilesOnly ==
  ASSUME QueuesOK, [Next]_vars
  PROVE  [FileNext]_fileVars
<1>1. CASE Start \/ UIPost \/ FadeEnds
  BY <1>1 DEF Start, UIPost, Complete, SignedIn, LateResult, LibraryLoaded, LibraryFailed,
    FadeEnds
<1>2. CASE End
  BY <1>2 DEF End, FileNext
<1>3. CASE Save
  <2>1. tasks # <<>> /\ BeginSave(Head(tasks).account)
    BY <1>3 DEF Save, Running
  <2>2. Head(tasks).account \in Contents
    BY <2>1, HeadOfTasks DEF QueuesOK
  <2> QED BY <2>1, <2>2 DEF FileNext
<1>4. CASE ValidationFails \/ LoginFails \/ Saving \/ Saved \/ FetchLibrary
  BY <1>4 DEF ValidationFails, LoginFails, Saving, Saved, FetchLibrary, FileNext
<1>5. CASE LogoutEnds
  BY <1>5 DEF LogoutEnds, FileNext
<1>6. CASE User
  BY <1>6 DEF User, SubmitLogin, BeginLogin, Back, Refresh, Logout, OpenLibrary, OpenSearch,
    OpenSettings, FileNext
<1>7. CASE UNCHANGED vars
  BY <1>7 DEF vars
<1> QED
  BY <1>1, <1>2, <1>3, <1>4, <1>5, <1>6, <1>7 DEF Next, TaskStep

(* The saved session is never anything but what was saved, what an excused *)
(* save installed, or nothing, in every behaviour of the application.      *)
THEOREM SessionStored == Spec => ImplementsStoredValue
<1>1. Init => FileInit
  BY DEF Init
<1>2. QueuesOK /\ [Next]_vars => QueuesOK'
  BY StepQueues
<1>3. QueuesOK /\ [Next]_vars => [FileNext]_fileVars
  BY FilesOnly
<1> QED
  BY InitQueues, Implementation, <1>1, <1>2, <1>3, PTL DEF Spec, FileSpec
----------------------------------------------------------------------------
(* The file and the session.                                               *)

Awaited == {"login", "signed in", "refused"}

(* What waits for a login form is all that can outlive what waits for it.  *)
DeadItems ==
  /\ \A i \in 1..Len(tasks) : ~tasks[i].alive => tasks[i].kind = "login"
  /\ \A i \in 1..Len(posts) : ~posts[i].alive => posts[i].kind \in {"signed in", "refused"}

(* Behind the gate one saved session waits to be shown.                    *)
GateWaits ==
  \E a \in Contents :
    \/ /\ tasks = <<Item("validate", a)>> /\ posts = <<>>
       /\ tpc = "request" => Readable(dest) = a
    \/ /\ tasks = <<>> /\ posts = <<Item("complete", a)>> /\ tpc = "request"
       /\ ~parted => Readable(dest) = a

(* What waits on which screen: nobody is waited for without a form.        *)
Screens ==
  /\ screen \in {"off", "gate", "login", "tabs"}
  /\ form \in {"none", "open", "fading"} /\ (form # "none" => screen = "tabs")
  /\ upc \in {"idle", "logout"} /\ (upc = "logout" => screen = "tabs" /\ form = "none")
  /\ screen # "tabs" => session = None
  /\ screen = "off" => tasks = <<>> /\ posts = <<>> /\ tpc = "request"
  /\ screen = "gate" => GateWaits
  /\ screen # "gate" => /\ \A i \in 1..Len(tasks) : tasks[i].kind # "validate"
                        /\ \A i \in 1..Len(posts) : posts[i].kind # "complete"
  /\ screen = "tabs" /\ form = "none" =>
       /\ \A i \in 1..Len(tasks) : tasks[i].kind = "login" => ~tasks[i].alive
       /\ \A i \in 1..Len(posts) : posts[i].kind = "signed in" => ~posts[i].alive

(* A save is of the first request's account; nothing else saves.           *)
SaveOK ==
  /\ tpc \in {"request", "save"}
  /\ tpc = "request" => spc = "idle"
  /\ tpc = "save" =>
       /\ tasks # <<>> /\ Head(tasks).kind \in {"validate", "login"}
       /\ spc # "idle" => new = Head(tasks).account
       /\ spc = "idle" /\ ~excused => Readable(dest) = Head(tasks).account

(* A sign-in whose form is gone has saved its session, or is saving it.    *)
Doomed ==
  \/ \E i \in 1..Len(posts) : posts[i].kind = "signed in" /\ ~posts[i].alive
  \/ tpc = "save" /\ ~Head(tasks).alive

(* The file holds the account of the newest result that signs in, or what  *)
(* the session is if there is none.                                        *)
Newest ==
  \/ /\ \A i \in 1..Len(posts) : posts[i].kind # "signed in"
     /\ Readable(dest) = IF upc = "idle" THEN session ELSE None
  \/ \E i \in 1..Len(posts) :
       /\ posts[i].kind = "signed in" /\ posts[i].account = Readable(dest)
       /\ \A j \in 1..Len(posts) : i < j => posts[j].kind # "signed in"

Agrees ==
  screen \in {"login", "tabs"} /\ tpc = "request" /\ ~parted /\ ~Doomed => Newest

Session == DeadItems /\ Screens /\ SaveOK /\ Agrees /\ parted \in BOOLEAN

IInv == QueuesOK /\ FileInvariant /\ Session

LEMMA AppendElements ==
  ASSUME NEW S, NEW q \in Seq(S), NEW e \in S
  PROVE  /\ Len(Append(q, e)) = Len(q) + 1
         /\ \A i \in 1..Len(q) : Append(q, e)[i] = q[i]
         /\ Append(q, e)[Len(q) + 1] = e
BY AppendProperties, LenProperties

(* What becomes of the elements of a queue.                                *)
LEMMA OrphanedElements ==
  ASSUME NEW S, S = Requests \/ S = Results, NEW s \in Seq(S)
  PROVE  /\ Len(s) \in Nat /\ Len(Orphaned(s)) = Len(s)
         /\ \A i \in 1..Len(s) :
              /\ Orphaned(s)[i].kind = s[i].kind /\ Orphaned(s)[i].account = s[i].account
              /\ Orphaned(s)[i].alive = IF s[i].kind \in Awaited THEN FALSE ELSE s[i].alive
<1>1. Len(s) \in Nat
  BY LenProperties
<1>2. Len(Orphaned(s)) = Len(s)
  BY OrphanedIn DEF Requests, Results
<1>3. ASSUME NEW i \in 1..Len(s)
      PROVE  /\ Orphaned(s)[i].kind = s[i].kind /\ Orphaned(s)[i].account = s[i].account
             /\ Orphaned(s)[i].alive = IF s[i].kind \in Awaited THEN FALSE ELSE s[i].alive
  <2>1. s[i] \in S
    BY ElementOfSeq
  <2>2. Orphaned(s)[i]
          = [s[i] EXCEPT !.alive = IF s[i].kind \in Awaited THEN FALSE ELSE s[i].alive]
    <3>1. DOMAIN s = 1..Len(s)
      BY LenProperties
    <3> QED BY <3>1, Zenon DEF Orphaned, Awaited
  <2>3. CASE S = Requests
    BY <2>1, <2>2, <2>3 DEF Requests
  <2>4. CASE S = Results
    BY <2>1, <2>2, <2>4 DEF Results
  <2> QED BY <2>3, <2>4
<1> QED BY <1>1, <1>2, <1>3

(* A reload joins the queue behind what is there.                          *)
Reloads(q, r) ==
  /\ Len(q) \in Nat /\ Len(r) \in Nat /\ Len(q) <= Len(r)
  /\ \A i \in 1..Len(q) : r[i] = q[i]
  /\ \A i \in 1..Len(r) : Len(q) < i => r[i].kind = "reload" /\ r[i].alive = TRUE

LEMMA ReloadElements ==
  ASSUME NEW s \in Contents \cup {None}, NEW q \in Seq(Requests), ReloadLibrary(s, q)
  PROVE  Reloads(q, tasks')
<1>0. Len(q) \in Nat
  BY LenProperties
<1>1. CASE loading \/ s = None
  BY <1>0, <1>1 DEF ReloadLibrary, Reloads
<1>2. CASE ~loading /\ s # None
  <2>1. tasks' = Append(q, Item("reload", s))
    BY <1>2 DEF ReloadLibrary
  <2>2. /\ Len(tasks') = Len(q) + 1 /\ tasks'[Len(q) + 1] = Item("reload", s)
        /\ \A i \in 1..Len(q) : tasks'[i] = q[i]
    BY <1>2, <2>1, ItemIn, AppendProperties
  <2>3. Item("reload", s).kind = "reload" /\ Item("reload", s).alive = TRUE
    BY DEF Item
  <2> QED BY <1>0, <2>2, <2>3 DEF Reloads
<1> QED BY <1>1, <1>2

LEMMA AppearsElements ==
  ASSUME NEW s \in Contents \cup {None}, NEW q \in Seq(Requests), LibraryAppears(s, q)
  PROVE  Reloads(q, tasks')
<1>1. CASE library # None
  BY <1>1, LenProperties DEF LibraryAppears, Reloads
<1>2. CASE library = None
  BY <1>2, ReloadElements DEF LibraryAppears
<1> QED BY <1>1, <1>2

LEMMA TailElements ==
  ASSUME NEW S, NEW q \in Seq(S), q # <<>>
  PROVE  /\ Len(q) \in Nat \ {0} /\ Head(q) = q[1] /\ 1 \in 1..Len(q) /\ Tail(q) \in Seq(S)
         /\ Len(Tail(q)) = Len(q) - 1
         /\ \A i \in 1..Len(Tail(q)) : Tail(q)[i] = q[i + 1] /\ i + 1 \in 1..Len(q)
BY HeadTailProperties, LenProperties, EmptySeq

LEMMA OneMore ==
  ASSUME NEW n \in Nat, NEW m, m = n + 1
  PROVE  /\ \A i \in 1..m : i \in 1..n \/ i = n + 1
         /\ \A i \in 1..n : i \in 1..m
         /\ m \in 1..m /\ \A j \in 1..m : ~(m < j)
OBVIOUS

(* A request that ends: its result is the last.                            *)
LEMMA PostElements ==
  ASSUME QueuesOK, tasks # <<>>,
         NEW k \in {"complete", "signed in", "refused", "library", "no library"},
         NEW a \in Contents \cup {None}, Post(k, a)
  PROVE  /\ Len(posts) \in Nat /\ Len(posts') = Len(posts) + 1
         /\ \A i \in 1..Len(posts') : i \in 1..Len(posts) \/ i = Len(posts) + 1
         /\ \A i \in 1..Len(posts) : i \in 1..Len(posts')
         /\ Len(posts') \in 1..Len(posts')
         /\ \A j \in 1..Len(posts') : ~(Len(posts') < j)
         /\ \A i \in 1..Len(posts) : posts'[i] = posts[i]
         /\ posts'[Len(posts) + 1].kind = k /\ posts'[Len(posts) + 1].account = a
         /\ posts'[Len(posts) + 1].alive = tasks[1].alive
         /\ tpc' = "request"
         /\ Len(tasks) \in Nat \ {0} /\ Len(tasks') = Len(tasks) - 1
         /\ \A i \in 1..Len(tasks') : tasks'[i] = tasks[i + 1] /\ i + 1 \in 1..Len(tasks)
         /\ Head(tasks) = tasks[1] /\ 1 \in 1..Len(tasks)
<1> DEFINE r == [Head(tasks) EXCEPT !.kind = k, !.account = a]
<1>1. tasks \in Seq(Requests) /\ posts \in Seq(Results)
  BY DEF QueuesOK
<1>2. /\ Len(tasks) \in Nat \ {0} /\ Head(tasks) = tasks[1] /\ 1 \in 1..Len(tasks)
      /\ Len(Tail(tasks)) = Len(tasks) - 1
      /\ \A i \in 1..Len(Tail(tasks)) : Tail(tasks)[i] = tasks[i + 1] /\ i + 1 \in 1..Len(tasks)
  BY <1>1, TailElements
<1>3. Head(tasks) \in Requests
  BY <1>1, HeadTailProperties
<1>4. r \in Results /\ r.kind = k /\ r.account = a /\ r.alive = Head(tasks).alive
  BY <1>3 DEF Requests, Results
<1>5. posts' = Append(posts, r) /\ tasks' = Tail(tasks) /\ tpc' = "request"
  BY DEF Post
<1> HIDE DEF r
<1>6. /\ Len(posts) \in Nat /\ Len(posts') = Len(posts) + 1
      /\ \A i \in 1..Len(posts) : posts'[i] = posts[i]
      /\ posts'[Len(posts) + 1] = r
  <2>1. Len(posts) \in Nat
    BY <1>1, LenProperties
  <2>2. /\ Len(Append(posts, r)) = Len(posts) + 1
        /\ \A i \in 1..Len(posts) : Append(posts, r)[i] = posts[i]
        /\ Append(posts, r)[Len(posts) + 1] = r
    BY <1>1, <1>4, AppendElements
  <2> QED BY <1>5, <2>1, <2>2
<1>7. /\ \A i \in 1..Len(posts') : i \in 1..Len(posts) \/ i = Len(posts) + 1
      /\ \A i \in 1..Len(posts) : i \in 1..Len(posts')
      /\ Len(posts') \in 1..Len(posts') /\ \A j \in 1..Len(posts') : ~(Len(posts') < j)
  BY <1>6, OneMore
<1> QED BY <1>2, <1>4, <1>5, <1>6, <1>7

(* A save that nothing excused leaves its own value in the file.           *)
LEMMA SaveSteps ==
  ASSUME FileInvariant, SaveStep
  PROVE  /\ spc # "idle" /\ (spc' # "idle" => new' = new)
         /\ spc' = "idle" /\ ~excused' => Readable(dest') = new
<1> USE FileAssumption DEF FileAssumption, FileInvariant, FilesOK, Undisturbed, Files,
      Outcome, Continue, Return, Readable
<1>1. CASE WriteTemporary
  BY <1>1 DEF WriteTemporary
<1>2. CASE RemoveBackup \/ Keep \/ RollBack
  BY <1>2 DEF RemoveBackup, Keep, RollBack
<1>3. CASE Install \/ Reinstall
  BY <1>3 DEF Install, Reinstall
<1>4. CASE DropBackup \/ DropTemporary
  BY <1>4 DEF DropBackup, DropTemporary
<1> QED BY <1>1, <1>2, <1>3, <1>4 DEF SaveStep

LEMMA QueueFacts ==
  ASSUME QueuesOK
  PROVE  /\ tasks \in Seq(Requests) /\ posts \in Seq(Results)
         /\ Len(tasks) \in Nat /\ (tasks # <<>> => Len(tasks) # 0 /\ Head(tasks) = tasks[1])
         /\ Len(posts) \in Nat /\ (posts # <<>> => Len(posts) # 0 /\ Head(posts) = posts[1])
         /\ \A i \in 1..Len(tasks) : /\ tasks[i].kind \in {"validate", "login", "reload"}
                                     /\ tasks[i].account \in Contents
                                     /\ tasks[i].alive \in BOOLEAN
         /\ \A i \in 1..Len(posts) :
              /\ posts[i].kind \in {"complete", "signed in", "refused", "library", "no library"}
              /\ posts[i].account \in Contents \cup {None}
              /\ posts[i].alive \in BOOLEAN
<1>1. tasks \in Seq(Requests) /\ posts \in Seq(Results)
  BY DEF QueuesOK
<1>2. Len(tasks) \in Nat /\ (tasks # <<>> => Len(tasks) # 0 /\ Head(tasks) = tasks[1])
  BY <1>1, LenProperties, TailElements
<1>3. Len(posts) \in Nat /\ (posts # <<>> => Len(posts) # 0 /\ Head(posts) = posts[1])
  BY <1>1, LenProperties, TailElements
<1>4. ASSUME NEW i \in 1..Len(tasks)
      PROVE  /\ tasks[i].kind \in {"validate", "login", "reload"}
             /\ tasks[i].account \in Contents /\ tasks[i].alive \in BOOLEAN
  <2>1. tasks[i] \in Requests
    BY <1>1, ElementOfSeq
  <2> QED BY <2>1 DEF Requests
<1>5. ASSUME NEW i \in 1..Len(posts)
      PROVE  /\ posts[i].kind \in {"complete", "signed in", "refused", "library", "no library"}
             /\ posts[i].account \in Contents \cup {None} /\ posts[i].alive \in BOOLEAN
  <2>1. posts[i] \in Results
    BY <1>1, ElementOfSeq
  <2> QED BY <2>1 DEF Results
<1> QED BY <1>1, <1>2, <1>3, <1>4, <1>5

(* The task thread begins a save, and makes a call of it.                  *)
LEMMA SaveKeeps ==
  ASSUME IInv, Save
  PROVE  Session'
<1> USE DEF IInv, Session
<1>1. /\ UNCHANGED <<uiVars, tasks, posts, parted, dest>> /\ tpc' = "save" /\ tasks # <<>>
      /\ Head(tasks).kind \in {"validate", "login"}
      /\ spc' = "write" /\ new' = Head(tasks).account
  BY DEF Save, Running, BeginSave
<1>2. DeadItems'
  BY <1>1 DEF DeadItems
<1>3. Screens'
  BY <1>1 DEF Screens, GateWaits, uiVars
<1>4. SaveOK'
  BY <1>1 DEF SaveOK
<1>5. Agrees'
  BY <1>1 DEF Agrees
<1> QED BY <1>1, <1>2, <1>3, <1>4, <1>5

LEMMA SavingKeeps ==
  ASSUME IInv, Saving
  PROVE  Session'
<1> USE DEF IInv, Session
<1>1. UNCHANGED <<uiVars, threadVars, parted>> /\ tpc = "save" /\ SaveStep
  BY DEF Saving
<1>2. /\ spc # "idle" /\ (spc' # "idle" => new' = new)
      /\ spc' = "idle" /\ ~excused' => Readable(dest') = new
  BY <1>1, SaveSteps
<1>3. UNCHANGED <<tasks, posts, tpc>>
  BY <1>1 DEF threadVars
<1>4. DeadItems'
  BY <1>3 DEF DeadItems
<1>5. Screens'
  BY <1>1, <1>3 DEF Screens, GateWaits, uiVars
<1>6. SaveOK'
  BY <1>1, <1>2, <1>3 DEF SaveOK
<1>7. Agrees'
  BY <1>1, <1>3 DEF Agrees
<1> QED BY <1>1, <1>4, <1>5, <1>6, <1>7

LEMMA HeadOfOne ==
  ASSUME NEW x
  PROVE  Head(<<x>>) = x
OBVIOUS

LEMMA ItemFields ==
  ASSUME NEW k, NEW a
  PROVE  Item(k, a).kind = k /\ Item(k, a).account = a
BY DEF Item

LEMMA ItemAlive ==
  ASSUME NEW k, NEW a
  PROVE  Item(k, a).alive = TRUE
BY DEF Item

LEMMA SameFields ==
  ASSUME NEW P, NEW Q, NEW r \in [kind : P, account : Q, alive : BOOLEAN],
         NEW s \in [kind : P, account : Q, alive : BOOLEAN],
         r.kind = s.kind, r.account = s.account, r.alive = s.alive
  PROVE  r = s
OBVIOUS

(* A saved session is validated only behind the gate.                      *)
LEMMA GateOnly ==
  ASSUME QueuesOK, Screens, tasks # <<>>, Head(tasks).kind = "validate"
  PROVE  screen = "gate"
<1>1. Len(tasks) \in Nat /\ Len(tasks) # 0 /\ tasks[1].kind = "validate"
  BY QueueFacts
<1>2. 1 \in 1..Len(tasks)
  BY <1>1
<1> QED BY <1>1, <1>2 DEF Screens

(* Behind the gate the one request ends, and its result waits.             *)
LEMMA GatePosts ==
  ASSUME IInv, tasks # <<>>, Head(tasks).kind = "validate",
         Post("complete", Head(tasks).account), spc = "idle",
         UNCHANGED <<uiVars, fileVars>>, parted' \in BOOLEAN,
         ~parted' => Readable(dest) = Head(tasks).account
  PROVE  Session'
<1> USE DEF IInv, Session
<1>1. screen = "gate"
  BY GateOnly
<1>2. PICK a \in Contents : tasks = <<Item("validate", a)>> /\ posts = <<>>
  BY <1>1 DEF Screens, GateWaits
<1>3. /\ Head(tasks) = Item("validate", a) /\ Tail(tasks) = <<>>
      /\ [Head(tasks) EXCEPT !.kind = "complete", !.account = Head(tasks).account]
           = Item("complete", a)
  <2>1. Head(tasks) = Item("validate", a) /\ Tail(tasks) = <<>>
    BY <1>2
  <2> DEFINE r == [Head(tasks) EXCEPT !.kind = "complete", !.account = Head(tasks).account]
  <2>2. Head(tasks) \in Requests /\ Head(tasks).account = a /\ Head(tasks).alive = TRUE
    <3>1. Item("validate", a) \in Requests
      BY ItemIn
    <3>2. Item("validate", a).account = a /\ Item("validate", a).alive = TRUE
      BY ItemFields, ItemAlive
    <3> QED BY ONLY <2>1, <3>1, <3>2, Zenon
  <2>3. r \in Results /\ r.kind = "complete" /\ r.account = a /\ r.alive = TRUE
    BY <2>2 DEF Requests, Results
  <2>4. /\ Item("complete", a) \in Results /\ Item("complete", a).kind = "complete"
        /\ Item("complete", a).account = a /\ Item("complete", a).alive = TRUE
    BY ItemIn, ItemFields, ItemAlive
  <2> HIDE DEF r
  <2>5. r = Item("complete", a)
    BY <2>3, <2>4, SameFields DEF Results
  <2> QED BY <2>1, <2>5 DEF r
<1>4. tasks' = <<>> /\ posts' = <<Item("complete", a)>> /\ tpc' = "request"
  BY <1>2, <1>3 DEF Post
<1>5. Head(tasks).account = a
  BY <1>3 DEF Item
<1>6. UNCHANGED <<screen, form, session, upc, dest, spc, new>>
  BY DEF uiVars, fileVars
<1>7. DeadItems'
  <2>1. Len(tasks') = 0 /\ Len(posts') = 1 /\ posts'[1] = Item("complete", a)
    BY <1>4
  <2>2. Item("complete", a).alive = TRUE
    BY ItemAlive
  <2>3. \A i \in 1..Len(tasks') : FALSE
    BY <2>1
  <2>4. \A i \in 1..Len(posts') : i = 1
    BY <2>1
  <2> QED BY ONLY <2>1, <2>2, <2>3, <2>4, Zenon DEF DeadItems
<1>8. Screens'
  <2>1. GateWaits'
    BY <1>4, <1>5, <1>6 DEF GateWaits
  <2> QED BY <1>1, <1>6, <2>1 DEF Screens
<1>9. SaveOK'
  BY <1>4, <1>6 DEF SaveOK
<1>10. Agrees'
  BY <1>1, <1>6 DEF Agrees
<1> QED BY <1>7, <1>8, <1>9, <1>10

(* A request other than the validation ends, and its result waits.         *)
LEMMA PostKeeps ==
  ASSUME QueuesOK, DeadItems, Screens, tasks # <<>>, Head(tasks).kind # "validate",
         NEW k \in {"signed in", "refused", "library", "no library"},
         NEW a \in Contents \cup {None}, Post(k, a), spc = "idle",
         UNCHANGED <<uiVars, fileVars>>,
         k \in {"signed in", "refused"} <=> Head(tasks).kind = "login"
  PROVE  DeadItems' /\ Screens' /\ SaveOK'
<1>1. /\ Len(posts) \in Nat /\ Len(posts') = Len(posts) + 1
      /\ \A i \in 1..Len(posts') : i \in 1..Len(posts) \/ i = Len(posts) + 1
      /\ \A i \in 1..Len(posts) : i \in 1..Len(posts')
      /\ \A i \in 1..Len(posts) : posts'[i] = posts[i]
      /\ posts'[Len(posts) + 1].kind = k /\ posts'[Len(posts) + 1].alive = tasks[1].alive
      /\ tpc' = "request"
      /\ Len(tasks) \in Nat \ {0}
      /\ Len(tasks') = Len(tasks) - 1
      /\ \A i \in 1..Len(tasks') : tasks'[i] = tasks[i + 1] /\ i + 1 \in 1..Len(tasks)
      /\ Head(tasks) = tasks[1] /\ 1 \in 1..Len(tasks)
  BY PostElements
<1>2. \A i \in 1..Len(posts') : i \in 1..Len(posts) \/ i = Len(posts) + 1
  BY <1>1, Zenon
<1>3. UNCHANGED <<screen, form, session, upc, dest, spc, new, excused>>
  BY DEF uiVars, fileVars
<1>4. DeadItems'
  <2>1. ASSUME NEW i \in 1..Len(tasks'), ~tasks'[i].alive PROVE tasks'[i].kind = "login"
    <3>1. tasks'[i] = tasks[i + 1] /\ i + 1 \in 1..Len(tasks)
      BY <1>1
    <3> QED BY <2>1, <3>1 DEF DeadItems
  <2>2. ASSUME NEW i \in 1..Len(posts'), ~posts'[i].alive
        PROVE  posts'[i].kind \in {"signed in", "refused"}
    <3>1. CASE i \in 1..Len(posts)
      BY <1>1, <2>2, <3>1 DEF DeadItems
    <3>2. CASE i = Len(posts) + 1
      <4>1. ~tasks[1].alive
        BY <1>1, <2>2, <3>2
      <4> QED BY <1>1, <3>2, <4>1 DEF DeadItems
    <3> QED BY <1>2, <3>1, <3>2
  <2> QED BY <2>1, <2>2 DEF DeadItems
<1>5. screen \notin {"off", "gate"}
  <2>1. CASE screen = "gate"
    <3>1. PICK b \in Contents : tasks = <<Item("validate", b)>>
      BY <2>1 DEF Screens, GateWaits
    <3>2. Head(tasks) = Item("validate", b)
      BY ONLY <3>1, HeadOfOne
    <3>3. Item("validate", b).kind = "validate"
      BY ONLY ItemFields
    <3> QED BY <3>2, <3>3
  <2> QED BY <2>1 DEF Screens
<1>6. Screens'
  <2>1. /\ screen' \in {"off", "gate", "login", "tabs"}
        /\ form' \in {"none", "open", "fading"} /\ (form' # "none" => screen' = "tabs")
        /\ upc' \in {"idle", "logout"}
        /\ (upc' = "logout" => screen' = "tabs" /\ form' = "none")
        /\ screen' # "tabs" => session' = None
        /\ screen' # "off" /\ screen' # "gate"
    BY <1>3, <1>5 DEF Screens
  <2>2. \A i \in 1..Len(tasks') : tasks'[i].kind # "validate"
    BY <1>1, <1>5 DEF Screens
  <2>3. \A i \in 1..Len(posts') : posts'[i].kind # "complete"
    BY <1>1, <1>2, <1>5 DEF Screens
  <2>4. ASSUME screen' = "tabs", form' = "none", NEW i \in 1..Len(tasks'),
               tasks'[i].kind = "login"
        PROVE  ~tasks'[i].alive
    BY <1>1, <1>3, <2>4 DEF Screens
  <2>5. ASSUME screen' = "tabs", form' = "none", NEW i \in 1..Len(posts'),
               posts'[i].kind = "signed in"
        PROVE  ~posts'[i].alive
    <3>1. CASE i \in 1..Len(posts)
      BY <1>1, <1>3, <2>5, <3>1 DEF Screens
    <3>2. CASE i = Len(posts) + 1
      <4>1. k = "signed in" /\ posts'[i].alive = tasks[1].alive
        BY <1>1, <2>5, <3>2
      <4>2. ~tasks[1].alive
        BY <1>1, <1>3, <2>5, <4>1 DEF Screens
      <4> QED BY <4>1, <4>2
    <3> QED BY <1>2, <3>1, <3>2
  <2> QED BY <2>1, <2>2, <2>3, <2>4, <2>5 DEF Screens
<1>7. SaveOK'
  BY <1>1, <1>3 DEF SaveOK
<1> QED BY <1>4, <1>6, <1>7

(* A result that signs nobody in tells nothing of the file.                *)
LEMMA PostAgrees ==
  ASSUME QueuesOK, Agrees, tasks # <<>>, tpc = "request",
         NEW k \in {"refused", "library", "no library"},
         NEW a \in Contents \cup {None}, Post(k, a), UNCHANGED <<uiVars, fileVars, parted>>
  PROVE  Agrees'
<1>1. /\ Len(posts) \in Nat /\ Len(posts') = Len(posts) + 1
      /\ \A i \in 1..Len(posts) : posts'[i] = posts[i] /\ i \in 1..Len(posts')
      /\ posts'[Len(posts) + 1].kind = k /\ tpc' = "request"
  BY PostElements
<1>2. \A i \in 1..Len(posts') : i \in 1..Len(posts) \/ i = Len(posts) + 1
  BY PostElements
<1>3. UNCHANGED <<screen, session, upc, dest>>
  BY DEF uiVars, fileVars
<1>4. SUFFICES ASSUME screen \in {"login", "tabs"}, ~parted, ~Doomed' PROVE Newest'
  BY <1>3 DEF Agrees
<1>5. ~Doomed
  BY <1>1, <1>4 DEF Doomed
<1>6. CASE /\ \A i \in 1..Len(posts) : posts[i].kind # "signed in"
           /\ Readable(dest) = IF upc = "idle" THEN session ELSE None
  <2>1. \A i \in 1..Len(posts') : posts'[i].kind # "signed in"
    BY <1>1, <1>2, <1>6
  <2> QED BY <1>3, <1>6, <2>1 DEF Newest
<1>7. ASSUME NEW i \in 1..Len(posts), posts[i].kind = "signed in",
             posts[i].account = Readable(dest),
             \A j \in 1..Len(posts) : i < j => posts[j].kind # "signed in"
      PROVE  Newest'
  <2>1. i \in 1..Len(posts') /\ posts'[i] = posts[i]
    BY <1>1, Zenon
  <2>2. \A j \in 1..Len(posts') : i < j => posts'[j].kind # "signed in"
    BY <1>1, <1>2, <1>7
  <2> QED BY <1>3, <1>7, <2>1, <2>2 DEF Newest
<1> QED BY <1>4, <1>5, <1>6, <1>7 DEF Agrees, Newest

LEMMA TaskKeeps ==
  ASSUME IInv, TaskStep
  PROVE  Session'
<1>1. QueuesOK /\ DeadItems /\ Screens /\ SaveOK /\ Agrees /\ parted \in BOOLEAN
  BY DEF IInv, Session
<1>2. CASE ValidationFails
  <2>1. /\ tasks # <<>> /\ tpc = "request" /\ Head(tasks).kind = "validate"
        /\ Post("complete", Head(tasks).account) /\ UNCHANGED <<uiVars, parted, fileVars>>
    BY <1>2 DEF ValidationFails, Running
  <2>2. spc = "idle"
    BY <1>1, <2>1 DEF SaveOK
  <2>3. Readable(dest) = Head(tasks).account
    <3>1. screen = "gate"
      BY <1>1, <2>1, GateOnly
    <3>2. PICK a \in Contents : tasks = <<Item("validate", a)>> /\ Readable(dest) = a
      BY <1>1, <2>1, <3>1 DEF Screens, GateWaits
    <3>3. Head(tasks) = Item("validate", a)
      BY <3>2
    <3>4. Head(tasks).account = a
      BY <3>3, ItemFields
    <3> QED BY <3>2, <3>4
  <2> QED BY <1>1, <2>1, <2>2, <2>3, GatePosts
<1>3. CASE LoginFails
  <2>1. /\ tasks # <<>> /\ tpc = "request" /\ Head(tasks).kind = "login"
        /\ Post("refused", Head(tasks).account) /\ UNCHANGED <<uiVars, parted, fileVars>>
    BY <1>3 DEF LoginFails, Running
  <2>2. spc = "idle" /\ Head(tasks).account \in Contents \cup {None}
    BY <1>1, <2>1, HeadOfTasks DEF SaveOK, QueuesOK
  <2> QED BY <1>1, <2>1, <2>2, PostKeeps, PostAgrees DEF Session
<1>4. CASE FetchLibrary
  <2>1. /\ tasks # <<>> /\ tpc = "request" /\ Head(tasks).kind = "reload"
        /\ UNCHANGED <<uiVars, parted, fileVars>>
    BY <1>4 DEF FetchLibrary, Running
  <2>2. spc = "idle" /\ Head(tasks).account \in Contents \cup {None}
    BY <1>1, <2>1, HeadOfTasks DEF SaveOK, QueuesOK
  <2>3. PICK k \in {"library", "no library"}, a \in Contents \cup {None} : Post(k, a)
    BY <1>4, <2>2 DEF FetchLibrary
  <2> QED BY <1>1, <2>1, <2>2, <2>3, PostKeeps, PostAgrees DEF Session
<1>5. CASE Saved /\ Head(tasks).kind = "validate"
  <2>1. /\ tasks # <<>> /\ tpc = "save" /\ spc = "idle"
        /\ Post("complete", Head(tasks).account) /\ UNCHANGED <<uiVars, fileVars>>
        /\ parted' = (parted \/ excused)
    BY <1>1, <1>5 DEF Saved, SaveOK
  <2>2. ~parted' => Readable(dest) = Head(tasks).account
    BY <1>1, <2>1 DEF SaveOK
  <2>3. parted' \in BOOLEAN
    BY <2>1
  <2> QED BY <1>5, <2>1, <2>2, <2>3, GatePosts
<1>6. CASE Saved /\ Head(tasks).kind # "validate"
  <2>1. /\ tasks # <<>> /\ tpc = "save" /\ spc = "idle" /\ Head(tasks).kind = "login"
        /\ UNCHANGED <<uiVars, fileVars>> /\ parted' = (parted \/ excused)
    BY <1>1, <1>6 DEF Saved, SaveOK
  <2>2. Post("signed in", Head(tasks).account) /\ Head(tasks).account \in Contents \cup {None}
    BY <1>1, <1>6, <2>1, HeadOfTasks DEF Saved, QueuesOK
  <2>3. DeadItems' /\ Screens' /\ SaveOK'
    BY <1>1, <2>1, <2>2, PostKeeps
  <2>4. Agrees'
    <3>1. SUFFICES ASSUME ~parted' PROVE Newest'
      BY DEF Agrees
    <3>2. Readable(dest) = Head(tasks).account
      BY <1>1, <2>1, <3>1 DEF SaveOK
    <3>3. /\ Len(posts') = Len(posts) + 1
          /\ posts'[Len(posts) + 1].kind = "signed in"
          /\ posts'[Len(posts) + 1].account = Head(tasks).account
          /\ Len(posts') \in 1..Len(posts')
          /\ \A j \in 1..Len(posts') : ~(Len(posts') < j)
      BY <1>1, <2>1, <2>2, PostElements
    <3>4. dest' = dest
      BY <2>1 DEF fileVars
    <3>5. /\ posts'[Len(posts')].kind = "signed in"
          /\ posts'[Len(posts')].account = Readable(dest)'
      BY <3>2, <3>3, <3>4
    <3> QED BY <3>3, <3>5, Zenon DEF Newest
  <2>5. parted' \in BOOLEAN
    BY <2>1
  <2> QED BY <2>3, <2>4, <2>5 DEF Session
<1> QED
  BY <1>2, <1>3, <1>4, <1>5, <1>6, SaveKeeps, SavingKeeps DEF TaskStep

LEMMA OneLess ==
  ASSUME NEW S, NEW q \in Seq(S), q # <<>>
  PROVE  \A j \in 1..Len(q) :
           \/ j = 1
           \/ j - 1 \in 1..Len(Tail(q)) /\ Tail(q)[j - 1] = q[j] /\ j - 1 < j
<1>1. /\ Len(q) \in Nat \ {0} /\ Len(Tail(q)) = Len(q) - 1
      /\ \A i \in 1..Len(Tail(q)) : Tail(q)[i] = q[i + 1]
  BY TailElements
<1> TAKE j \in 1..Len(q)
<1>2. j = 1 \/ j - 1 \in 1..Len(Tail(q))
  BY <1>1
<1>3. j \in Nat /\ (j - 1) + 1 = j /\ j - 1 < j
  BY <1>1
<1> QED BY <1>1, <1>2, <1>3

(* The UI thread takes a result that signs nobody in.                      *)
LEMMA PopKeeps ==
  ASSUME IInv, posts # <<>>, Head(posts).kind # "complete", posts' = Tail(posts),
         UNCHANGED <<screen, form, session, upc, tasks, tpc, fileVars>>,
         parted' = (parted \/ Head(posts).kind = "signed in")
  PROVE  Session'
<1>1. QueuesOK /\ DeadItems /\ Screens /\ SaveOK /\ Agrees /\ parted \in BOOLEAN
  BY DEF IInv, Session
<1> DEFINE t == Tail(posts)
<1>2. /\ Len(posts) \in Nat \ {0} /\ Head(posts) = posts[1] /\ 1 \in 1..Len(posts)
      /\ \A i \in 1..Len(t) : t[i] = posts[i + 1] /\ i + 1 \in 1..Len(posts)
      /\ \A j \in 1..Len(posts) :
           \/ j = 1
           \/ j - 1 \in 1..Len(t) /\ t[j - 1] = posts[j] /\ j - 1 < j
      /\ Len(t) = Len(posts) - 1
  BY <1>1, TailElements, OneLess DEF QueuesOK
<1>3. posts' = t /\ UNCHANGED <<screen, form, session, upc, tasks, tpc, dest, spc, new, excused>>
  BY DEF fileVars
<1> HIDE DEF t
<1>4. DeadItems'
  <2>1. ASSUME NEW i \in 1..Len(t), ~t[i].alive
        PROVE  t[i].kind \in {"signed in", "refused"}
    <3>1. t[i] = posts[i + 1] /\ i + 1 \in 1..Len(posts)
      BY <1>2
    <3> QED BY <1>1, <2>1, <3>1 DEF DeadItems
  <2> QED BY <1>1, <1>3, <2>1 DEF DeadItems
<1>5. screen # "gate" /\ screen # "off"
  <2>1. CASE screen = "gate"
    <3>1. PICK b \in Contents : posts = <<Item("complete", b)>>
      BY <1>1, <2>1 DEF Screens, GateWaits
    <3>2. Head(posts) = Item("complete", b)
      BY ONLY <3>1, HeadOfOne
    <3>3. Item("complete", b).kind = "complete"
      BY ONLY ItemFields
    <3> QED BY <3>2, <3>3
  <2> QED BY <1>1, <2>1 DEF Screens
<1>6. Screens'
  <2>1. ASSUME NEW i \in 1..Len(t)
        PROVE  /\ t[i].kind # "complete"
               /\ screen = "tabs" /\ form = "none" =>
                    (t[i].kind = "signed in" => ~t[i].alive)
    <3>1. t[i] = posts[i + 1] /\ i + 1 \in 1..Len(posts)
      BY <1>2
    <3> QED BY <1>1, <1>5, <3>1 DEF Screens
  <2> QED BY <1>1, <1>3, <1>5, <2>1 DEF Screens
<1>7. SaveOK'
  BY <1>1, <1>3 DEF SaveOK
<1>8. Agrees'
  <2>1. SUFFICES ASSUME tpc = "request", ~parted', ~Doomed', screen \in {"login", "tabs"}
                 PROVE  Newest'
    BY <1>3 DEF Agrees
  <2>2. ~parted /\ posts[1].kind # "signed in"
    BY <1>2, <2>1
  <2>3. ASSUME NEW i \in 1..Len(posts), posts[i].kind = "signed in", ~posts[i].alive
        PROVE  FALSE
    <3>1. i - 1 \in 1..Len(t) /\ t[i - 1] = posts[i]
      BY <1>2, <2>2, <2>3
    <3> QED BY <1>3, <2>1, <2>3, <3>1 DEF Doomed
  <2>4. Newest
    BY <1>1, <2>1, <2>2, <2>3 DEF Agrees, Doomed
  <2>5. CASE /\ \A i \in 1..Len(posts) : posts[i].kind # "signed in"
             /\ Readable(dest) = IF upc = "idle" THEN session ELSE None
    <3>1. \A i \in 1..Len(t) : t[i].kind # "signed in"
      BY <1>2, <2>5
    <3> QED BY <1>3, <2>5, <3>1 DEF Newest
  <2>6. ASSUME NEW i \in 1..Len(posts), posts[i].kind = "signed in",
               posts[i].account = Readable(dest),
               \A j \in 1..Len(posts) : i < j => posts[j].kind # "signed in"
        PROVE  Newest'
    <3>1. i - 1 \in 1..Len(t) /\ t[i - 1] = posts[i]
      BY <1>2, <2>2, <2>6
    <3>2. ASSUME NEW j \in 1..Len(t), i - 1 < j PROVE t[j].kind # "signed in"
      <4>1. t[j] = posts[j + 1] /\ j + 1 \in 1..Len(posts)
        BY <1>2
      <4>2. i < j + 1
        <5>1. i \in 1..Len(posts) /\ j \in 1..Len(t)
          OBVIOUS
        <5> QED BY ONLY <1>2, <3>2, <5>1
      <4> QED BY <2>6, <4>1, <4>2
    <3> QED BY <1>3, <2>6, <3>1, <3>2 DEF Newest
  <2> QED BY <2>4, <2>5, <2>6 DEF Newest
<1>9. parted' \in BOOLEAN
  BY <1>1
<1> QED BY <1>4, <1>6, <1>7, <1>8, <1>9 DEF Session

(* Every other step of the UI thread leaves the save alone, and lets the   *)
(* requests be, or orphans them, and asks for a library at most.           *)
LEMMA SaveUntouched ==
  ASSUME SaveOK, UNCHANGED <<tpc, spc, new>>, (excused' = excused /\ dest' = dest) \/ excused' = TRUE,
         tpc = "save" => /\ tasks' # <<>> /\ Head(tasks').kind = Head(tasks).kind
                         /\ Head(tasks').account = Head(tasks).account
  PROVE  SaveOK'
BY DEF SaveOK

LEMMA TasksReload ==
  ASSUME QueuesOK, QueuesOK', DeadItems, screen # "gate", Screens,
         NEW q, q = tasks \/ q = Orphaned(tasks), Reloads(q, tasks')
  PROVE  /\ \A i \in 1..Len(tasks') :
              /\ ~tasks'[i].alive => tasks'[i].kind = "login"
              /\ tasks'[i].kind # "validate"
              /\ q = Orphaned(tasks) \/ (screen = "tabs" /\ form = "none") =>
                   (tasks'[i].kind = "login" => ~tasks'[i].alive)
         /\ tasks # <<>> => /\ tasks' # <<>> /\ Head(tasks').kind = Head(tasks).kind
                            /\ Head(tasks').account = Head(tasks).account
<1>1. /\ Len(q) = Len(tasks) /\ Len(tasks) \in Nat
      /\ \A i \in 1..Len(tasks) :
           /\ q[i].kind = tasks[i].kind /\ q[i].account = tasks[i].account
           /\ ~q[i].alive => q[i].kind \in Awaited \/ ~tasks[i].alive
           /\ q = Orphaned(tasks) => (q[i].kind \in Awaited => q[i].alive = FALSE)
           /\ q = tasks => q[i].alive = tasks[i].alive
  <2>1. tasks \in Seq(Requests) /\ Len(tasks) \in Nat
    BY QueueFacts
  <2>2. CASE q = Orphaned(tasks)
    BY <2>1, <2>2, OrphanedElements
  <2>3. CASE q = tasks /\ q # Orphaned(tasks)
    BY <2>1, <2>3
  <2> QED BY <2>2, <2>3
<1>2. \A i \in 1..Len(tasks') : i \in 1..Len(q) \/ (tasks'[i].kind = "reload" /\ tasks'[i].alive = TRUE)
  <2> TAKE i \in 1..Len(tasks')
  <2>1. Len(q) \in Nat /\ Len(tasks') \in Nat /\ i \in Nat /\ 1 <= i
    BY DEF Reloads
  <2>2. i \in 1..Len(q) \/ Len(q) < i
    BY ONLY <2>1
  <2> QED BY <2>2 DEF Reloads
<1>3. \A i \in 1..Len(q) : tasks'[i] = q[i]
  BY DEF Reloads
<1>4. ASSUME NEW i \in 1..Len(tasks')
      PROVE  /\ ~tasks'[i].alive => tasks'[i].kind = "login"
             /\ tasks'[i].kind # "validate"
             /\ q = Orphaned(tasks) \/ (screen = "tabs" /\ form = "none") =>
                  (tasks'[i].kind = "login" => ~tasks'[i].alive)
  <2>1. CASE tasks'[i].kind = "reload" /\ tasks'[i].alive = TRUE
    BY <2>1
  <2>2. CASE i \in 1..Len(tasks) /\ tasks'[i] = q[i]
    <3>1. tasks[i].kind \in {"validate", "login", "reload"}
      BY <2>2, QueueFacts
    <3>2. /\ ~tasks[i].alive => tasks[i].kind = "login"
          /\ tasks[i].kind # "validate"
          /\ screen = "tabs" /\ form = "none" => (tasks[i].kind = "login" => ~tasks[i].alive)
      BY <2>2 DEF DeadItems, Screens
    <3>3. /\ q[i].kind = tasks[i].kind
          /\ ~q[i].alive => q[i].kind \in Awaited \/ ~tasks[i].alive
          /\ q = Orphaned(tasks) => (q[i].kind \in Awaited => q[i].alive = FALSE)
          /\ q = tasks => q[i].alive = tasks[i].alive
      BY <1>1, <2>2
    <3> QED BY <2>2, <3>1, <3>2, <3>3 DEF Awaited
  <2> QED BY <1>1, <1>2, <1>3, <2>1, <2>2
<1>5. ASSUME tasks # <<>>
      PROVE  /\ tasks' # <<>> /\ Head(tasks').kind = Head(tasks).kind
             /\ Head(tasks').account = Head(tasks).account
  <2>1. Len(tasks) # 0 /\ Head(tasks) = tasks[1]
    BY <1>5, QueueFacts
  <2>2. 1 \in 1..Len(tasks)
    BY <1>1, <2>1
  <2>3. tasks'[1].kind = tasks[1].kind /\ tasks'[1].account = tasks[1].account
    BY <1>1, <1>3, <2>2
  <2>4. Len(tasks') # 0
    BY <1>1, <2>1 DEF Reloads
  <2>5. tasks' \in Seq(Requests) /\ tasks' # <<>>
    BY <2>4 DEF QueuesOK
  <2>6. Head(tasks') = tasks'[1]
    BY <2>5, TailElements
  <2> QED BY <2>1, <2>3, <2>5, <2>6
<1> QED BY <1>4, <1>5

(* The results that are left when the view that waited is destroyed.       *)
LEMMA PostsOrphaned ==
  ASSUME QueuesOK, DeadItems, screen # "gate", Screens,
         NEW q \in Seq(Results), \A i \in 1..Len(q) : \E j \in 1..Len(posts) : q[i] = posts[j],
         posts' = Orphaned(q)
  PROVE  /\ Len(posts') = Len(q) /\ Len(q) \in Nat
         /\ \A i \in 1..Len(q) :
              /\ ~posts'[i].alive => posts'[i].kind \in {"signed in", "refused"}
              /\ posts'[i].kind # "complete"
              /\ posts'[i].kind = "signed in" => ~posts'[i].alive
              /\ posts'[i].kind = q[i].kind
<1>1. /\ Len(q) \in Nat /\ Len(posts') = Len(q)
      /\ \A i \in 1..Len(q) :
           /\ posts'[i].kind = q[i].kind
           /\ posts'[i].alive = IF q[i].kind \in Awaited THEN FALSE ELSE q[i].alive
  BY OrphanedElements
<1>2. ASSUME NEW i \in 1..Len(q)
      PROVE  /\ ~posts'[i].alive => posts'[i].kind \in {"signed in", "refused"}
             /\ posts'[i].kind # "complete"
             /\ posts'[i].kind = "signed in" => ~posts'[i].alive
  <2>1. PICK j \in 1..Len(posts) : q[i] = posts[j]
    OBVIOUS
  <2>2. /\ q[i].kind \in {"complete", "signed in", "refused", "library", "no library"}
        /\ ~q[i].alive => q[i].kind \in {"signed in", "refused"}
        /\ q[i].kind # "complete"
    BY <2>1, QueueFacts DEF DeadItems, Screens
  <2>3. /\ posts'[i].kind = q[i].kind
        /\ posts'[i].alive = IF q[i].kind \in Awaited THEN FALSE ELSE q[i].alive
    BY <1>1
  <2> QED BY <2>2, <2>3 DEF Awaited
<1> QED BY <1>1, <1>2

(* With nothing left that signs in, the file holds the session.            *)
LEMMA NobodyLeft ==
  ASSUME \A i \in 1..Len(posts') : posts'[i].kind # "signed in",
         Readable(dest') = IF upc' = "idle" THEN session' ELSE None
  PROVE  Newest'
BY DEF Newest

(* The gate opens: its one result is the session.                          *)
LEMMA CompleteKeeps ==
  ASSUME IInv, QueuesOK', Complete
  PROVE  Session'
<1>1. QueuesOK /\ DeadItems /\ Screens /\ SaveOK /\ Agrees /\ parted \in BOOLEAN
  BY DEF IInv, Session
<1>2. /\ upc = "idle" /\ posts # <<>> /\ Head(posts).kind = "complete"
      /\ session' = Head(posts).account /\ screen' = "tabs"
      /\ LibraryAppears(session', Orphaned(tasks)) /\ posts' = Orphaned(Tail(posts))
      /\ UNCHANGED <<form, upc, tpc, parted, fileVars>>
  BY DEF Complete, Posted, ShowMainTabs
<1>3. screen = "gate"
  <2>1. Len(posts) \in Nat /\ Len(posts) # 0 /\ posts[1].kind = "complete"
    BY <1>1, <1>2, QueueFacts
  <2>2. 1 \in 1..Len(posts)
    BY <2>1
  <2> QED BY <1>1, <2>1, <2>2 DEF Screens
<1>4. PICK a \in Contents : /\ tasks = <<>> /\ posts = <<Item("complete", a)>> /\ tpc = "request"
                            /\ ~parted => Readable(dest) = a
  BY <1>1, <1>2, <1>3 DEF Screens, GateWaits
<1>5. Head(posts).account = a
  <2>1. Head(posts) = Item("complete", a)
    BY ONLY <1>4, HeadOfOne
  <2> QED BY <2>1, ItemFields
<1>6. UNCHANGED <<dest, spc, new, excused>>
  BY <1>2 DEF fileVars
<1>7. Len(posts') = 0
  <2>1. Len(posts) = 1
    BY <1>4
  <2>2. Len(Tail(posts)) = 0 /\ Tail(posts) \in Seq(Results)
    BY <1>1, <1>2, <2>1, TailElements DEF QueuesOK
  <2> QED BY <1>2, <2>2, OrphanedElements
<1>8. \A i \in 1..Len(tasks') : tasks'[i].kind = "reload" /\ tasks'[i].alive = TRUE
  <2>1. <<>> \in Seq(Requests) /\ Orphaned(<<>>) \in Seq(Requests) /\ Len(Orphaned(<<>>)) = 0
    <3>1. <<>> \in Seq(Requests) /\ Len(<<>>) = 0
      OBVIOUS
    <3> QED BY <3>1, OrphanedElements, OrphanedQueues
  <2>2. session' \in Contents \cup {None}
    BY <1>2, <1>5
  <2>3. Reloads(Orphaned(<<>>), tasks')
    BY <1>2, <1>4, <2>1, <2>2, AppearsElements
  <2> QED BY <2>1, <2>3 DEF Reloads
<1>9. \A i \in 1..Len(posts') : FALSE
  BY <1>7
<1>10. DeadItems'
  BY <1>8, <1>9 DEF DeadItems
<1>11. Screens'
  <2>1. form = "none"
    BY <1>1, <1>3 DEF Screens
  <2>2. /\ screen' = "tabs" /\ form' = "none" /\ upc' = "idle"
        /\ \A i \in 1..Len(tasks') : tasks'[i].kind = "reload"
    BY <1>2, <1>8, <2>1
  <2> QED BY <1>9, <2>2 DEF Screens
<1>12. SaveOK'
  BY <1>1, <1>2, <1>4, <1>6 DEF SaveOK
<1>13. Agrees'
  <2>1. ~parted => Readable(dest') = session'
    BY <1>2, <1>4, <1>5, <1>6
  <2> QED BY <1>2, <1>9, <2>1 DEF Agrees, Newest
<1> QED BY <1>1, <1>2, <1>10, <1>11, <1>12, <1>13 DEF Session

(* A sign-in takes effect.                                                 *)
LEMMA HeadSignsIn ==
  ASSUME IInv, SignedIn, tpc = "request", ~parted
  PROVE  /\ (\A i \in 1..Len(Tail(posts)) : Tail(posts)[i].kind = "signed in" => Tail(posts)[i].alive)
           => \/ /\ \A i \in 1..Len(Tail(posts)) : Tail(posts)[i].kind # "signed in"
                 /\ Readable(dest) = Head(posts).account
              \/ \E i \in 1..Len(Tail(posts)) :
                   /\ Tail(posts)[i].kind = "signed in" /\ Tail(posts)[i].account = Readable(dest)
                   /\ \A j \in 1..Len(Tail(posts)) : i < j => Tail(posts)[j].kind # "signed in"
<1>1. QueuesOK /\ Screens /\ Agrees
  BY DEF IInv, Session
<1>2. posts # <<>> /\ Head(posts).kind = "signed in" /\ Head(posts).alive
  BY DEF SignedIn, Posted
<1> DEFINE t == Tail(posts)
<1>3. /\ Len(posts) \in Nat \ {0} /\ Head(posts) = posts[1] /\ 1 \in 1..Len(posts)
      /\ Len(t) = Len(posts) - 1
      /\ \A i \in 1..Len(t) : t[i] = posts[i + 1] /\ i + 1 \in 1..Len(posts)
      /\ \A j \in 1..Len(posts) :
           \/ j = 1
           \/ j - 1 \in 1..Len(t) /\ t[j - 1] = posts[j] /\ j - 1 < j
  BY <1>1, <1>2, TailElements, OneLess DEF QueuesOK
<1> HIDE DEF t
<1>4. screen \in {"login", "tabs"}
  <2>1. CASE screen = "gate"
    <3>1. PICK b \in Contents : posts = <<Item("complete", b)>>
      BY <1>1, <1>2, <2>1 DEF Screens, GateWaits
    <3>2. Head(posts) = Item("complete", b)
      BY ONLY <3>1, HeadOfOne
    <3>3. Item("complete", b).kind = "complete"
      BY ONLY ItemFields
    <3> QED BY <1>2, <3>2, <3>3
  <2> QED BY <1>1, <1>2, <2>1 DEF Screens
<1>5. SUFFICES ASSUME \A i \in 1..Len(t) : t[i].kind = "signed in" => t[i].alive
               PROVE  \/ /\ \A i \in 1..Len(t) : t[i].kind # "signed in"
                         /\ Readable(dest) = Head(posts).account
                      \/ \E i \in 1..Len(t) :
                           /\ t[i].kind = "signed in" /\ t[i].account = Readable(dest)
                           /\ \A j \in 1..Len(t) : i < j => t[j].kind # "signed in"
  BY DEF t
<1>6. ~Doomed
  BY <1>2, <1>3, <1>5 DEF Doomed
<1>7. PICK i \in 1..Len(posts) :
        /\ posts[i].kind = "signed in" /\ posts[i].account = Readable(dest)
        /\ \A j \in 1..Len(posts) : i < j => posts[j].kind # "signed in"
  BY <1>1, <1>2, <1>3, <1>4, <1>6 DEF Agrees, Newest
<1>8. CASE i = 1
  <2>1. ASSUME NEW j \in 1..Len(t) PROVE t[j].kind # "signed in"
    <3>1. t[j] = posts[j + 1] /\ j + 1 \in 1..Len(posts) /\ 1 < j + 1
      BY <1>3
    <3> QED BY <1>7, <1>8, <3>1
  <2> QED BY <1>3, <1>7, <1>8, <2>1
<1>9. CASE i # 1
  <2>1. i - 1 \in 1..Len(t) /\ t[i - 1] = posts[i]
    BY <1>3, <1>9
  <2>2. ASSUME NEW j \in 1..Len(t), i - 1 < j PROVE t[j].kind # "signed in"
    <3>1. t[j] = posts[j + 1] /\ j + 1 \in 1..Len(posts)
      BY <1>3
    <3>2. i < j + 1
      BY <1>3, <2>2
    <3> QED BY <1>7, <3>1, <3>2
  <2> QED BY <1>7, <2>1, <2>2
<1> QED BY <1>8, <1>9

LEMMA SignedInKeeps ==
  ASSUME IInv, QueuesOK', SignedIn
  PROVE  Session'
<1>1. QueuesOK /\ DeadItems /\ Screens /\ SaveOK /\ Agrees /\ parted \in BOOLEAN
  BY DEF IInv, Session
<1> DEFINE t == Tail(posts)
<1>2. /\ upc = "idle" /\ posts # <<>> /\ Head(posts).kind = "signed in" /\ Head(posts).alive
      /\ UNCHANGED <<upc, tpc, parted, dest, spc, new, excused>>
      /\ session' = Head(posts).account
  BY DEF SignedIn, Posted, fileVars, ShowMainTabs
<1>3. /\ t \in Seq(Results) /\ Len(t) \in Nat /\ Head(posts) = posts[1] /\ 1 \in 1..Len(posts)
      /\ \A i \in 1..Len(t) : \E j \in 1..Len(posts) : t[i] = posts[j]
      /\ session' \in Contents \cup {None}
  <2>1. /\ t \in Seq(Results) /\ Len(t) = Len(posts) - 1 /\ Len(posts) \in Nat \ {0}
        /\ Head(posts) = posts[1] /\ 1 \in 1..Len(posts)
        /\ \A i \in 1..Len(t) : t[i] = posts[i + 1] /\ i + 1 \in 1..Len(posts)
    BY <1>1, <1>2, TailElements DEF QueuesOK
  <2>2. session' \in Contents \cup {None}
    BY <1>1, <1>2, HeadOfPosts DEF QueuesOK
  <2> HIDE DEF t
  <2> QED BY <2>1, <2>2
<1>4. screen \in {"login", "tabs"} /\ (screen = "tabs" => form # "none")
  <2>1. CASE screen = "gate"
    <3>1. PICK b \in Contents : posts = <<Item("complete", b)>>
      BY <1>1, <1>2, <2>1 DEF Screens, GateWaits
    <3>2. Head(posts) = Item("complete", b)
      BY ONLY <3>1, HeadOfOne
    <3>3. Item("complete", b).kind = "complete"
      BY ONLY ItemFields
    <3> QED BY <1>2, <3>2, <3>3
  <2>2. CASE screen # "gate"
    <3>1. screen # "off"
      BY <1>1, <1>2 DEF Screens
    <3>2. screen = "tabs" => form # "none"
      BY <1>1, <1>2, <1>3 DEF Screens
    <3> QED BY <1>1, <2>2, <3>1, <3>2 DEF Screens
  <2> QED BY <2>1, <2>2
<1>5. tpc = "request" /\ ~parted =>
        ((\A i \in 1..Len(t) : t[i].kind = "signed in" => t[i].alive)
           => \/ /\ \A i \in 1..Len(t) : t[i].kind # "signed in"
                 /\ Readable(dest) = session'
              \/ \E i \in 1..Len(t) :
                   /\ t[i].kind = "signed in" /\ t[i].account = Readable(dest)
                   /\ \A j \in 1..Len(t) : i < j => t[j].kind # "signed in")
  BY <1>2, HeadSignsIn
<1> HIDE DEF t
<1>6. CASE screen' = "tabs" /\ form' = "none" /\ posts' = Orphaned(t) /\ Reloads(Orphaned(tasks), tasks')
  <2>1. /\ Len(posts') = Len(t)
        /\ \A i \in 1..Len(t) :
             /\ ~posts'[i].alive => posts'[i].kind \in {"signed in", "refused"}
             /\ posts'[i].kind # "complete"
             /\ posts'[i].kind = "signed in" => ~posts'[i].alive
             /\ posts'[i].kind = t[i].kind
    BY <1>1, <1>3, <1>4, <1>6, PostsOrphaned
  <2>2. /\ \A i \in 1..Len(tasks') :
             /\ ~tasks'[i].alive => tasks'[i].kind = "login"
             /\ tasks'[i].kind # "validate"
             /\ tasks'[i].kind = "login" => ~tasks'[i].alive
        /\ tasks # <<>> => /\ tasks' # <<>> /\ Head(tasks').kind = Head(tasks).kind
                           /\ Head(tasks').account = Head(tasks).account
    BY <1>1, <1>4, <1>6, TasksReload
  <2>3. DeadItems'
    BY <2>1, <2>2 DEF DeadItems
  <2>4. Screens'
    BY <1>2, <1>6, <2>1, <2>2 DEF Screens
  <2>5. SaveOK'
    BY <1>1, <1>2, <2>2, SaveUntouched DEF SaveOK
  <2>6. Agrees'
    <3>1. SUFFICES ASSUME tpc = "request", ~parted, ~Doomed' PROVE Newest'
      BY <1>2 DEF Agrees
    <3>2. \A i \in 1..Len(t) : t[i].kind # "signed in"
      BY <2>1, <3>1 DEF Doomed
    <3>3. Readable(dest') = session' /\ upc' = "idle"
      BY <1>2, <1>5, <3>1, <3>2
    <3>4. \A i \in 1..Len(posts') : posts'[i].kind # "signed in"
      BY <2>1, <3>2
    <3> QED BY <3>3, <3>4, NobodyLeft
  <2> QED BY <1>1, <1>2, <2>3, <2>4, <2>5, <2>6 DEF Session
<1>7. CASE screen' = "tabs" /\ form' = "fading" /\ posts' = t /\ Reloads(tasks, tasks')
  <2>1. \A i \in 1..Len(posts') : \E j \in 1..Len(posts) : posts'[i] = posts[j]
    BY <1>3, <1>7
  <2>2. /\ \A i \in 1..Len(tasks') :
             /\ ~tasks'[i].alive => tasks'[i].kind = "login"
             /\ tasks'[i].kind # "validate"
        /\ tasks # <<>> => /\ tasks' # <<>> /\ Head(tasks').kind = Head(tasks).kind
                           /\ Head(tasks').account = Head(tasks).account
    BY <1>1, <1>4, <1>7, TasksReload
  <2>3. DeadItems'
    <3>1. ASSUME NEW i \in 1..Len(posts'), ~posts'[i].alive
          PROVE  posts'[i].kind \in {"signed in", "refused"}
      BY <1>1, <2>1, <3>1 DEF DeadItems
    <3> QED BY <2>2, <3>1 DEF DeadItems
  <2>4. Screens'
    <3>1. \A i \in 1..Len(posts') : posts'[i].kind # "complete"
      BY <1>1, <1>4, <2>1 DEF Screens
    <3> QED BY <1>2, <1>7, <2>2, <3>1 DEF Screens
  <2>5. SaveOK'
    BY <1>1, <1>2, <2>2, SaveUntouched DEF SaveOK
  <2>6. Agrees'
    <3>1. SUFFICES ASSUME tpc = "request", ~parted, ~Doomed' PROVE Newest'
      BY <1>2 DEF Agrees
    <3>2. \A i \in 1..Len(t) : t[i].kind = "signed in" => t[i].alive
      BY <1>7, <3>1 DEF Doomed
    <3> QED BY <1>2, <1>5, <1>7, <3>1, <3>2 DEF Newest
  <2> QED BY <1>1, <1>2, <2>3, <2>4, <2>5, <2>6 DEF Session
<1>8. tasks \in Seq(Requests) /\ Orphaned(tasks) \in Seq(Requests)
  BY <1>1, OrphanedQueues DEF QueuesOK
<1>9. CASE screen = "login"
  <2>1. /\ screen' = "tabs" /\ form' = form /\ posts' = Orphaned(t)
        /\ LibraryAppears(session', Orphaned(tasks))
    BY <1>2, <1>9 DEF SignedIn, ShowMainTabs, t
  <2>2. form = "none"
    BY <1>1, <1>9 DEF Screens
  <2>3. Reloads(Orphaned(tasks), tasks')
    BY <1>3, <1>8, <2>1, AppearsElements
  <2> QED BY <1>6, <2>1, <2>2, <2>3
<1>10. CASE screen = "tabs"
  <2>1. PopForm /\ screen' = "tabs"
    BY <1>10 DEF SignedIn
  <2>2. CASE form = "open"
    <3>1. form' = "fading" /\ posts' = t /\ ReloadLibrary(session', tasks)
      BY <1>2, <2>1, <2>2 DEF PopForm, t
    <3>2. Reloads(tasks, tasks')
      BY <1>3, <1>8, <3>1, ReloadElements
    <3> QED BY <1>7, <2>1, <3>1, <3>2
  <2>3. CASE form # "open"
    <3>1. form' = "none" /\ posts' = Orphaned(t) /\ ReloadLibrary(session', Orphaned(tasks))
      BY <1>2, <2>1, <2>3 DEF PopForm, t
    <3>2. Reloads(Orphaned(tasks), tasks')
      BY <1>3, <1>8, <3>1, ReloadElements
    <3> QED BY <1>6, <2>1, <3>1, <3>2
  <2> QED BY <2>2, <2>3
<1> QED BY <1>4, <1>9, <1>10

LEMMA FadeKeeps ==
  ASSUME IInv, QueuesOK', FadeEnds
  PROVE  Session'
<1>1. QueuesOK /\ DeadItems /\ Screens /\ SaveOK /\ Agrees /\ parted \in BOOLEAN
  BY DEF IInv, Session
<1>2. /\ form = "fading" /\ upc = "idle" /\ form' = "none"
      /\ tasks' = Orphaned(tasks) /\ posts' = Orphaned(posts)
      /\ UNCHANGED <<screen, session, upc, tpc, parted, dest, spc, new, excused>>
  BY DEF FadeEnds, fileVars
<1>3. screen = "tabs"
  BY <1>1, <1>2 DEF Screens
<1>4. posts \in Seq(Results) /\ \A i \in 1..Len(posts) : \E j \in 1..Len(posts) : posts[i] = posts[j]
  BY <1>1 DEF QueuesOK
<1>5. /\ Len(posts') = Len(posts)
      /\ \A i \in 1..Len(posts) :
           /\ ~posts'[i].alive => posts'[i].kind \in {"signed in", "refused"}
           /\ posts'[i].kind # "complete"
           /\ posts'[i].kind = "signed in" => ~posts'[i].alive
           /\ posts'[i].kind = posts[i].kind
  BY <1>1, <1>2, <1>3, <1>4, PostsOrphaned
<1>6. Reloads(Orphaned(tasks), tasks')
  <2>1. Orphaned(tasks) \in Seq(Requests)
    BY <1>1, OrphanedQueues DEF QueuesOK
  <2>2. Len(Orphaned(tasks)) \in Nat
    BY <2>1, LenProperties
  <2> QED BY <1>2, <2>2 DEF Reloads
<1>7. /\ \A i \in 1..Len(tasks') :
           /\ ~tasks'[i].alive => tasks'[i].kind = "login"
           /\ tasks'[i].kind # "validate"
           /\ tasks'[i].kind = "login" => ~tasks'[i].alive
      /\ tasks # <<>> => /\ tasks' # <<>> /\ Head(tasks').kind = Head(tasks).kind
                         /\ Head(tasks').account = Head(tasks).account
  BY <1>1, <1>3, <1>6, TasksReload
<1>8. DeadItems'
  BY <1>5, <1>7 DEF DeadItems
<1>9. Screens'
  BY <1>1, <1>2, <1>3, <1>5, <1>7 DEF Screens
<1>10. SaveOK'
  BY <1>1, <1>2, <1>7, SaveUntouched DEF SaveOK
<1>11. Agrees'
  <2>1. SUFFICES ASSUME tpc = "request", ~parted, ~Doomed' PROVE Newest'
    BY <1>2 DEF Agrees
  <2>2. \A i \in 1..Len(posts) : posts[i].kind # "signed in"
    BY <1>5, <2>1 DEF Doomed
  <2>3. ~Doomed
    BY <2>1, <2>2 DEF Doomed
  <2>4. Readable(dest) = session
    BY <1>1, <1>2, <1>3, <2>1, <2>2, <2>3 DEF Agrees, Newest
  <2>5. \A i \in 1..Len(posts') : posts'[i].kind # "signed in"
    BY <1>5, <2>2
  <2> QED BY <1>2, <2>4, <2>5, NobodyLeft
<1> QED BY <1>1, <1>2, <1>8, <1>9, <1>10, <1>11 DEF Session

LEMMA AgreesUntouched ==
  ASSUME Agrees, UNCHANGED <<screen, session, upc, posts, tpc, parted, dest>>
  PROVE  Agrees'
<1>1. SUFFICES ASSUME screen \in {"login", "tabs"}, tpc = "request", ~parted, ~Doomed'
               PROVE  Newest'
  BY DEF Agrees
<1>2. ~Doomed
  BY <1>1 DEF Doomed
<1>3. Newest
  BY <1>1, <1>2 DEF Agrees
<1> QED BY <1>3 DEF Newest

(* The user asks for the library on the tabs.                              *)
LEMMA ReloadKeeps ==
  ASSUME IInv, QueuesOK', screen = "tabs", Reloads(tasks, tasks'),
         UNCHANGED <<screen, form, session, upc, posts, tpc, parted, fileVars>>
  PROVE  Session'
<1>1. QueuesOK /\ DeadItems /\ Screens /\ SaveOK /\ Agrees /\ parted \in BOOLEAN
  BY DEF IInv, Session
<1>2. UNCHANGED <<screen, form, session, upc, posts, tpc, parted, dest, spc, new, excused>>
  BY DEF fileVars
<1>3. /\ \A i \in 1..Len(tasks') :
           /\ ~tasks'[i].alive => tasks'[i].kind = "login"
           /\ tasks'[i].kind # "validate"
           /\ form = "none" => (tasks'[i].kind = "login" => ~tasks'[i].alive)
      /\ tasks # <<>> => /\ tasks' # <<>> /\ Head(tasks').kind = Head(tasks).kind
                         /\ Head(tasks').account = Head(tasks).account
  BY <1>1, TasksReload
<1>4. DeadItems'
  BY <1>1, <1>2, <1>3 DEF DeadItems
<1>5. Screens'
  BY <1>1, <1>2, <1>3 DEF Screens
<1>6. SaveOK'
  BY <1>1, <1>2, <1>3, SaveUntouched DEF SaveOK
<1>7. Agrees'
  BY <1>1, <1>2, AgreesUntouched
<1> QED BY <1>1, <1>2, <1>4, <1>5, <1>6, <1>7 DEF Session

LEMMA SubmitKeeps ==
  ASSUME IInv, QueuesOK', NEW a \in Contents, SubmitLogin(a)
  PROVE  Session'
<1>1. QueuesOK /\ DeadItems /\ Screens /\ SaveOK /\ Agrees /\ parted \in BOOLEAN
  BY DEF IInv, Session
<1>2. /\ UNCHANGED <<screen, form, session, upc, posts, tpc, parted, dest, spc, new, excused>>
      /\ screen = "login" \/ form # "none"
      /\ tasks' = Append(tasks, Item("login", a))
  BY DEF SubmitLogin, Input, uiVars, fileVars
<1>3. /\ Len(tasks) \in Nat /\ Len(tasks') = Len(tasks) + 1
      /\ \A i \in 1..Len(tasks) : tasks'[i] = tasks[i]
      /\ tasks'[Len(tasks) + 1] = Item("login", a)
  <2>1. Item("login", a) \in Requests /\ tasks \in Seq(Requests) /\ Len(tasks) \in Nat
    BY <1>1, ItemIn, QueueFacts
  <2> QED BY <1>2, <2>1, AppendElements
<1>4. \A i \in 1..Len(tasks') : i \in 1..Len(tasks) \/ tasks'[i] = Item("login", a)
  <2>1. \A i \in 1..Len(tasks') : i \in 1..Len(tasks) \/ i = Len(tasks) + 1
    BY <1>3, OneMore
  <2> QED BY <1>3, <2>1
<1>5. Item("login", a).kind = "login" /\ Item("login", a).alive = TRUE
  BY ONLY ItemFields, ItemAlive
<1>6. screen \in {"login", "tabs"} /\ (form = "none" => screen = "login")
  BY <1>1, <1>2 DEF Screens
<1>7. DeadItems'
  <2>1. ASSUME NEW i \in 1..Len(tasks'), ~tasks'[i].alive PROVE tasks'[i].kind = "login"
    <3>1. CASE i \in 1..Len(tasks)
      BY <1>1, <1>3, <2>1, <3>1 DEF DeadItems
    <3>2. CASE tasks'[i] = Item("login", a)
      BY <1>5, <3>2
    <3> QED BY <1>4, <3>1, <3>2
  <2> QED BY <1>1, <1>2, <2>1 DEF DeadItems
<1>8. Screens'
  <2>1. ASSUME NEW i \in 1..Len(tasks') PROVE tasks'[i].kind # "validate"
    <3>1. CASE i \in 1..Len(tasks)
      BY <1>1, <1>3, <1>6, <3>1 DEF Screens
    <3>2. CASE tasks'[i] = Item("login", a)
      BY <1>5, <3>2
    <3> QED BY <1>4, <3>1, <3>2
  <2> QED BY <1>1, <1>2, <1>6, <2>1 DEF Screens
<1>9. SaveOK'
  <2>1. ASSUME tpc = "save"
        PROVE  /\ tasks' # <<>> /\ Head(tasks').kind = Head(tasks).kind
               /\ Head(tasks').account = Head(tasks).account
    <3>1. Len(tasks) # 0 /\ Head(tasks) = tasks[1]
      BY <1>1, <2>1, QueueFacts DEF SaveOK
    <3>2. 1 \in 1..Len(tasks)
      BY <1>3, <3>1
    <3>3. tasks' \in Seq(Requests) /\ tasks' # <<>>
      BY <1>1, <1>2, ItemIn, AppendProperties DEF QueuesOK
    <3>4. Head(tasks') = tasks'[1]
      BY <3>3, TailElements
    <3> QED BY <1>3, <3>1, <3>2, <3>3, <3>4
  <2> QED BY <1>1, <1>2, <2>1, SaveUntouched
<1>10. Agrees'
  BY <1>1, <1>2, AgreesUntouched
<1> QED BY <1>1, <1>2, <1>7, <1>8, <1>9, <1>10 DEF Session

(* The form opens or is closed, or another tab is shown.                   *)
LEMMA FormKeeps ==
  ASSUME IInv, screen = "tabs", upc = "idle", form' = form \/ form' \in {"open", "fading"},
         UNCHANGED <<screen, session, upc, tasks, posts, tpc, parted, fileVars>>
  PROVE  Session'
<1>1. QueuesOK /\ DeadItems /\ Screens /\ SaveOK /\ Agrees /\ parted \in BOOLEAN
  BY DEF IInv, Session
<1>2. UNCHANGED <<screen, session, upc, tasks, posts, tpc, parted, dest, spc, new, excused>>
  BY DEF fileVars
<1>3. DeadItems' /\ SaveOK'
  BY <1>1, <1>2 DEF DeadItems, SaveOK
<1>4. Screens'
  BY <1>1, <1>2 DEF Screens
<1>5. Agrees'
  BY <1>1, <1>2, AgreesUntouched
<1> QED BY <1>1, <1>2, <1>3, <1>4, <1>5 DEF Session

(* Signing out: the sign-ins that are left have no form, so the file is    *)
(* nobody's as soon as it is gone.                                         *)
LEMMA LogoutKeeps ==
  ASSUME IInv, Logout
  PROVE  Session'
<1>1. QueuesOK /\ FileInvariant /\ DeadItems /\ Screens /\ SaveOK /\ Agrees
  BY DEF IInv, Session
<1>2. /\ upc = "idle" /\ screen = "tabs" /\ form = "none" /\ upc' = "logout" /\ excused' = TRUE
      /\ ClearFile /\ parted' = (faults' # faults)
      /\ UNCHANGED <<screen, form, session, tasks, posts, tpc, spc, new>>
  BY DEF Logout, Input, OnTabs, ClearFile, threadVars
<1>3. DeadItems'
  BY <1>1, <1>2 DEF DeadItems
<1>4. Screens'
  BY <1>1, <1>2 DEF Screens
<1>5. SaveOK'
  BY <1>1, <1>2 DEF SaveOK
<1>6. ~parted' => dest' = None
  <2>1. faults \in Nat
    <3>1. MaxFaults \in Nat /\ faults \in 0..MaxFaults
      BY <1>1, FileAssumption DEF FileAssumption, FileInvariant, FilesOK
    <3> QED BY ONLY <3>1
  <2>2. PICK ok \in BOOLEAN : /\ faults' = IF ok THEN faults ELSE faults + 1
                             /\ dest' = IF ok THEN None ELSE dest
    BY <1>2 DEF ClearFile
  <2>3. faults + 1 # faults
    BY ONLY <2>1
  <2> QED BY <1>2, <2>2, <2>3
<1>7. Agrees'
  <2>1. SUFFICES ASSUME ~parted', ~Doomed' PROVE Newest'
    BY DEF Agrees
  <2>2. \A i \in 1..Len(posts) : posts[i].kind # "signed in"
    BY <1>1, <1>2, <2>1 DEF Screens, Doomed
  <2>3. Readable(dest') = None
    BY <1>6, <2>1 DEF Readable
  <2> QED BY <1>2, <2>2, <2>3 DEF Newest
<1>8. parted' \in BOOLEAN
  BY <1>2
<1> QED BY <1>3, <1>4, <1>5, <1>7, <1>8 DEF Session

LEMMA LogoutEndsKeeps ==
  ASSUME IInv, LogoutEnds
  PROVE  Session'
<1>1. QueuesOK /\ DeadItems /\ Screens /\ SaveOK /\ Agrees /\ parted \in BOOLEAN
  BY DEF IInv, Session
<1>2. /\ upc = "logout" /\ upc' = "idle" /\ session' = None /\ excused' = TRUE
      /\ UNCHANGED <<screen, form, tasks, posts, tpc, parted, dest, spc, new>>
  BY DEF LogoutEnds, ClearBackup, threadVars
<1>3. DeadItems' /\ SaveOK'
  BY <1>1, <1>2 DEF DeadItems, SaveOK
<1>4. Screens'
  BY <1>1, <1>2 DEF Screens
<1>5. Agrees'
  BY <1>1, <1>2 DEF Agrees, Doomed, Newest
<1> QED BY <1>1, <1>2, <1>3, <1>4, <1>5 DEF Session

LEMMA StartKeeps ==
  ASSUME IInv, Start
  PROVE  Session'
<1>1. QueuesOK /\ DeadItems /\ Screens /\ SaveOK
  BY DEF IInv, Session
<1>2. /\ screen = "off" /\ parted' = FALSE /\ tasks = <<>> /\ posts = <<>> /\ tpc = "request"
      /\ form = "none" /\ upc = "idle" /\ session = None
      /\ UNCHANGED <<form, session, upc, tpc, dest, spc, new, excused>>
  BY <1>1 DEF Start, Screens, threadVars, fileVars
<1>3. SaveOK'
  BY <1>1, <1>2 DEF SaveOK
<1>4. CASE Readable(dest) = None
  <2>1. screen' = "login" /\ UNCHANGED <<tasks, posts>>
    BY <1>4 DEF Start, threadVars
  <2>2. Len(tasks') = 0 /\ Len(posts') = 0
    BY <1>2, <2>1
  <2>3. (\A i \in 1..Len(tasks') : FALSE) /\ (\A i \in 1..Len(posts') : FALSE)
    BY <2>2
  <2>4. DeadItems'
    BY <2>3 DEF DeadItems
  <2>5. Screens'
    BY <1>2, <2>1, <2>3 DEF Screens
  <2>6. Agrees'
    BY <1>2, <1>4, <2>3 DEF Agrees, Newest
  <2> QED BY <1>2, <1>3, <2>4, <2>5, <2>6 DEF Session
<1>5. CASE Readable(dest) # None
  <2> DEFINE a == Readable(dest)
  <2>1. a \in Contents
    BY <1>5 DEF Readable
  <2>2. /\ screen' = "gate"
        /\ \/ posts' = <<Item("complete", a)>> /\ tasks' = tasks
           \/ tasks' = <<Item("validate", a)>> /\ posts' = posts
    BY <1>5 DEF Start
  <2>3. Readable(dest') = a
    BY <1>2
  <2> HIDE DEF a
  <2>4. GateWaits'
    BY <1>2, <2>1, <2>2, <2>3 DEF GateWaits
  <2>5. DeadItems'
    <3>1. CASE posts' = <<Item("complete", a)>> /\ tasks' = <<>>
      <4>1. /\ \A i \in 1..Len(tasks') : FALSE
            /\ \A i \in 1..Len(posts') : posts'[i] = Item("complete", a)
        BY <3>1
      <4> QED BY <4>1, ItemAlive DEF DeadItems
    <3>2. CASE tasks' = <<Item("validate", a)>> /\ posts' = <<>>
      <4>1. /\ \A i \in 1..Len(posts') : FALSE
            /\ \A i \in 1..Len(tasks') : tasks'[i] = Item("validate", a)
        BY <3>2
      <4> QED BY <4>1, ItemAlive DEF DeadItems
    <3> QED BY <1>2, <2>2, <3>1, <3>2
  <2>6. Screens'
    BY <1>2, <2>2, <2>4 DEF Screens
  <2>7. Agrees'
    BY <2>2 DEF Agrees
  <2> QED BY <1>2, <1>3, <2>5, <2>6, <2>7 DEF Session
<1> QED BY <1>4, <1>5

LEMMA EndKeeps ==
  ASSUME IInv, End
  PROVE  Session'
<1>1. /\ screen' = "off" /\ form' = "none" /\ upc' = "idle" /\ session' = None
      /\ tasks' = <<>> /\ posts' = <<>> /\ tpc' = "request" /\ spc' = "idle"
      /\ parted' = parted /\ parted \in BOOLEAN
  BY DEF End, Crash, IInv, Session
<1>2. Len(tasks') = 0 /\ Len(posts') = 0
  BY <1>1
<1>3. (\A i \in 1..Len(tasks') : FALSE) /\ (\A i \in 1..Len(posts') : FALSE)
  BY <1>2
<1> QED BY <1>1, <1>3 DEF Session, DeadItems, Screens, SaveOK, Agrees

LEMMA InitSession == Init => IInv
<1> SUFFICES ASSUME Init PROVE IInv
  OBVIOUS
<1>1. QueuesOK
  BY InitQueues
<1>2. FileInvariant
  BY InitInvariant DEF Init
<1>3. /\ screen = "off" /\ form = "none" /\ upc = "idle" /\ session = None /\ spc = "idle"
      /\ tasks = <<>> /\ posts = <<>> /\ tpc = "request" /\ parted = FALSE
  BY DEF Init, FileInit
<1>4. (\A i \in 1..Len(tasks) : FALSE) /\ (\A i \in 1..Len(posts) : FALSE)
  <2>1. Len(tasks) = 0 /\ Len(posts) = 0
    BY <1>3
  <2> QED BY <2>1
<1>5. Session
  BY <1>3, <1>4 DEF Session, DeadItems, Screens, SaveOK, Agrees
<1> QED BY <1>1, <1>2, <1>5 DEF IInv

LEMMA StepSession ==
  ASSUME IInv, [Next]_vars
  PROVE  IInv'
<1>1. QueuesOK'
  BY StepQueues DEF IInv
<1>2. FileInvariant'
  BY FilesOnly, StepInvariant DEF IInv
<1> SUFFICES Session'
  BY <1>1, <1>2 DEF IInv
<1>3. CASE Start
  BY <1>3, StartKeeps
<1>4. CASE End
  BY <1>4, EndKeeps
<1>5. CASE TaskStep
  BY <1>5, TaskKeeps
<1>6. CASE Complete
  BY <1>1, <1>6, CompleteKeeps
<1>7. CASE SignedIn
  BY <1>1, <1>7, SignedInKeeps
<1>8. CASE LateResult
  <2>1. /\ posts # <<>> /\ posts' = Tail(posts)
        /\ Head(posts).kind = "refused" \/ ~Head(posts).alive
        /\ parted' = (parted \/ Head(posts).kind = "signed in")
        /\ UNCHANGED <<screen, form, session, upc, tasks, tpc, fileVars>>
    BY <1>8 DEF LateResult, uiVars
  <2>2. Head(posts).kind # "complete"
    <3>1. Len(posts) \in Nat /\ Len(posts) # 0 /\ Head(posts) = posts[1]
      BY <2>1, QueueFacts DEF IInv
    <3>2. 1 \in 1..Len(posts)
      BY <3>1
    <3> QED BY <2>1, <3>1, <3>2 DEF IInv, Session, DeadItems
  <2> QED BY <2>1, <2>2, PopKeeps
<1>9. CASE LibraryLoaded \/ LibraryFailed
  <2>1. /\ posts # <<>> /\ posts' = Tail(posts)
        /\ Head(posts).kind # "complete" /\ Head(posts).kind # "signed in"
        /\ parted' = parted
        /\ UNCHANGED <<screen, form, session, upc, tasks, tpc, fileVars>>
    BY <1>9 DEF LibraryLoaded, LibraryFailed, Posted
  <2>2. parted' = (parted \/ Head(posts).kind = "signed in")
    BY <2>1 DEF IInv, Session
  <2> QED BY <2>1, <2>2, PopKeeps
<1>10. CASE FadeEnds
  BY <1>1, <1>10, FadeKeeps
<1>11. CASE LogoutEnds
  BY <1>11, LogoutEndsKeeps
<1>12. ASSUME NEW a \in Contents, SubmitLogin(a) PROVE Session'
  BY <1>1, <1>12, SubmitKeeps
<1>13. CASE BeginLogin \/ Back \/ OpenSearch \/ OpenSettings
  <2>1. /\ upc = "idle" /\ screen = "tabs"
        /\ form' = form \/ form' \in {"open", "fading"}
        /\ UNCHANGED <<screen, session, upc, tasks, posts, tpc, parted, fileVars>>
    BY <1>13 DEF BeginLogin, Back, OpenSearch, OpenSettings, Input, OnTabs, threadVars, IInv,
      Session, Screens
  <2> QED BY <2>1, FormKeeps
<1>14. CASE Refresh \/ OpenLibrary
  <2>1. /\ screen = "tabs"
        /\ UNCHANGED <<screen, form, session, upc, posts, tpc, parted, fileVars>>
        /\ ReloadLibrary(session, tasks) \/ LibraryAppears(session, tasks)
    BY <1>14 DEF Refresh, OpenLibrary, Input, OnTabs
  <2>2. session \in Contents \cup {None} /\ tasks \in Seq(Requests)
    BY DEF IInv, QueuesOK
  <2>3. Reloads(tasks, tasks')
    BY <2>1, <2>2, ReloadElements, AppearsElements
  <2> QED BY <1>1, <2>1, <2>3, ReloadKeeps
<1>15. CASE Logout
  BY <1>15, LogoutKeeps
<1>16. CASE UNCHANGED vars
  <2>1. UNCHANGED <<screen, form, session, upc, tasks, posts, tpc, parted, dest, spc, new, excused>>
    BY <1>16 DEF vars, uiVars, threadVars, fileVars
  <2>2. DeadItems' /\ SaveOK'
    BY <2>1 DEF DeadItems, SaveOK, IInv, Session
  <2>3. Screens'
    BY <2>1 DEF Screens, GateWaits, IInv, Session
  <2>4. Agrees'
    BY <2>1, AgreesUntouched DEF IInv, Session
  <2> QED BY <2>1, <2>2, <2>3, <2>4 DEF Session, IInv
<1> QED
  BY <1>3, <1>4, <1>5, <1>6, <1>7, <1>8, <1>9, <1>10, <1>11, <1>12, <1>13, <1>14, <1>15, <1>16
  DEF Next, UIPost, User

(* When nothing that could sign in is left, the next start signs in to the *)
(* account the user sees, for any number of accounts, attempts, restarts   *)
(* and failures, unless a sign-in ended after its form was gone or the     *)
(* file system failed.                                                     *)
THEOREM SavedAgrees == Spec => []SavedMatchesSession
<1>1. IInv /\ [Next]_vars => IInv'
  BY StepSession
<1>2. IInv => SavedMatchesSession
  <2> SUFFICES ASSUME IInv, Quiet, ~parted PROVE Readable(dest) = session
    BY DEF SavedMatchesSession
  <2>1. /\ screen = "tabs" /\ upc = "idle" /\ tpc = "request"
        /\ posts \in Seq(Results) /\ ~AwaitsLogin(posts)
    BY DEF Quiet, IInv, QueuesOK
  <2>2. \A i \in 1..Len(posts) : posts[i].kind # "signed in"
    <3>1. DOMAIN posts = 1..Len(posts)
      BY <2>1, LenProperties
    <3> QED BY <2>1, <3>1 DEF AwaitsLogin
  <2>3. ~Doomed
    BY <2>1, <2>2 DEF Doomed
  <2> QED BY <2>1, <2>2, <2>3 DEF IInv, Session, Agrees, Newest
<1> QED
  BY InitSession, <1>1, <1>2, PTL DEF Spec
============================================================================
