------------------------------ MODULE Account ------------------------------
(***************************************************************************)
(* Signing in and out of BoosterNX: the startup gate (main_activity.cpp),  *)
(* the login form (LoginView.cpp), the library and search tabs, the state  *)
(* they share (app_state.cpp) and the saved session.  Requests run in      *)
(* order on one task thread and post their results to the UI thread, where *)
(* they meet whatever the user did meanwhile; the program may end at any   *)
(* moment.  An account stands for its session and for its library.         *)
(***************************************************************************)
EXTENDS FileStore, Sequences

CONSTANT MaxAttempts  \* starts of the program and attempts to sign in, together

ASSUME AttemptsAssumption == MaxAttempts \in Nat

VARIABLES
  screen,   \* "off", or what the first activity shows
  form,     \* the login form pushed over the tabs
  tokens,   \* borealis' input-blocking tokens
  tab,      \* the tab that is open
  session,  \* AppState.session_
  library,  \* whose games AppState.library_games_ holds
  games,    \* whose games LibraryTab.games_ holds
  shown,    \* whose games SearchTab.library_games_ holds
  loading,  \* LibraryTab.loading_
  upc,      \* where the UI thread is in Logout
  tasks,    \* the requests of brls::async, the first one running
  tpc,      \* "request", or "save" while the task thread saves a session
  posts,    \* the results of brls::sync
  attempts, \* history: how many there were
  parted    \* history: the file and the session went separate ways

uiVars == <<screen, form, tokens, tab, session, library, games, shown, loading, upc>>
threadVars == <<tasks, tpc, posts>>
vars == <<uiVars, threadVars, attempts, parted, fileVars>>

(* A request or a result; alive: the view that waits for it still exists.  *)
Item(kind, account) == [kind |-> kind, account |-> account, alive |-> TRUE]

(* Destroying the login view: what it waited for finds alive_ false.       *)
Orphaned(queue) ==
  [i \in DOMAIN queue |->
     [queue[i] EXCEPT !.alive =
        IF queue[i].kind \in {"login", "signed in", "refused"} THEN FALSE ELSE @]]

AwaitsLogin(queue) == \E i \in DOMAIN queue : queue[i].kind \in {"login", "signed in"}

Init ==
  /\ FileInit
  /\ screen = "off" /\ form = "none" /\ tokens = 0 /\ tab = "library"
  /\ session = None /\ library = None /\ games = None /\ shown = None
  /\ loading = FALSE /\ upc = "idle"
  /\ tasks = <<>> /\ tpc = "request" /\ posts = <<>>
  /\ attempts = 0 /\ parted = FALSE
----------------------------------------------------------------------------
(* The startup gate.  A saved session that has expired is accepted as it   *)
(* is, any other one is validated first.                                   *)
Start ==
  /\ screen = "off" /\ attempts < MaxAttempts
  /\ attempts' = attempts + 1
  /\ parted' = FALSE
  /\ LET saved == Readable(dest) IN
       IF saved = None
         THEN screen' = "login" /\ UNCHANGED threadVars
         ELSE /\ screen' = "gate"
              /\ UNCHANGED tpc
              /\ \/ posts' = <<Item("complete", saved)>> /\ UNCHANGED tasks
                 \/ tasks' = <<Item("validate", saved)>> /\ UNCHANGED posts
  /\ UNCHANGED <<form, tokens, tab, session, library, games, shown, loading, upc, fileVars>>

\* The program ends, and only the files remain.
End ==
  /\ screen # "off"
  /\ screen' = "off" /\ form' = "none" /\ tokens' = 0 /\ tab' = "library"
  /\ session' = None /\ library' = None /\ games' = None /\ shown' = None
  /\ loading' = FALSE /\ upc' = "idle"
  /\ tasks' = <<>> /\ tpc' = "request" /\ posts' = <<>>
  /\ Crash
  /\ UNCHANGED <<attempts, parted>>
----------------------------------------------------------------------------
(* The task thread: FetchCurrentUser, Login and FetchLibrary, each ending  *)
(* in a post, the first two in a save as well when the server agrees.      *)
Running(kind) == tasks # <<>> /\ tpc = "request" /\ Head(tasks).kind = kind

(* The running request ends and posts its result. *)
Post(kind, account) ==
  /\ posts' = Append(posts, [Head(tasks) EXCEPT !.kind = kind, !.account = account])
  /\ tasks' = Tail(tasks) /\ tpc' = "request"

Save ==
  /\ \/ Running("validate")
     \/ Running("login")
  /\ BeginSave(Head(tasks).account)
  /\ tpc' = "save"
  /\ UNCHANGED <<uiVars, tasks, posts, attempts, parted>>

(* Mutant: a validation that fails signs the user out. *)
MutantValidationFails ==
  /\ Running("validate")
  /\ Post("complete", None)
  /\ UNCHANGED <<uiVars, attempts, parted, fileVars>>

\* "Keep the saved account on a temporary/network failure."
ValidationFails ==
  /\ Running("validate")
  /\ Post("complete", Head(tasks).account)
  /\ UNCHANGED <<uiVars, attempts, parted, fileVars>>

LoginFails ==
  /\ Running("login")
  /\ Post("refused", Head(tasks).account)
  /\ UNCHANGED <<uiVars, attempts, parted, fileVars>>

Saving ==
  /\ tpc = "save" /\ SaveStep
  /\ UNCHANGED <<uiVars, threadVars, attempts, parted>>

\* What SaveSession's replacement returned is not looked at.
Saved ==
  /\ tpc = "save" /\ spc = "idle"
  /\ Post(IF Head(tasks).kind = "login" THEN "signed in" ELSE "complete", Head(tasks).account)
  /\ parted' = (parted \/ excused)
  /\ UNCHANGED <<uiVars, attempts, fileVars>>

\* The account's library, taken not to be empty, or an error.
FetchLibrary ==
  /\ Running("reload")
  /\ \/ Post("library", Head(tasks).account)
     \/ Post("no library", None)
  /\ UNCHANGED <<uiVars, attempts, parted, fileVars>>

TaskStep == Save \/ ValidationFails \/ LoginFails \/ Saving \/ Saved \/ FetchLibrary
----------------------------------------------------------------------------
(* LibraryTab on the UI thread, after the session became s.                *)
ReloadLibrary(s, queue) ==
  IF loading \/ s = None
    THEN tasks' = queue /\ UNCHANGED loading
    ELSE loading' = TRUE /\ tasks' = Append(queue, Item("reload", s))

LibraryAppears(s, queue) ==
  IF library # None
    THEN games' = library /\ tasks' = queue /\ UNCHANGED loading
    ELSE ReloadLibrary(s, queue) /\ UNCHANGED games

\* The gate and the startup login view give way to the tabs; the library
\* tab opens.
ShowMainTabs(s) ==
  /\ session' = s /\ screen' = "tabs"
  /\ LibraryAppears(s, Orphaned(tasks))
  /\ posts' = Orphaned(Tail(posts))

Posted(kind) == upc = "idle" /\ posts # <<>> /\ Head(posts).kind = kind

Complete ==
  /\ Posted("complete")
  /\ ShowMainTabs(Head(posts).account)
  /\ UNCHANGED <<form, tokens, tab, library, shown, upc, tpc, attempts, parted, fileVars>>

\* The form is popped: it fades out, or, when it was fading already, it is
\* destroyed at once and the token of its first pop is never given back.
\* (What the callback goes on reading from the closure that was freed with
\* the form is still there, or the program ends.)
PopForm ==
  IF form = "open"
    THEN /\ form' = "fading" /\ tokens' = tokens + 1
         /\ posts' = Tail(posts)
         /\ ReloadLibrary(Head(posts).account, tasks)
    ELSE /\ form' = "none" /\ UNCHANGED tokens
         /\ posts' = Orphaned(Tail(posts))
         /\ ReloadLibrary(Head(posts).account, Orphaned(tasks))

SignedIn ==
  /\ Posted("signed in") /\ Head(posts).alive
  /\ IF screen = "login"
       THEN ShowMainTabs(Head(posts).account) /\ UNCHANGED <<form, tokens>>
       ELSE session' = Head(posts).account /\ PopForm /\ UNCHANGED <<screen, games>>
  /\ UNCHANGED <<tab, library, shown, upc, tpc, attempts, parted, fileVars>>

\* A sign-in whose form is gone has saved its session all the same.
LateResult ==
  /\ upc = "idle" /\ posts # <<>>
  /\ Head(posts).kind = "refused" \/ ~Head(posts).alive
  /\ posts' = Tail(posts)
  /\ parted' = (parted \/ Head(posts).kind = "signed in")
  /\ UNCHANGED <<uiVars, tasks, tpc, attempts, fileVars>>

LibraryLoaded ==
  /\ Posted("library")
  /\ loading' = FALSE
  /\ games' = Head(posts).account /\ library' = Head(posts).account
  /\ posts' = Tail(posts)
  /\ UNCHANGED <<screen, form, tokens, tab, session, shown, upc, tasks, tpc, attempts, parted, fileVars>>

(* Mutant: an error leaves loading_ set. *)
MutantLibraryFailed ==
  /\ Posted("no library")
  /\ posts' = Tail(posts)
  /\ UNCHANGED <<uiVars, tasks, tpc, attempts, parted, fileVars>>

LibraryFailed ==
  /\ Posted("no library")
  /\ loading' = FALSE
  /\ posts' = Tail(posts)
  /\ UNCHANGED <<screen, form, tokens, tab, session, library, games, shown, upc, tasks, tpc, attempts, parted, fileVars>>

\* borealis deletes the form after this iteration's results, the module at once.
FadeEnds ==
  /\ form = "fading" /\ upc = "idle"
  /\ form' = "none" /\ tokens' = tokens - 1
  /\ tasks' = Orphaned(tasks) /\ posts' = Orphaned(posts)
  /\ UNCHANGED <<screen, tab, session, library, games, shown, loading, upc, tpc, attempts, parted, fileVars>>

UIPost == Complete \/ SignedIn \/ LateResult \/ LibraryLoaded \/ LibraryFailed
----------------------------------------------------------------------------
(* The user.  A touch reaches the top activity, also one that fades out:   *)
(* the tokens block the controller's buttons only.                         *)
Input(top) == upc = "idle" /\ top

OnTabs == screen = "tabs" /\ form = "none"

\* Nothing keeps the button from being pressed again.
SubmitLogin(a) ==
  /\ Input(screen = "login" \/ form # "none")
  /\ attempts < MaxAttempts
  /\ attempts' = attempts + 1
  /\ tasks' = Append(tasks, Item("login", a))
  /\ UNCHANGED <<uiVars, tpc, posts, parted, fileVars>>

BeginLogin ==
  /\ Input(OnTabs /\ tab = "library" /\ session = None)
  /\ form' = "open"
  /\ UNCHANGED <<screen, tokens, tab, session, library, games, shown, loading, upc, threadVars, attempts, parted, fileVars>>

\* B on the form, which no touch stands for; on the startup login view
\* there is nothing to pop.
Back ==
  /\ Input(form = "open" /\ tokens = 0)
  /\ form' = "fading" /\ tokens' = tokens + 1
  /\ UNCHANGED <<screen, tab, session, library, games, shown, loading, upc, threadVars, attempts, parted, fileVars>>

Refresh ==
  /\ Input(OnTabs /\ tab = "library" /\ session # None)
  /\ ReloadLibrary(session, tasks)
  /\ UNCHANGED <<screen, form, tokens, tab, session, library, games, shown, upc, tpc, posts, attempts, parted, fileVars>>

\* Logout, of the library tab or of the settings, removes the file, then
\* its backup, then forgets the session; the library tab forgets its own
\* games as well; AppState and the search tab keep theirs.
Logout ==
  /\ Input(OnTabs /\ tab \in {"library", "settings"} /\ session # None)
  /\ upc' = "logout"
  /\ ClearFile
  /\ parted' = (faults' # faults)
  /\ UNCHANGED <<screen, form, tokens, tab, session, library, games, shown, loading, threadVars, attempts>>

LogoutEnds ==
  /\ upc = "logout"
  /\ upc' = "idle"
  /\ ClearBackup
  /\ session' = None
  /\ games' = IF tab = "library" THEN None ELSE games
  /\ UNCHANGED <<screen, form, tokens, tab, library, shown, loading, threadVars, attempts, parted>>

OpenLibrary ==
  /\ Input(OnTabs /\ tab # "library")
  /\ tab' = "library"
  /\ LibraryAppears(session, tasks)
  /\ UNCHANGED <<screen, form, tokens, session, library, shown, upc, tpc, posts, attempts, parted, fileVars>>

OpenSearch ==
  /\ Input(OnTabs /\ tab # "search")
  /\ tab' = "search"
  /\ shown' = IF library # None THEN library ELSE shown
  /\ UNCHANGED <<screen, form, tokens, session, library, games, loading, upc, threadVars, attempts, parted, fileVars>>

OpenSettings ==
  /\ Input(OnTabs /\ tab # "settings")
  /\ tab' = "settings"
  /\ UNCHANGED <<screen, form, tokens, session, library, games, shown, loading, upc, threadVars, attempts, parted, fileVars>>

User ==
  \/ \E a \in Contents : SubmitLogin(a)
  \/ BeginLogin \/ Back \/ Refresh \/ Logout
  \/ OpenLibrary \/ OpenSearch \/ OpenSettings

Next == Start \/ End \/ TaskStep \/ UIPost \/ FadeEnds \/ LogoutEnds \/ User

(* Requests and file system calls return (curl has a timeout), and the UI  *)
(* thread runs its posts, its animations and its handlers to their end.    *)
Spec ==
  /\ Init /\ [][Next]_vars
  /\ WF_vars(TaskStep) /\ WF_vars(UIPost) /\ WF_vars(LogoutEnds)
----------------------------------------------------------------------------
(* Properties                                                              *)

Requests == [kind : {"validate", "login", "reload"}, account : Contents, alive : BOOLEAN]

Results ==
  [kind : {"complete", "signed in", "refused", "library", "no library"},
   account : Contents \cup {None}, alive : BOOLEAN]

(* Nothing is asked or saved for nobody, and a save belongs to a request. *)
QueuesOK ==
  /\ tasks \in Seq(Requests) /\ posts \in Seq(Results)
  /\ tpc = "save" => tasks # <<>>
  /\ session \in Contents \cup {None}

Quiet ==
  /\ screen = "tabs" /\ upc = "idle" /\ tpc = "request"
  /\ ~AwaitsLogin(tasks) /\ ~AwaitsLogin(posts)

(* The next start signs in to the account the user sees: across restarts,  *)
(* validations that fail, repeated submits and sign-outs the saved session *)
(* is the one in AppState, unless a sign-in ended after its form was gone  *)
(* or the file system failed.                                              *)
SavedMatchesSession == Quiet /\ ~parted => Readable(dest) = session

(* Every wait ends: a refresh is answered, so that the next one is not     *)
(* ignored for ever, and the gate opens.                                   *)
RequestsAnswered ==
  /\ loading ~> ~loading
  /\ screen = "gate" ~> screen # "gate"

(* search_tab.hpp:14 "this only searches the signed-in user's own library  *)
(* ... the same data LibraryTab shows".                                    *)
SearchIsYours == screen = "tabs" /\ tab = "search" /\ shown # None => shown = session
=============================================================================
