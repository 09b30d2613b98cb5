------------------------------- MODULE Access -------------------------------
(***************************************************************************)
(* Who may work at the till: the users and recovery words on file, the     *)
(* login gate that is the first window of the program and comes back when  *)
(* the user is switched, and the page of users.                            *)
(*                                                                         *)
(* Making a user takes two or three statements, each committed on its own, *)
(* so the program can die, or a statement fail, between two of them.  The  *)
(* gate is modal: nothing else changes the users while it is open.         *)
(***************************************************************************)
EXTENDS Integers, FiniteSets

CONSTANTS
    MaxUsers,    \* bound: users ever put on file
    Pins,        \* what passes for a PIN: two characters
    NoPin,       \* the PIN of a row that was never given one
    Words,       \* recovery words, of four characters or more
    NoWord,      \* a user without a row in admin_secrets
    Gesture      \* clicks on the heading that ask for the recovery word

ASSUME AccessAssumption ==
    /\ MaxUsers \in Nat /\ Gesture \in Nat \ {0}
    /\ NoPin \notin Pins /\ NoWord \notin Words

Ids == 1 .. MaxUsers
Roles == {"cashier", "admin"}

VARIABLES
    onFile,      \* ids of the rows of users
    nextId,      \* what AUTOINCREMENT gives next
    role, pin, active,   \* columns of users
    word,        \* admin_secrets, by user
    halfMade,    \* users whose PIN was never written
    gate,        \* "off" when the program does not run, the state of the login dialog, or "open"
    listed,      \* the profiles the dialog was built with
    chosen,      \* m_selectedUserId
    clicks,      \* m_headerClickCount
    session,     \* the copy of the user that Session keeps
    window,      \* whether the main window was built
    page         \* the page of the main window

rows == <<onFile, nextId, role, pin, active, word, halfMade>>
dialogState == <<listed, chosen, clicks>>
vars == <<onFile, nextId, role, pin, active, word, halfMade, gate, listed, chosen, clicks,
          session, window, page>>

----------------------------------------------------------------------------
(* Reading the tables. *)

ListActive == {u \in onFile : active[u]}

Lowest(S) == CHOOSE u \in S : \A v \in S : u <= v

\* Bug: a user who was switched off still counts.
AnyWithPin(p) == LET S == {u \in onFile : pin[u] = p} IN IF S = {} THEN {} ELSE {Lowest(S)}

\* Nothing keeps two users from having the same PIN: the lowest id is found.
FindByPin(p) ==
    LET S == {u \in ListActive : pin[u] = p} IN IF S = {} THEN {} ELSE {Lowest(S)}

\* The first row of admin_secrets that matches, whatever became of its user.
FindAdminByMaster(w) ==
    LET S == {u \in onFile : word[u] = w} IN IF S = {} THEN {} ELSE {Lowest(S)}

----------------------------------------------------------------------------
(* Writing them. *)

\* An INSERT of name and role: the row is active and has no PIN.
InsertUser(r) ==
    /\ nextId \in Ids
    /\ onFile' = onFile \cup {nextId} /\ nextId' = nextId + 1
    /\ role' = [role EXCEPT ![nextId] = r]
    /\ active' = [active EXCEPT ![nextId] = TRUE]

SavePin(u, p) ==
    /\ pin' = [pin EXCEPT ![u] = p]
    /\ halfMade' = halfMade \ {u}

LeaveHalfMade(u) == halfMade' = halfMade \cup {u} /\ UNCHANGED pin

SetMaster(u, w) == word' = [word EXCEPT ![u] = w]

----------------------------------------------------------------------------
(* The login gate. *)

GoTo(state) == gate' = state

\* The dialog that makes the first administrator comes up when nobody is active.
OpenGate ==
    /\ GoTo(IF ListActive = {} THEN "configuration" ELSE "connexion")
    /\ listed' = ListActive
    /\ chosen' = {} /\ clicks' = 0

Start ==
    /\ gate = "off"
    /\ OpenGate
    /\ UNCHANGED <<rows, session, window, page>>

\* The window hides behind the gate.
SwitchUser ==
    /\ gate = "open"
    /\ OpenGate
    /\ UNCHANGED <<rows, session, window, page>>

CloseGate == listed' = {} /\ chosen' = {} /\ clicks' = 0

\* Session keeps a copy.  A window that is there already keeps its page.
SignIn(u) ==
    /\ session' = {[id |-> u, role |-> role'[u]]}
    /\ GoTo("open") /\ CloseGate
    /\ window' = TRUE
    /\ page' = IF window THEN page ELSE "quick"

\* Closing the gate ends a program that is only starting; on a switch the user of
\* before goes on.
CancelGate ==
    /\ gate \in {"connexion", "configuration", "recuperation"}
    /\ GoTo(IF window THEN "open" ELSE "off") /\ CloseGate
    /\ UNCHANGED <<rows, session, window, page>>

OnUserButton(u) ==
    /\ gate = "connexion" /\ u \in listed /\ u \in ListActive
    /\ chosen' = {u} /\ clicks' = 0
    /\ UNCHANGED <<rows, gate, listed, session, window, page>>

OnLogin(p) ==
    /\ gate = "connexion"
    /\ UNCHANGED rows
    /\ \E u \in chosen : FindByPin(p) = {u} /\ SignIn(u)

\* "done" statements were executed; with fewer than three the dialog stays as it is.
OnSetup(p, w, done) ==
    /\ gate = "configuration"
    /\ InsertUser("admin")
    /\ IF done >= 2 THEN SavePin(nextId, p) ELSE LeaveHalfMade(nextId)
    /\ IF done = 3
       THEN SetMaster(nextId, w) /\ SignIn(nextId)
       ELSE UNCHANGED <<word, gate, dialogState, session, window, page>>

\* There is no way back from the recovery word.
OnHeader ==
    /\ gate = "connexion"
    /\ clicks' = (clicks + 1) % Gesture
    /\ GoTo(IF clicks + 1 >= Gesture THEN "recuperation" ELSE gate)
    /\ UNCHANGED <<rows, listed, chosen, session, window, page>>

OnRecovery(w) ==
    /\ gate = "recuperation"
    /\ UNCHANGED rows
    /\ \E u \in FindAdminByMaster(w) : active[u] /\ SignIn(u)

----------------------------------------------------------------------------
(* The main window and its page of users. *)

\* The entry is there for an administrator; the page it opened stays on the screen
\* when another user comes.
OpenPage(p) ==
    /\ gate = "open" /\ page # p
    /\ p = "users" => \E s \in session : s.role = "admin"
    /\ page' = p
    /\ UNCHANGED <<rows, gate, dialogState, session, window>>

OnUsersPage == gate = "open" /\ page = "users"

\* The rows of the table: read again on the way in and after every change.
TableRows == onFile

\* The form gives up in silence unless the PIN has two characters, entered twice.
UserDialog(p, again) == p \in Pins /\ again = p

\* The tick of the form is not saved: a new user is active, and an edited one stays
\* what it was.
OnAdd(r, p, again, done) ==
    /\ OnUsersPage /\ UserDialog(p, again)
    /\ InsertUser(r)
    /\ IF done = 2 THEN SavePin(nextId, p) ELSE LeaveHalfMade(nextId)
    /\ UNCHANGED <<word, gate, dialogState, session, window, page>>

\* The session of a user who edits himself keeps what it was copied from.
OnEdit(u, r, p, again, done) ==
    /\ OnUsersPage /\ u \in TableRows /\ UserDialog(p, again)
    /\ role' = [role EXCEPT ![u] = r]
    /\ IF done = 2 /\ p # pin[u] THEN SavePin(u, p) ELSE UNCHANGED <<pin, halfMade>>
    /\ UNCHANGED <<onFile, nextId, active, word, gate, dialogState, session, window, page>>

\* The foreign key of admin_secrets keeps a user who has a recovery word.
OnRemove(u) ==
    /\ OnUsersPage /\ u \in TableRows /\ word[u] = NoWord
    /\ onFile' = onFile \ {u}
    /\ role' = [role EXCEPT ![u] = "cashier"]
    /\ pin' = [pin EXCEPT ![u] = NoPin]
    /\ active' = [active EXCEPT ![u] = FALSE]
    /\ halfMade' = halfMade \ {u}
    /\ UNCHANGED <<nextId, word, gate, dialogState, session, window, page>>

\* No user is spared: not the last administrator, not the one at work.
OnActiveChanged(u) ==
    /\ OnUsersPage /\ u \in TableRows
    /\ active' = [active EXCEPT ![u] = ~@]
    /\ UNCHANGED <<onFile, nextId, role, pin, word, halfMade, gate, dialogState, session, window, page>>

\* Closed, or killed: what was committed stays.
Stop ==
    /\ gate # "off"
    /\ GoTo("off") /\ CloseGate
    /\ session' = {} /\ window' = FALSE /\ page' = "quick"
    /\ UNCHANGED rows

----------------------------------------------------------------------------
Init ==
    /\ onFile = {} /\ nextId = 1 /\ halfMade = {}
    /\ role = [u \in Ids |-> "cashier"] /\ pin = [u \in Ids |-> NoPin]
    /\ active = [u \in Ids |-> FALSE] /\ word = [u \in Ids |-> NoWord]
    /\ gate = "off" /\ listed = {} /\ chosen = {} /\ clicks = 0
    /\ session = {} /\ window = FALSE /\ page = "quick"

Next ==
    \/ Start \/ SwitchUser \/ CancelGate \/ OnHeader \/ Stop
    \/ \E u \in Ids : OnUserButton(u) \/ OnRemove(u) \/ OnActiveChanged(u)
    \/ \E p \in Pins : OnLogin(p)
    \/ \E p \in Pins, w \in Words, done \in 1 .. 3 : OnSetup(p, w, done)
    \/ \E w \in Words : OnRecovery(w)
    \/ \E p \in {"quick", "users"} : OpenPage(p)
    \/ \E r \in Roles, p, again \in Pins, done \in 1 .. 2 : OnAdd(r, p, again, done)
    \/ \E u \in Ids, r \in Roles, p, again \in Pins, done \in 1 .. 2 : OnEdit(u, r, p, again, done)

Spec == Init /\ [][Next]_vars

----------------------------------------------------------------------------
(* Properties. *)

TypeOK ==
    /\ onFile \subseteq Ids /\ nextId \in 1 .. MaxUsers + 1
    /\ role \in [Ids -> Roles] /\ pin \in [Ids -> Pins \cup {NoPin}]
    /\ active \in [Ids -> BOOLEAN] /\ word \in [Ids -> Words \cup {NoWord}]
    /\ halfMade \subseteq onFile
    /\ gate \in {"off", "connexion", "configuration", "recuperation", "open"}
    /\ listed \subseteq Ids /\ chosen \subseteq listed
    /\ clicks \in 0 .. Gesture - 1
    /\ session \subseteq [id : Ids, role : Roles]
    /\ window \in BOOLEAN /\ page \in {"quick", "users"}

\* A user the gate can let in: the PIN typed under his name finds him.
CanEnter(u) == u \in ListActive /\ pin[u] # NoPin /\ FindByPin(pin[u]) = {u}

\* The shop is never shut out.  While the gate asks who is there, someone it lists
\* can answer, whoever was removed, switched off or given the PIN of another; and
\* when nobody is left it asks for a first administrator instead.  Only a user
\* whose making was cut short can break this: he is active, so the gate asks for a
\* PIN, and he has none.
WayIn ==
    halfMade = {} =>
        /\ ListActive # {} => \E u \in ListActive : CanEnter(u)
        /\ gate = "connexion" => \E u \in listed : CanEnter(u)
=============================================================================
