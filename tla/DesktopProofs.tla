--------------------------- MODULE DesktopProofs ---------------------------
(***************************************************************************)
(* Proofs about what a start of the desktop program goes through, for      *)
(* every value of the constants: the login gate of Access, where the shop  *)
(* is never shut out by removing users, switching them off or giving two   *)
(* of them one PIN; and the zakat reminder of Zakat, which comes while a   *)
(* year is owed, and whose payment settles the year it asked for.          *)
(***************************************************************************)
EXTENDS Access, Zakat, WellFoundedInduction, TLAPS

----------------------------------------------------------------------------
(* The login gate. *)

\* Only a user whose making was cut short has no PIN.
PinsWritten == \A u \in onFile : pin[u] = NoPin => u \in halfMade

\* While the gate asks for a PIN the profiles it lists are the users on file.
ListsAreFresh == gate = "connexion" => listed = ListActive /\ listed # {}

\* The inductive invariant of the gate.
AccessInv == TypeOK /\ PinsWritten /\ ListsAreFresh

----------------------------------------------------------------------------
(* Lemmas. *)

\* Every set of users that is not empty has a first one.
LEMMA LowestIn ==
    ASSUME NEW S \in SUBSET Ids, S # {}
    PROVE  Lowest(S) \in S /\ \A v \in S : Lowest(S) <= v
<1> DEFINE R == OpToRel(<, Nat)
<1>1. S \subseteq Nat
  BY AccessAssumption DEF Ids
<1>2. PICK u \in S : \A v \in S : <<v, u>> \notin R
  BY <1>1, NatLessThanWellFounded, WFMin
<1>3. \A v \in S : ~(v < u)
  BY <1>1, <1>2 DEF OpToRel
<1>4. \A v \in S : u <= v
  BY <1>1, <1>3
<1>5. QED
  BY <1>4 DEF Lowest

\* The first of a set is also the first of a part of it that he belongs to.
LEMMA LowestOfPart ==
    ASSUME NEW S \in SUBSET Ids, S # {}, NEW T \in SUBSET S, Lowest(S) \in T
    PROVE  Lowest(T) = Lowest(S)
<1>1. T \in SUBSET Ids /\ T # {}
  OBVIOUS
<1>2. Lowest(T) \in T /\ Lowest(T) <= Lowest(S)
  BY <1>1, LowestIn
<1>3. \A v \in S : Lowest(S) <= v
  BY LowestIn
<1>4. Lowest(T) \in S /\ Lowest(S) <= Lowest(T)
  BY <1>2, <1>3
<1>5. Lowest(S) \in Int /\ Lowest(T) \in Int
  <2>1. \A v \in S : v \in Int
    BY AccessAssumption DEF Ids
  <2>2. QED
    BY <1>4, <2>1
<1>6. QED
  BY <1>2, <1>4, <1>5

\* Somebody can enter: the first of the active users, whatever PINs the others have.
LEMMA FirstCanEnter ==
    ASSUME AccessInv, halfMade = {}, ListActive # {}
    PROVE  \E u \in ListActive : CanEnter(u)
<1> DEFINE u == Lowest(ListActive)
           S == {v \in ListActive : pin[v] = pin[u]}
<1>1. ListActive \in SUBSET Ids
  BY DEF ListActive, AccessInv, TypeOK
<1>2. u \in ListActive
  BY <1>1, LowestIn
<1>3. pin[u] # NoPin
  BY <1>2 DEF AccessInv, PinsWritten, ListActive
<1>4. S \in SUBSET ListActive /\ u \in S
  BY <1>2
<1>5. Lowest(S) = u
  BY <1>1, <1>4, LowestOfPart
<1>6. FindByPin(pin[u]) = {u}
  BY <1>4, <1>5 DEF FindByPin
<1>7. QED
  BY <1>2, <1>3, <1>6 DEF CanEnter

\* What the recovery word finds is a user.
LEMMA MasterOnFile ==
    ASSUME TypeOK, NEW w, NEW u \in FindAdminByMaster(w)
    PROVE  u \in Ids
<1> DEFINE S == {v \in onFile : word[v] = w}
<1>1. S \in SUBSET Ids
  BY DEF TypeOK
<1>2. S # {} /\ u = Lowest(S)
  BY DEF FindAdminByMaster
<1>3. QED
  BY <1>1, <1>2, LowestIn

----------------------------------------------------------------------------
(* The inductive invariant. *)

\* The invariant holds before the first start.
LEMMA AccessInitInv == Init => AccessInv
<1> SUFFICES ASSUME Init PROVE AccessInv
  OBVIOUS
<1>1. 1 \in 1 .. MaxUsers + 1 /\ 0 \in 0 .. Gesture - 1
  BY AccessAssumption
<1>2. TypeOK
  BY <1>1 DEF Init, TypeOK, Roles
<1>3. QED
  BY <1>2 DEF Init, AccessInv, PinsWritten, ListsAreFresh

\* Signing in, by a PIN, a recovery word or the first set-up.
LEMMA SignInTypes ==
    ASSUME TypeOK, NEW u \in Ids, SignIn(u), role' \in [Ids -> Roles]
    PROVE  /\ gate' = "open" /\ listed' = {} /\ chosen' = {} /\ clicks' = 0
           /\ session' \subseteq [id : Ids, role : Roles]
           /\ window' \in BOOLEAN /\ page' \in {"quick", "users"}
<1>1. role'[u] \in Roles
  OBVIOUS
<1>2. [id |-> u, role |-> role'[u]] \in [id : Ids, role : Roles]
  BY <1>1
<1>3. QED
  BY <1>2 DEF SignIn, GoTo, CloseGate, TypeOK

\* The gate as it comes up.
LEMMA OpenGateTypes ==
    ASSUME TypeOK, OpenGate, UNCHANGED rows
    PROVE  /\ gate' \in {"configuration", "connexion"}
           /\ listed' \subseteq Ids /\ chosen' = {} /\ clicks' = 0
           /\ ListsAreFresh'
<1>1. ListActive' = ListActive
  BY DEF rows, ListActive
<1>2. QED
  BY <1>1 DEF OpenGate, GoTo, ListsAreFresh, TypeOK, ListActive

\* A row that is put on file, and what its PIN says.
LEMMA InsertTypes ==
    ASSUME AccessInv, NEW r \in Roles, NEW p \in Pins, InsertUser(r),
           SavePin(nextId, p) \/ LeaveHalfMade(nextId)
    PROVE  /\ onFile' \subseteq Ids /\ nextId' \in 1 .. MaxUsers + 1
           /\ role' \in [Ids -> Roles] /\ pin' \in [Ids -> Pins \cup {NoPin}]
           /\ active' \in [Ids -> BOOLEAN]
           /\ halfMade' \subseteq onFile' /\ PinsWritten'
<1>1. /\ nextId \in Ids /\ onFile' = onFile \cup {nextId} /\ nextId' = nextId + 1
      /\ role' = [role EXCEPT ![nextId] = r] /\ active' = [active EXCEPT ![nextId] = TRUE]
  BY DEF InsertUser
<1>2. nextId' \in 1 .. MaxUsers + 1
  BY <1>1, AccessAssumption DEF Ids
<1>3. CASE SavePin(nextId, p)
  <2>1. /\ pin' = [pin EXCEPT ![nextId] = p] /\ halfMade' = halfMade \ {nextId}
    BY <1>3 DEF SavePin
  <2>2. p # NoPin
    BY AccessAssumption
  <2>3. QED
    BY <1>1, <1>2, <2>1, <2>2 DEF AccessInv, TypeOK, PinsWritten
<1>4. CASE LeaveHalfMade(nextId)
  BY <1>1, <1>2, <1>4 DEF LeaveHalfMade, AccessInv, TypeOK, PinsWritten
<1>5. QED
  BY <1>3, <1>4

\* One step per action.
LEMMA AccessNextInv == AccessInv /\ [Next]_vars => AccessInv'
<1> SUFFICES ASSUME AccessInv, [Next]_vars PROVE AccessInv'
  OBVIOUS
<1>0. TypeOK /\ PinsWritten /\ ListsAreFresh
  BY DEF AccessInv
<1>1. CASE Start
  BY <1>0, <1>1, OpenGateTypes, AccessAssumption
     DEF Start, AccessInv, TypeOK, PinsWritten, rows
<1>2. CASE SwitchUser
  BY <1>0, <1>2, OpenGateTypes, AccessAssumption
     DEF SwitchUser, AccessInv, TypeOK, PinsWritten, rows
<1>3. CASE CancelGate
  BY <1>0, <1>3, AccessAssumption
     DEF CancelGate, GoTo, CloseGate, AccessInv, TypeOK, PinsWritten, ListsAreFresh, rows
<1>4. CASE OnHeader
  <2>1. clicks' \in 0 .. Gesture - 1
    BY <1>0, <1>4, AccessAssumption DEF OnHeader, TypeOK
  <2>2. QED
    BY <1>0, <1>4, <2>1
       DEF OnHeader, GoTo, AccessInv, TypeOK, PinsWritten, ListsAreFresh, ListActive, rows
<1>5. CASE Stop
  <2>1. /\ gate' = "off" /\ listed' = {} /\ chosen' = {} /\ clicks' = 0
        /\ session' = {} /\ window' \in BOOLEAN /\ page' = "quick" /\ UNCHANGED rows
    BY <1>5 DEF Stop, GoTo, CloseGate
  <2>2. QED
    BY <1>0, <2>1, AccessAssumption DEF AccessInv, TypeOK, PinsWritten, ListsAreFresh, rows
<1>6. ASSUME NEW u \in Ids, OnUserButton(u) PROVE AccessInv'
  BY <1>0, <1>6, AccessAssumption
     DEF OnUserButton, AccessInv, TypeOK, PinsWritten, ListsAreFresh, ListActive, rows
<1>7. ASSUME NEW u \in Ids, OnRemove(u) PROVE AccessInv'
  BY <1>0, <1>7 DEF OnRemove, OnUsersPage, TableRows, AccessInv, TypeOK, PinsWritten, ListsAreFresh,
                    Roles, dialogState
<1>8. ASSUME NEW u \in Ids, OnActiveChanged(u) PROVE AccessInv'
  BY <1>0, <1>8 DEF OnActiveChanged, OnUsersPage, AccessInv, TypeOK, PinsWritten, ListsAreFresh, dialogState
<1>9. ASSUME NEW p \in Pins, OnLogin(p) PROVE AccessInv'
  <2>1. PICK u \in chosen : SignIn(u)
    BY <1>9 DEF OnLogin
  <2>2. u \in Ids /\ UNCHANGED rows
    BY <1>0, <1>9 DEF OnLogin, TypeOK
  <2>3. role' \in [Ids -> Roles]
    BY <1>0, <2>2 DEF TypeOK, rows
  <2>4. QED
    BY <1>0, <2>1, <2>2, <2>3, SignInTypes, AccessAssumption
       DEF AccessInv, TypeOK, PinsWritten, ListsAreFresh, rows
<1>10. ASSUME NEW p \in Pins, NEW w \in Words, NEW done \in 1 .. 3, OnSetup(p, w, done)
       PROVE  AccessInv'
  <2>1. /\ gate = "configuration" /\ InsertUser("admin")
        /\ SavePin(nextId, p) \/ LeaveHalfMade(nextId)
    BY <1>10 DEF OnSetup
  <2>2. /\ onFile' \subseteq Ids /\ nextId' \in 1 .. MaxUsers + 1
        /\ role' \in [Ids -> Roles] /\ pin' \in [Ids -> Pins \cup {NoPin}]
        /\ active' \in [Ids -> BOOLEAN]
        /\ halfMade' \subseteq onFile' /\ PinsWritten'
    <3>1. "admin" \in Roles
      BY DEF Roles
    <3>2. QED
      BY <2>1, <3>1, InsertTypes
  <2>3. CASE done = 3
    <3>1. SetMaster(nextId, w) /\ SignIn(nextId) /\ nextId \in Ids
      BY <1>10, <2>1, <2>3 DEF OnSetup, InsertUser
    <3>2. word' \in [Ids -> Words \cup {NoWord}]
      BY <1>0, <3>1 DEF SetMaster, TypeOK
    <3>3. QED
      BY <1>0, <2>2, <3>1, <3>2, SignInTypes, AccessAssumption
         DEF AccessInv, TypeOK, ListsAreFresh
  <2>4. CASE done # 3
    <3>1. UNCHANGED <<word, gate, dialogState, session, window, page>>
      BY <1>10, <2>4 DEF OnSetup
    <3>2. QED
      BY <1>0, <2>1, <2>2, <3>1 DEF AccessInv, TypeOK, ListsAreFresh, dialogState
  <2>5. QED
    BY <2>3, <2>4
<1>11. ASSUME NEW w \in Words, OnRecovery(w) PROVE AccessInv'
  <2>1. PICK u \in FindAdminByMaster(w) : SignIn(u)
    BY <1>11 DEF OnRecovery
  <2>2. u \in Ids /\ UNCHANGED rows
    BY <1>0, <1>11, <2>1, MasterOnFile DEF OnRecovery
  <2>3. role' \in [Ids -> Roles]
    BY <1>0, <2>2 DEF TypeOK, rows
  <2>4. QED
    BY <1>0, <2>1, <2>2, <2>3, SignInTypes, AccessAssumption
       DEF AccessInv, TypeOK, PinsWritten, ListsAreFresh, rows
<1>12. ASSUME NEW p \in {"quick", "users"}, OpenPage(p) PROVE AccessInv'
  BY <1>0, <1>12 DEF OpenPage, AccessInv, TypeOK, PinsWritten, ListsAreFresh, ListActive, rows, dialogState
<1>13. ASSUME NEW r \in Roles, NEW p \in Pins, NEW again \in Pins, NEW done \in 1 .. 2,
              OnAdd(r, p, again, done)
       PROVE  AccessInv'
  <2>1. /\ gate = "open" /\ InsertUser(r)
        /\ SavePin(nextId, p) \/ LeaveHalfMade(nextId)
        /\ UNCHANGED <<word, gate, dialogState, session, window, page>>
    BY <1>13 DEF OnAdd, OnUsersPage
  <2>2. QED
    BY <1>0, <2>1, InsertTypes DEF AccessInv, TypeOK, ListsAreFresh, dialogState
<1>14. ASSUME NEW u \in Ids, NEW r \in Roles, NEW p \in Pins, NEW again \in Pins,
              NEW done \in 1 .. 2, OnEdit(u, r, p, again, done)
       PROVE  AccessInv'
  <2>1. /\ gate = "open" /\ role' = [role EXCEPT ![u] = r]
        /\ SavePin(u, p) \/ UNCHANGED <<pin, halfMade>>
        /\ UNCHANGED <<onFile, nextId, active, word, gate, dialogState, session, window, page>>
    BY <1>14 DEF OnEdit, OnUsersPage
  <2>2. /\ pin' \in [Ids -> Pins \cup {NoPin}] /\ halfMade' \subseteq onFile' /\ PinsWritten'
    BY <1>0, <2>1, AccessAssumption DEF SavePin, TypeOK, PinsWritten
  <2>3. QED
    BY <1>0, <2>1, <2>2 DEF AccessInv, TypeOK, ListsAreFresh, dialogState
<1>15. CASE UNCHANGED vars
  BY <1>0, <1>15 DEF vars, AccessInv, TypeOK, PinsWritten, ListsAreFresh, ListActive
<1>16. QED
  BY <1>1, <1>2, <1>3, <1>4, <1>5, <1>6, <1>7, <1>8, <1>9, <1>10, <1>11, <1>12, <1>13, <1>14,
     <1>15 DEF Next

\* The invariant holds in every reachable state.
THEOREM AccessInvCorrect == Spec => []AccessInv
BY AccessInitInv, AccessNextInv, PTL DEF Spec

\* Every variable keeps its type.
THEOREM AccessTypeCorrect == Spec => []TypeOK
<1>1. AccessInv => TypeOK
  BY DEF AccessInv
<1>2. QED
  BY <1>1, AccessInvCorrect, PTL

\* Someone can always get in.
THEOREM WayInCorrect == Spec => []WayIn
<1>1. AccessInv => WayIn
  BY FirstCanEnter DEF AccessInv, ListsAreFresh, WayIn
<1>2. QED
  BY <1>1, AccessInvCorrect, PTL

----------------------------------------------------------------------------
(* The zakat reminder. *)

\* A claim stands for a payment in the history, or for one whose row failed to be
\* written, because the claim is the last of the statements.
ClaimIsPaid == notified # NoYear => notified \in paid \cup unrecorded

\* The year that a click would settle stays the one the dialog asked for, as long
\* as the date does not come again.
AsksForItsYear ==
    dialog.open => /\ date # NoDay
                   /\ dialog.asked \in AllYears
                   /\ YearFor(today, date) = dialog.asked

\* The inductive invariant.
ZakatInv == ZakatTypeOK /\ ClaimIsPaid /\ AsksForItsYear

----------------------------------------------------------------------------
(* The statements of a payment. *)

\* Who reaches the claim has reached the two statements of the history.
LEMMA ClaimIsLast ==
    ASSUME NEW done \in 0 .. Len(Statements), "zakat_notified_year" \in Reached(done)
    PROVE  "insertOrIgnore" \in Reached(done) /\ "markPaid" \in Reached(done)
<1>1. Len(Statements) = 7
  BY DEF Statements
<1>2. done = 7
  BY <1>1 DEF Reached, Statements
<1>3. 5 \in 1 .. done /\ Statements[5] = "insertOrIgnore"
  BY <1>2 DEF Statements
<1>4. 6 \in 1 .. done /\ Statements[6] = "markPaid"
  BY <1>2 DEF Statements
<1>5. QED
  BY <1>3, <1>4 DEF Reached

\* The year asked for is a number, before and after the first.
LEMMA YearForType ==
    ASSUME NEW t \in [year : AllYears, day : Days], NEW z \in Days \cup {NoDay}
    PROVE  YearFor(t, z) \in Int
BY ZakatAssumption DEF YearFor, Occurrence, AllYears, Days, NoDay

\* The zakat due is an amount.
LEMMA ZakatOnType == ASSUME NEW b \in Int PROVE ZakatOn(b) \in Int
BY DEF ZakatOn

\* What the dialog holds.
DialogType == [open : BOOLEAN, asked : {NoYear} \cup AllYears, nisab : Int, due : Int,
               button : BOOLEAN]

\* A closed dialog holds the values it is closed with.
LEMMA ClosedType == Closed \in DialogType /\ ~Closed.open
<1>1. Unreadable \in Int
  BY DEF Unreadable
<1>2. QED
  BY <1>1 DEF Closed, DialogType

----------------------------------------------------------------------------
(* The inductive invariant. *)

\* The invariant holds at the start.
LEMMA ZakatInitInv == ZakatInit => ZakatInv
<1>1. 1 \in AllYears /\ 1 \in Days
  BY ZakatAssumption DEF AllYears, Days
<1> SUFFICES ASSUME ZakatInit PROVE ZakatInv
  OBVIOUS
<1>2. today \in [year : AllYears, day : Days] /\ nisab \in Int
  BY <1>1 DEF ZakatInit
<1>3. dialog \in DialogType /\ ~dialog.open
  BY ClosedType DEF ZakatInit
<1>4. running \in BOOLEAN /\ checked \in BOOLEAN
  BY DEF ZakatInit
<1>5. ZakatTypeOK
  BY <1>2, <1>3, <1>4 DEF ZakatInit, ZakatTypeOK, DialogType
<1>6. QED
  BY <1>3, <1>5 DEF ZakatInit, ZakatInv, ClaimIsPaid, AsksForItsYear

\* The next day is a day, and no earlier in its year.
LEMMA NextDayType ==
    ASSUME NEW t \in [year : AllYears, day : Days], NextDay(t).year \in AllYears
    PROVE  NextDay(t) \in [year : AllYears, day : Days]
BY ZakatAssumption DEF NextDay, AllYears, Days

\* A dialog that has not seen the date again still asks for its year.
LEMMA NextDaySameYear ==
    ASSUME NEW t \in [year : AllYears, day : Days], NEW z \in Days, NEW a \in AllYears,
           YearFor(t, z) = a,
           NextDay(t).year \in AllYears,
           NextDay(t).year = a \/ NextDay(t).day < Occurrence(NextDay(t).year, z)
    PROVE  YearFor(NextDay(t), z) = a
BY ZakatAssumption DEF NextDay, YearFor, Occurrence, AllYears, Days, NoDay

\* One step per action; what an action leaves alone keeps its part of the invariant.
LEMMA ZakatNextInv == ZakatInv /\ [ZakatNext]_zakatVars => ZakatInv'
<1> SUFFICES ASSUME ZakatInv, [ZakatNext]_zakatVars PROVE ZakatInv'
  OBVIOUS
<1> USE DEF ZakatInv
<1>1. CASE Tick
  <2>1. today \in [year : AllYears, day : Days] /\ NextDay(today).year \in AllYears
    BY <1>1 DEF Tick, ZakatTypeOK
  <2>2. ZakatTypeOK'
    BY <1>1, <2>1, NextDayType DEF Tick, ZakatTypeOK, settings, history, program
  <2>3. ClaimIsPaid'
    BY <1>1 DEF Tick, ClaimIsPaid, settings, history
  <2>4. ASSUME dialog'.open PROVE YearFor(today', date') = dialog'.asked
    <3>1. dialog.open /\ dialog' = dialog /\ date' = date /\ today' = NextDay(today)
      BY <1>1, <2>4 DEF Tick, settings
    <3>2. date \in Days /\ dialog.asked \in AllYears /\ YearFor(today, date) = dialog.asked
      BY <3>1 DEF AsksForItsYear, ZakatTypeOK
    <3>3. \/ NextDay(today).year = dialog.asked
          \/ NextDay(today).day < Occurrence(NextDay(today).year, date)
      BY <1>1, <3>1 DEF Tick
    <3>4. QED
      BY <2>1, <3>1, <3>2, <3>3, NextDaySameYear
  <2>5. QED
    BY <1>1, <2>2, <2>3, <2>4 DEF Tick, AsksForItsYear, settings
<1>2. CASE Trade
  BY <1>2 DEF Trade, ZakatTypeOK, ClaimIsPaid, AsksForItsYear, settings, history, program
<1>3. CASE StartProgram
  BY <1>3 DEF StartProgram, ZakatTypeOK, ClaimIsPaid, AsksForItsYear, settings, history
<1>4. CASE CheckZakat
  <2>1. CASE ShouldNotify
    <3>1. /\ today \in [year : AllYears, day : Days] /\ date \in Days
          /\ YearFor(today, date) = today.year
      BY <2>1 DEF ShouldNotify, InWindow, YearFor, ZakatTypeOK
    <3>2. dialog' = [open |-> TRUE, asked |-> YearFor(today, date), nisab |-> Unreadable,
                     due |-> 0, button |-> FALSE]
      BY <1>4, <2>1 DEF CheckZakat, Closed
    <3>3. ZakatTypeOK'
      <4>1. Unreadable \in Int /\ today.year \in AllYears
        BY <3>1 DEF Unreadable
      <4>2. dialog' \in DialogType
        BY <3>1, <3>2, <4>1 DEF DialogType
      <4>3. running' \in BOOLEAN /\ checked' \in BOOLEAN
        BY <1>4 DEF CheckZakat, ZakatTypeOK
      <4>4. QED
        BY <1>4, <4>2, <4>3 DEF CheckZakat, ZakatTypeOK, settings, history, DialogType
    <3>4. AsksForItsYear'
      BY <1>4, <2>1, <3>1, <3>2 DEF CheckZakat, AsksForItsYear, settings, ShouldNotify, InWindow
    <3>5. QED
      BY <1>4, <3>3, <3>4 DEF CheckZakat, ClaimIsPaid, settings, history
  <2>2. CASE ~ShouldNotify
    BY <1>4, <2>2 DEF CheckZakat, ZakatTypeOK, ClaimIsPaid, AsksForItsYear, settings, history
  <2>3. QED
    BY <2>1, <2>2
<1>5. CASE StopProgram
  <2>1. dialog' \in DialogType /\ ~dialog'.open
    BY <1>5, ClosedType DEF StopProgram
  <2>2. running' \in BOOLEAN /\ checked' \in BOOLEAN
    BY <1>5 DEF StopProgram
  <2>3. QED
    BY <1>5, <2>1, <2>2 DEF StopProgram, ZakatTypeOK, ClaimIsPaid, AsksForItsYear, settings, history, DialogType
<1>6. ASSUME NEW z \in Days \cup {NoDay}, SaveDate(z) PROVE ZakatInv'
  BY <1>6 DEF SaveDate, ZakatTypeOK, ClaimIsPaid, AsksForItsYear, history, program
<1>7. ASSUME NEW p \in Prices, TypePrice(p) PROVE ZakatInv'
  <2>1. p * Grams \in Int
    BY ZakatAssumption
  <2>2. QED
    BY <1>7, <2>1 DEF TypePrice, ZakatTypeOK, ClaimIsPaid, AsksForItsYear, settings, history, program
<1>8. CASE ClearPrice
  <2>1. Unreadable \in Int
    BY DEF Unreadable
  <2>2. dialog' \in DialogType /\ dialog'.open = dialog.open /\ dialog'.asked = dialog.asked
    BY <1>8, <2>1 DEF ClearPrice, ZakatTypeOK, DialogType
  <2>3. QED
    BY <1>8, <2>2 DEF ClearPrice, ZakatTypeOK, ClaimIsPaid, AsksForItsYear, settings, history, program,
                      DialogType
<1>9. CASE SaveNisab
  BY <1>9 DEF SaveNisab, ZakatTypeOK, ClaimIsPaid, AsksForItsYear, history, program
<1>10. CASE Calculate
  <2>1. ZakatOn(base) \in Int /\ (base >= dialog.nisab) \in BOOLEAN
    BY ZakatAssumption, ZakatOnType DEF ZakatTypeOK
  <2>2. QED
    BY <1>10, <2>1 DEF Calculate, ZakatTypeOK, ClaimIsPaid, AsksForItsYear, settings, history, program
<1>11. CASE Later
  BY <1>11, ClosedType DEF Later, ZakatTypeOK, ClaimIsPaid, AsksForItsYear, settings, history, program,
                           DialogType
<1>12. ASSUME NEW done \in 0 .. Len(Statements), NEW failed, MarkPaid(done, failed),
              running' \in BOOLEAN, checked' \in BOOLEAN
       PROVE  ZakatInv'
  <2> DEFINE year == YearFor(today, date)
  <2>1. year \in AllYears
    BY <1>12 DEF MarkPaid, AsksForItsYear
  <2>2. dialog' = Closed /\ UNCHANGED <<today, date, base>>
    BY <1>12 DEF MarkPaid
  <2>3. /\ nisab' \in Int /\ paidYear' \in AllYears \cup {NoYear}
        /\ notified' \in AllYears \cup {NoYear}
    BY <1>12, <2>1 DEF MarkPaid, ZakatTypeOK
  <2>4. /\ assessed' \subseteq AllYears /\ paid' \subseteq assessed' /\ paid \subseteq paid'
        /\ unrecorded' \subseteq AllYears /\ unrecorded \subseteq unrecorded'
    BY <1>12, <2>1 DEF MarkPaid, ZakatTypeOK
  <2>5. ClaimIsPaid'
    <3>1. CASE /\ "zakat_notified_year" \in Reached(done) \ failed
               /\ failed \cap {"insertOrIgnore", "markPaid"} = {}
      <4>1. /\ "insertOrIgnore" \in Reached(done) \ failed
            /\ "markPaid" \in Reached(done) \ failed
        BY <3>1, ClaimIsLast
      <4>2. notified' = year /\ year \in assessed' /\ paid' = paid \cup ({year} \cap assessed')
        BY <1>12, <3>1, <4>1 DEF MarkPaid
      <4>3. QED
        BY <4>2 DEF ClaimIsPaid
    <3>2. CASE /\ "zakat_notified_year" \in Reached(done) \ failed
               /\ failed \cap {"insertOrIgnore", "markPaid"} # {}
      <4>1. notified' = year /\ unrecorded' = unrecorded \cup {year}
        BY <1>12, <3>2 DEF MarkPaid
      <4>2. QED
        BY <4>1 DEF ClaimIsPaid
    <3>3. CASE "zakat_notified_year" \notin Reached(done) \ failed
      <4>1. notified' = notified
        BY <1>12, <3>3 DEF MarkPaid
      <4>2. QED
        BY <2>4, <4>1 DEF ClaimIsPaid
    <3>4. QED
      BY <3>1, <3>2, <3>3
  <2>6. ZakatTypeOK' /\ AsksForItsYear'
    BY <1>12, <2>2, <2>3, <2>4, ClosedType DEF ZakatTypeOK, AsksForItsYear, DialogType
  <2>7. QED
    BY <2>5, <2>6
<1>13. CASE PayZakat
  <2>1. Len(Statements) \in 0 .. Len(Statements)
    BY DEF Statements
  <2>2. PICK failed : MarkPaid(Len(Statements), failed)
    BY <1>13 DEF PayZakat
  <2>3. running' \in BOOLEAN /\ checked' \in BOOLEAN
    BY <1>13 DEF PayZakat, ZakatTypeOK, program
  <2>4. QED
    BY <1>12, <2>1, <2>2, <2>3
<1>14. CASE DieWhilePaying
  <2>1. PICK done \in 0 .. Len(Statements) - 1 : \E failed : MarkPaid(done, failed)
    BY <1>14 DEF DieWhilePaying
  <2>2. PICK failed : MarkPaid(done, failed)
    BY <2>1
  <2>3. done \in 0 .. Len(Statements)
    BY DEF Statements
  <2>4. QED
    BY <1>12, <1>14, <2>2, <2>3 DEF DieWhilePaying
<1>15. CASE UNCHANGED zakatVars
  BY <1>15 DEF zakatVars, ZakatTypeOK, ClaimIsPaid, AsksForItsYear
<1>16. QED
  BY <1>1, <1>2, <1>3, <1>4, <1>5, <1>6, <1>7, <1>8, <1>9, <1>10, <1>11, <1>13, <1>14, <1>15
     DEF ZakatNext

\* The invariant holds of every reachable state.
THEOREM ZakatInvCorrect == ZakatSpec => []ZakatInv
BY ZakatInitInv, ZakatNextInv, PTL DEF ZakatSpec

\* Every variable keeps its type.
THEOREM ZakatTypeCorrect == ZakatSpec => []ZakatTypeOK
<1>1. ZakatInv => ZakatTypeOK
  BY DEF ZakatInv
<1>2. QED
  BY <1>1, ZakatInvCorrect, PTL

----------------------------------------------------------------------------
(* The two promises. *)

\* A claim for the year would be a payment, recorded or failed to be, so a year that
\* is owed is not claimed.
THEOREM AskedWhileOwedCorrect == ZakatSpec => AskedWhileOwed
<1> DEFINE Asks == (CheckZakat /\ InWindow(today, date) /\ YearFor(today, date) \notin paid \cup unrecorded)
                       => dialog'.open
<1>1. ZakatInv => Asks
  <2> SUFFICES ASSUME ZakatInv, CheckZakat, InWindow(today, date),
                      YearFor(today, date) \notin paid \cup unrecorded
               PROVE  dialog'.open
    OBVIOUS
  <2>1. YearFor(today, date) # NoYear
    BY DEF ZakatInv, ZakatTypeOK, InWindow, YearFor, AllYears, NoYear
  <2>2. notified # YearFor(today, date)
    BY <2>1 DEF ZakatInv, ClaimIsPaid
  <2>3. ShouldNotify
    BY <2>2 DEF ShouldNotify
  <2>4. QED
    BY <2>3 DEF CheckZakat, Closed
<1>2. ZakatSpec => [][Asks]_zakatVars
  BY <1>1, ZakatInvCorrect, PTL
<1>3. QED
  BY <1>2 DEF AskedWhileOwed

\* The year of the click is the year that was asked for.
THEOREM PaysTheYearAskedCorrect == ZakatSpec => PaysTheYearAsked
<1> DEFINE Settles == /\ paid' \ paid \subseteq {dialog.asked}
                      /\ notified' \in {notified, dialog.asked}
                      /\ paidYear' \in {paidYear, dialog.asked}
<1>1. ZakatInv /\ ZakatNext => Settles
  <2> SUFFICES ASSUME ZakatInv, ZakatNext PROVE Settles
    OBVIOUS
  <2>1. ASSUME NEW done, NEW failed, MarkPaid(done, failed) PROVE Settles
    <3>1. YearFor(today, date) = dialog.asked
      BY <2>1 DEF MarkPaid, ZakatInv, AsksForItsYear
    <3>2. QED
      BY <2>1, <3>1 DEF MarkPaid
  <2>2. CASE PayZakat
    BY <2>1, <2>2 DEF PayZakat
  <2>3. CASE DieWhilePaying
    BY <2>1, <2>3 DEF DieWhilePaying
  <2>4. CASE ~PayZakat /\ ~DieWhilePaying
    <3>1. paid' = paid /\ notified' = notified /\ paidYear' = paidYear
      BY <2>4 DEF ZakatNext, Tick, Trade, StartProgram, CheckZakat, StopProgram, SaveDate, TypePrice, ClearPrice,
                  SaveNisab, Calculate, Later, settings, history
    <3>2. QED
      BY <3>1
  <2>5. QED
    BY <2>2, <2>3, <2>4
<1>2. ZakatSpec => [][Settles]_zakatVars
  BY <1>1, ZakatInvCorrect, PTL DEF ZakatSpec
<1>3. QED
  BY <1>2 DEF PaysTheYearAsked
=============================================================================
