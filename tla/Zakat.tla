------------------------------- MODULE Zakat -------------------------------
(***************************************************************************)
(* The yearly zakat: the reminder at the start of the program, the dialog  *)
(* it opens, and what paying writes.                                       *)
(*                                                                         *)
(* A payment is seven statements, each committed on its own, the last of   *)
(* which silences the reminder for the year; the program can die between   *)
(* any two, and goes on to the next when one of them fails.  The dialog is *)
(* modal, but the days go by and other devices trade while it waits.       *)
(***************************************************************************)
EXTENDS Integers, Sequences

CONSTANTS
    Years,        \* bound: calendar years of the model
    LeapYears,    \* those that have the leap day
    YearDays,     \* days of a leap year, numbered from 1
    LeapDay,      \* the number of 29 February
    Window,       \* kReminderWindowDays
    Grams,        \* kNisabGrams
    Prices,       \* prices of a gram that are typed
    Bases         \* amounts the zakat base takes

ASSUME ZakatAssumption ==
    /\ Years \in Nat \ {0} /\ LeapYears \subseteq 1 .. Years
    /\ YearDays \in Nat /\ LeapDay \in 2 .. YearDays
    /\ Window \in Nat /\ Grams \in Nat \ {0}
    /\ Prices \subseteq Nat \ {0} /\ Bases \subseteq Int

AllYears == 1 .. Years
Days == 1 .. YearDays
NoYear == 0          \* no setting
NoDay == 0           \* a zakat_date that is empty or no date
Unreadable == -1     \* nisabCents while the price cannot be read

VARIABLES
    today,      \* [year, day]
    date,       \* settings.zakat_date: the day of the year, or NoDay
    notified,   \* settings.zakat_notified_year
    paidYear,   \* settings.zakat_paid_year
    nisab,      \* settings.nisab_cents
    assessed,   \* zakat_history: the years that have a row
    paid,       \* zakat_history: those of them that are paid
    unrecorded, \* history: years of a payment whose row failed to be written
    base,       \* zakatBaseCents of a report made now
    running,    \* whether the program runs
    checked,    \* m_zakatCheckedThisSession
    dialog      \* the dialog, or Closed

settings == <<date, notified, paidYear, nisab>>
history == <<assessed, paid, unrecorded>>
program == <<running, checked>>
zakatVars == <<today, date, notified, paidYear, nisab, assessed, paid, unrecorded, base, running,
              checked, dialog>>

\* "asked" is the zakat year the dialog came up for (ghost), "nisab" and "due" what
\* its labels hold, "button" whether the payment can be marked.
Closed == [open |-> FALSE, asked |-> NoYear, nisab |-> Unreadable, due |-> 0, button |-> FALSE]

----------------------------------------------------------------------------
(* core/zakat_notifier.cpp *)

\* The day the date falls on in a year.
Occurrence(y, z) == IF z = LeapDay /\ y \notin LeapYears THEN LeapDay - 1 ELSE z

\* Bug: the calendar year.
CalendarYear(t, z) == t.year

\* zakatYearFor: before the date it is still the year before.
YearFor(t, z) ==
    IF z = NoDay \/ t.day >= Occurrence(t.year, z) THEN t.year ELSE t.year - 1

\* Days from one day of a year to a later one.
DaysBetween(y, a, b) == b - a - (IF a < LeapDay /\ LeapDay <= b /\ y \notin LeapYears THEN 1 ELSE 0)

\* The days after the date, as far as they are days of the same calendar year.
InWindow(t, z) ==
    /\ z # NoDay
    /\ t.day >= Occurrence(t.year, z)
    /\ DaysBetween(t.year, Occurrence(t.year, z), t.day) <= Window

\* Reads only: asking does not claim the year.
ShouldNotify == InWindow(today, date) /\ notified # YearFor(today, date)

----------------------------------------------------------------------------
(* The program and the world around it. *)

NextDay(t) ==
    LET n == IF t.day + 1 = LeapDay /\ t.year \notin LeapYears THEN t.day + 2 ELSE t.day + 1
    IN  IF n > YearDays THEN [year |-> t.year + 1, day |-> 1] ELSE [year |-> t.year, day |-> n]

\* The calendar goes on.  Bound: the dialog is answered before the date comes again.
Tick ==
    /\ today' = NextDay(today)
    /\ today'.year \in AllYears
    /\ dialog.open => \/ today'.year = dialog.asked
                      \/ today'.day < Occurrence(today'.year, date)
    /\ UNCHANGED <<settings, history, base, program, dialog>>

\* Sales of this till or of another device.
Trade ==
    /\ base' \in Bases \ {base}
    /\ UNCHANGED <<today, settings, history, program, dialog>>

StartProgram ==
    /\ ~running
    /\ running' = TRUE /\ checked' = FALSE
    /\ UNCHANGED <<today, settings, history, base, dialog>>

\* SettingsPage::save.  What was typed is kept, a date or not; it claims nothing.
SaveDate(z) ==
    /\ running /\ ~dialog.open /\ z # date
    /\ date' = z
    /\ UNCHANGED <<today, notified, paidYear, nisab, history, base, program, dialog>>

\* Two and a half seconds after the start, once.
CheckZakat ==
    /\ running /\ ~checked
    /\ checked' = TRUE
    /\ dialog' = IF ShouldNotify
                 THEN [Closed EXCEPT !.open = TRUE, !.asked = YearFor(today, date)]
                 ELSE dialog
    /\ UNCHANGED <<today, settings, history, base, running>>

\* Closed, or killed: the dialog is gone with what it showed.
StopProgram ==
    /\ running
    /\ running' = FALSE /\ checked' = FALSE /\ dialog' = Closed
    /\ UNCHANGED <<today, settings, history, base>>

----------------------------------------------------------------------------
(* ui/dialogs/zakat_dialog.cpp *)

\* recomputeNisab on another price: the verdict and the button stay.
TypePrice(p) ==
    /\ dialog.open /\ dialog.nisab # p * Grams
    /\ dialog' = [dialog EXCEPT !.nisab = p * Grams]
    /\ UNCHANGED <<today, settings, history, base, program>>

\* On one that cannot be read the figures and the button go.
ClearPrice ==
    /\ dialog.open /\ dialog.nisab # Unreadable
    /\ dialog' = [dialog EXCEPT !.nisab = Unreadable, !.button = FALSE]
    /\ UNCHANGED <<today, settings, history, base, program>>

SaveNisab ==
    /\ dialog.open /\ dialog.nisab # Unreadable
    /\ nisab' = dialog.nisab
    /\ UNCHANGED <<today, date, notified, paidYear, history, base, program, dialog>>

\* 2.5 percent, rounded towards zero.
ZakatOn(b) == IF b >= 0 THEN (b * 25) \div 1000 ELSE -((-b * 25) \div 1000)

Calculate ==
    /\ dialog.open /\ dialog.nisab # Unreadable
    /\ dialog' = [dialog EXCEPT !.due = ZakatOn(base), !.button = base >= dialog.nisab]
    /\ UNCHANGED <<today, settings, history, base, program>>

\* "Plus tard", or the corner of the window: nothing is claimed.
Later ==
    /\ dialog.open
    /\ dialog' = Closed
    /\ UNCHANGED <<today, settings, history, base, program>>

\* Bug: the reminder is silenced before the payment is in the history.
ClaimFirst == <<"nisab_cents", "zakat_paid_year", "zakat_notified_year", "zakat_paid_cents",
                "zakat_paid_date", "insertOrIgnore", "markPaid">>

\* What the button executes, in order.
Statements == <<"nisab_cents", "zakat_paid_year", "zakat_paid_cents", "zakat_paid_date",
                "insertOrIgnore", "markPaid", "zakat_notified_year">>

\* Those among them that write something the model keeps.
Telling == {"nisab_cents", "zakat_paid_year", "insertOrIgnore", "markPaid", "zakat_notified_year"}

\* The first "done" of them.
Reached(done) == {Statements[k] : k \in 1 .. done}

\* The year is that of the day of the click.  Nobody looks at what a statement
\* returned: those of "failed" wrote nothing, and markPaid finds no row where none
\* was written.
MarkPaid(done, failed) ==
    LET year == YearFor(today, date)
        ran == Reached(done) \ failed
    IN
    /\ dialog.open /\ dialog.button /\ dialog.nisab # Unreadable
    /\ nisab' = IF "nisab_cents" \in ran THEN dialog.nisab ELSE nisab
    /\ paidYear' = IF "zakat_paid_year" \in ran THEN year ELSE paidYear
    /\ assessed' = IF "insertOrIgnore" \in ran THEN assessed \cup {year} ELSE assessed
    /\ paid' = IF "markPaid" \in ran THEN paid \cup ({year} \cap assessed') ELSE paid
    /\ unrecorded' = IF failed \cap {"insertOrIgnore", "markPaid"} # {}
                     THEN unrecorded \cup {year} ELSE unrecorded
    /\ notified' = IF "zakat_notified_year" \in ran THEN year ELSE notified
    /\ dialog' = Closed
    /\ UNCHANGED <<today, date, base>>

\* All of them, whatever fails, and the dialog closes.
PayZakat ==
    /\ \E failed \in SUBSET Telling : MarkPaid(Len(Statements), failed)
    /\ UNCHANGED program

\* The program dies after some of them.
DieWhilePaying ==
    /\ \E done \in 0 .. Len(Statements) - 1 :
          \E failed \in SUBSET (Reached(done) \cap Telling) : MarkPaid(done, failed)
    /\ running' = FALSE /\ checked' = FALSE

----------------------------------------------------------------------------
ZakatInit ==
    /\ today = [year |-> 1, day |-> 1]
    /\ date = NoDay /\ notified = NoYear /\ paidYear = NoYear /\ nisab = 0
    /\ assessed = {} /\ paid = {} /\ unrecorded = {}
    /\ base \in Bases
    /\ running = FALSE /\ checked = FALSE /\ dialog = Closed

ZakatNext ==
    \/ Tick \/ Trade
    \/ StartProgram \/ CheckZakat \/ StopProgram
    \/ \E z \in Days \cup {NoDay} : SaveDate(z)
    \/ \E p \in Prices : TypePrice(p)
    \/ ClearPrice \/ SaveNisab \/ Calculate \/ Later \/ PayZakat \/ DieWhilePaying

ZakatSpec == ZakatInit /\ [][ZakatNext]_zakatVars

----------------------------------------------------------------------------
(* Properties. *)

ZakatTypeOK ==
    /\ today \in [year : AllYears, day : Days]
    /\ date \in Days \cup {NoDay}
    /\ notified \in AllYears \cup {NoYear} /\ paidYear \in AllYears \cup {NoYear}
    /\ nisab \in Int
    /\ assessed \subseteq AllYears /\ paid \subseteq assessed
    /\ unrecorded \subseteq AllYears
    /\ base \in Bases
    /\ running \in BOOLEAN /\ checked \in BOOLEAN
    /\ dialog \in [open : BOOLEAN, asked : {NoYear} \cup AllYears, nisab : Int, due : Int,
                   button : BOOLEAN]

\* zakat_notifier.cpp ("a dialog that merely declined used to burn the claim and the
\* shop was never asked again"): whatever was put off, or cut short by the end of
\* the program, a start of the program in the days after the date asks for the
\* zakat of a year that the history does not have as paid, unless the very row of
\* the history failed to be written.
AskedWhileOwed ==
    [][ (CheckZakat /\ InWindow(today, date) /\ YearFor(today, date) \notin paid \cup unrecorded)
            => dialog'.open ]_zakatVars

\* zakat_dialog.cpp ("a shop whose zakat date falls later in the year than today is
\* still in the year before"): the payment settles the year the reminder asked for,
\* in the settings, in the history and in the claim, though the dialog may have
\* stayed on the screen past the end of the calendar year.
PaysTheYearAsked ==
    [][ /\ paid' \ paid \subseteq {dialog.asked}
        /\ notified' \in {notified, dialog.asked}
        /\ paidYear' \in {paidYear, dialog.asked} ]_zakatVars
=============================================================================
