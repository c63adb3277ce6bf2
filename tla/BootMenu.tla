----------------------------- MODULE BootMenu ------------------------------
(***************************************************************************)
(* The interactive menu of r-boot: Menu::select and, inside it, the        *)
(* configuration screen Menu::edit_config.                                 *)
(*                                                                         *)
(* The program waits on two firmware events, a keystroke and a periodic    *)
(* timer, that are signalled independently of it; the model keeps both     *)
(* signals.  It also keeps what is on the display: after the first draw    *)
(* the program rewrites single characters and lines, and what it leaves    *)
(* there has to be what a full redraw would show.                          *)
(*                                                                         *)
(* Entries, rows and pages count from 0 as in the code.                    *)
(***************************************************************************)
EXTENDS Integers, FiniteSets

CONSTANTS
    NumEntries,      \* entries found, at least one
    EntriesPerPage,
    DefaultEntry,    \* default_index
    MaxTimeout,      \* bound on the timeout, in seconds
    InitialTimeout,  \* configured timeout, 5 if there is none
    SpinnerModes, NextMode,   \* spinner modes and the cycle through them
    InitialImages,   \* splash image of each entry
    IdOf,            \* id of each entry, whichever loader's it is
    Identified,      \* entries with an `id` line in r-boot.toml
    MaxVisits        \* bound on visits to the configuration screen

ASSUME SizesAssumption == NumEntries \in Nat \ {0} /\ EntriesPerPage \in Nat \ {0}
ASSUME DefaultAssumption == DefaultEntry \in 0 .. NumEntries - 1
ASSUME TimeoutAssumption == MaxTimeout \in Nat /\ InitialTimeout \in 0 .. MaxTimeout
                        /\ MaxVisits \in Nat
\* Every mode has the next one and is the next of another.
ASSUME ModesAssumption == /\ "graphical" \in SpinnerModes
                          /\ NextMode \in [SpinnerModes -> SpinnerModes]
                          /\ \A m \in SpinnerModes : \E p \in SpinnerModes : NextMode[p] = m
ASSUME ImagesAssumption == /\ InitialImages \in [0 .. NumEntries - 1 -> {"none", "nixos", "linux"}]
                           /\ Identified \subseteq 0 .. NumEntries - 1

Indexes == 0 .. NumEntries - 1
Images == {"none", "nixos", "linux"}
None == -1   \* no countdown, no cursor
NoKey == "nokey"

\* What the menu distinguishes among keys.  "reset" stands for r, s and f,
\* "screen" for t and e (another screen, then back), "other" for every key the
\* open screen ignores and for a key event that read_key finds no key behind.
Keys == {"up", "down", "left", "right", "enter", "escape",
         "reset", "screen", "chainload", "config", "other"}

Fields == 0 .. 3   \* rows of the configuration screen

VARIABLES
    outcome,    \* "open" while select runs, then "boot", "reset", "chain", "error"
    selected,   \* the entry selected
    remaining,  \* seconds left of the countdown, or None
    timer,      \* the periodic timer is set
    expired,    \* its event is signalled
    waited,     \* seconds since the countdown was started, 0 without one, for a property
    byTimer,    \* the entry booted because the countdown ended
    offered,    \* the entry selected when the countdown was started, None once
                \* a key was pressed, for a property
    typed,      \* the keystroke that is waiting, or NoKey
    screen,     \* the menu on the display: [page, markers, status]
    cursor,     \* row of the configuration screen, None while it is closed
    draft,      \* the values being edited: [timeout, spinner, logo, image]
    form,       \* that screen on the display: [markers, values]
    visits,     \* how often it was opened
    settings,   \* in memory: [timeout, spinner, logo]
    images,     \* in memory: entry -> splash image
    saved       \* in r-boot.toml: [whole, settings, images]

input == <<timer, expired, waited, typed>>
config == <<cursor, draft, form, visits>>
memory == <<settings, images, saved>>
history == <<byTimer, offered>>
vars == <<outcome, selected, remaining, history, screen, input, config, memory>>

(***************************************************************************)
(* Pages.                                                                  *)
(***************************************************************************)
Least(a, b) == IF a < b THEN a ELSE b
Greatest(a, b) == IF a > b THEN a ELSE b

PageCount == (NumEntries + EntriesPerPage - 1) \div EntriesPerPage
PageFor(e) == e \div EntriesPerPage

\* Mutant: a page change to a short last page keeps the row.
SameRowOnPage(e, page) == page * EntriesPerPage + (e % EntriesPerPage)

\* The entry in the same row of another page, or the last one there.
EntryOnPage(e, page) ==
    LET first == page * EntriesPerPage
        last  == Least(first + EntriesPerPage, NumEntries)
    IN  first + Least(e % EntriesPerPage, last - first - 1)

(***************************************************************************)
(* The display.                                                            *)
(***************************************************************************)

\* draw: everything anew.
Drawn(e, left) ==
    [page |-> PageFor(e), markers |-> {e % EntriesPerPage}, status |-> left]

\* Mutant: the old marker is not erased.
MarkerAdded(old, previous, e, left) ==
    IF PageFor(previous) # PageFor(e)
    THEN Drawn(e, left)
    ELSE [old EXCEPT !.markers = @ \cup {e - PageFor(e) * EntriesPerPage}]

\* move_selection: two characters, unless the page changes.
MarkerMoved(old, previous, e, left) ==
    IF PageFor(previous) # PageFor(e)
    THEN Drawn(e, left)
    ELSE LET first == PageFor(e) * EntriesPerPage
         IN  [old EXCEPT !.markers = (@ \ {previous - first}) \cup {e - first}]

\* The configuration screen while it is closed.
NoDraft == [timeout |-> 0, spinner |-> "graphical", logo |-> TRUE, image |-> "none"]
NoForm == [markers |-> {}, values |-> NoDraft]

\* The entries with a marker on the display.
Marked == {screen.page * EntriesPerPage + row : row \in screen.markers}

(***************************************************************************)
(* The countdown and the keys of the menu.                                 *)
(***************************************************************************)

\* Mutant: the timer is created but not set.
TimerCreated == timer = FALSE

TimerSet == timer = (InitialTimeout # 0)

Init ==
    /\ selected = DefaultEntry
    /\ settings = [timeout |-> InitialTimeout, spinner |-> "graphical", logo |-> TRUE]
    /\ images = InitialImages
    /\ saved = [whole |-> TRUE, settings |-> settings, images |-> images]
    /\ remaining = IF InitialTimeout = 0 THEN None ELSE InitialTimeout
    /\ outcome = IF InitialTimeout = 0 THEN "boot" ELSE "open"
    /\ TimerSet
    /\ byTimer = (InitialTimeout = 0)
    /\ offered = selected
    /\ expired = FALSE
    /\ waited = 0
    /\ typed = NoKey
    /\ screen = Drawn(selected, remaining)
    /\ cursor = None
    /\ draft = NoDraft
    /\ form = NoForm
    /\ visits = 0

\* The keys that make a difference on the screen that is open.
KeysHere ==
    IF cursor # None THEN Keys \ {"reset", "screen", "chainload", "config"}
    ELSE Keys \ ({"escape"} \cup (IF visits < MaxVisits THEN {} ELSE {"config"}))

\* Someone presses a key.
Press(k) ==
    /\ k \in KeysHere
    /\ outcome = "open"
    /\ typed = NoKey
    /\ typed' = k
    /\ offered' = None
    /\ UNCHANGED <<outcome, selected, remaining, byTimer, screen, timer, expired, waited,
                   config, memory>>

\* A second passes while the timer is set.
TimerFires ==
    /\ outcome = "open"
    /\ timer
    /\ expired' = TRUE
    /\ waited' = Least(waited + 1, MaxTimeout)
    /\ UNCHANGED <<outcome, selected, remaining, history, screen, timer, typed, config, memory>>

\* The program is waiting for an event on the menu screen.
AtMenu == outcome = "open" /\ cursor = None

\* Mutant: the timer is looked at before the keyboard.
TimerSignalled == expired

\* wait_for_event gives the keyboard's event precedence.
TimerAlone == expired /\ typed = NoKey

LastSecond == remaining = 1

Tick ==
    /\ AtMenu
    /\ remaining # None
    /\ TimerAlone
    /\ expired' = FALSE
    /\ IF LastSecond
       THEN outcome' = "boot" /\ byTimer' = TRUE /\ UNCHANGED <<remaining, screen>>
       ELSE /\ remaining' = remaining - 1
            /\ screen' = [screen EXCEPT !.status = remaining - 1]
            /\ UNCHANGED <<outcome, byTimer>>
    /\ UNCHANGED <<selected, offered, timer, waited, typed, config, memory>>

\* Mutant: the timer runs on when a key is pressed.
StopCountdownOnly == remaining' = None /\ waited' = 0 /\ UNCHANGED timer

\* Cancelling a timer does not take back the signal of its event.
StopCountdown == remaining' = None /\ waited' = 0 /\ timer' = FALSE

\* Any key stops the countdown.
Take(k) ==
    /\ AtMenu
    /\ typed = k
    /\ typed' = NoKey
    /\ StopCountdown

\* The status line as update_status leaves it.
Stopped == [screen EXCEPT !.status = None]

Select(e) ==
    /\ selected' = e
    /\ screen' = MarkerMoved(Stopped, selected, e, None)
    /\ UNCHANGED <<outcome, history, expired, config, memory>>

Up == Take("up") /\ Select(IF selected = 0 THEN NumEntries - 1 ELSE selected - 1)

Down == Take("down") /\ Select((selected + 1) % NumEntries)

TurnTo(page) ==
    /\ selected' = EntryOnPage(selected, page)
    /\ screen' = Drawn(selected', None)
    /\ UNCHANGED <<outcome, history, expired, config, memory>>

Left == Take("left") /\ TurnTo(Greatest(PageFor(selected) - 1, 0))

Right == Take("right") /\ TurnTo(Least(PageFor(selected) + 1, PageCount - 1))

\* The menu is left: Enter, r, s and f.
LeaveMenu(k, how) ==
    /\ Take(k)
    /\ outcome' = how
    /\ screen' = Stopped
    /\ UNCHANGED <<selected, history, expired, config, memory>>

\* The console and key enrollment take the display over and give it back.
OtherScreen ==
    /\ Take("screen")
    /\ screen' = Drawn(selected, None)
    /\ UNCHANGED <<outcome, selected, history, expired, config, memory>>

\* Chainloading: another loader runs, the user comes back, or it fails
\* and select fails with it.
Chainload ==
    /\ Take("chainload")
    /\ \/ outcome' \in {"chain", "error"} /\ screen' = Stopped
       \/ outcome' = "open" /\ screen' = Drawn(selected, None)
    /\ UNCHANGED <<selected, history, expired, config, memory>>

\* Mutant: the loop goes round without reading the key.
IgnoreUnread ==
    /\ AtMenu
    /\ typed = "other"
    /\ StopCountdown
    /\ screen' = Stopped
    /\ UNCHANGED <<outcome, selected, history, expired, typed, config, memory>>

Ignore ==
    /\ Take("other")
    /\ screen' = Stopped
    /\ UNCHANGED <<outcome, selected, history, expired, config, memory>>

(***************************************************************************)
(* The configuration screen.                                               *)
(***************************************************************************)

\* c: the values edited start as the ones in memory.
Configure ==
    /\ Take("config")
    /\ screen' = Stopped
    /\ cursor' = 0
    /\ visits' = visits + 1
    /\ draft' = [timeout |-> settings.timeout, spinner |-> settings.spinner,
                 logo |-> settings.logo, image |-> images[selected]]
    /\ form' = [markers |-> {0}, values |-> draft']
    /\ UNCHANGED <<outcome, selected, history, expired, memory>>

\* A key read by edit_config.
TakeInForm(k) ==
    /\ outcome = "open"
    /\ cursor # None
    /\ typed = k
    /\ typed' = NoKey
    /\ UNCHANGED <<selected, history, waited>>

MoveCursor(row) ==
    /\ cursor' = row
    /\ form' = [form EXCEPT !.markers = (@ \ {cursor}) \cup {row}]
    /\ UNCHANGED <<outcome, remaining, timer, expired, screen, draft, visits, memory>>

FormUp == TakeInForm("up") /\ MoveCursor(Greatest(cursor - 1, 0))
FormDown == TakeInForm("down") /\ MoveCursor((cursor + 1) % Cardinality(Fields))

NextImage(image) ==
    CASE image = "none" -> "nixos" [] image = "nixos" -> "linux" [] image = "linux" -> "none"
PreviousImage(image) == IF image = "linux" THEN "nixos" ELSE "none"
PreviousMode(m) == CHOOSE p \in SpinnerModes : NextMode[p] = m

\* Left and right change the value in the cursor's row; `timeout` saturates
\* at both ends of its type, here at 0 and MaxTimeout.
Lower(values) ==
    CASE cursor = 0 -> [values EXCEPT !.timeout = Greatest(@ - 1, 0)]
      [] cursor = 1 -> [values EXCEPT !.spinner = PreviousMode(@)]
      [] cursor = 2 -> [values EXCEPT !.logo = ~@]
      [] cursor = 3 -> [values EXCEPT !.image = PreviousImage(@)]
Higher(values) ==
    CASE cursor = 0 -> [values EXCEPT !.timeout = Least(@ + 1, MaxTimeout)]
      [] cursor = 1 -> [values EXCEPT !.spinner = NextMode[@]]
      [] cursor = 2 -> [values EXCEPT !.logo = ~@]
      [] cursor = 3 -> [values EXCEPT !.image = NextImage(@)]

\* update_config_line rewrites the cursor's row, marker included.
RowRewritten(values) ==
    [markers |-> form.markers \cup {cursor},
     values  |-> CASE cursor = 0 -> [form.values EXCEPT !.timeout = values.timeout]
                   [] cursor = 1 -> [form.values EXCEPT !.spinner = values.spinner]
                   [] cursor = 2 -> [form.values EXCEPT !.logo = values.logo]
                   [] cursor = 3 -> [form.values EXCEPT !.image = values.image]]

Change(values) ==
    /\ draft' = values
    /\ form' = RowRewritten(values)
    /\ UNCHANGED <<outcome, remaining, timer, expired, screen, cursor, visits, memory>>

FormLeft == TakeInForm("left") /\ Change(Lower(draft))
FormRight == TakeInForm("right") /\ Change(Higher(draft))

CloseForm == cursor' = None /\ draft' = NoDraft /\ form' = NoForm /\ UNCHANGED visits

Edited == [timeout |-> draft.timeout, spinner |-> draft.spinner, logo |-> draft.logo]

\* Mutant: the image is not changed in memory.
ForgetImage == UNCHANGED images

RememberImage == images' = [images EXCEPT ![selected] = draft.image]

\* Mutant: select goes on with the timeout it has read before.
RestartForOldTimeout ==
    /\ remaining' = IF settings.timeout > 0 THEN settings.timeout ELSE None
    /\ timer' = (settings.timeout > 0)
    /\ expired' \in IF settings.timeout > 0 THEN {expired, FALSE} ELSE {expired}
    /\ waited' = 0

\* Back in select, the countdown is started for the new timeout.  Whether
\* setting a timer takes back an old signal is up to the firmware.
Restart ==
    /\ remaining' = IF draft.timeout > 0 THEN draft.timeout ELSE None
    /\ timer' = (draft.timeout > 0)
    /\ expired' \in IF draft.timeout > 0 THEN {expired, FALSE} ELSE {expired}
    /\ waited' = 0

\* append_entry writes the image to every block with the selected entry's
\* `id` line, be that entry another loader's.
Rewritten ==
    [e \in Indexes |-> IF e \in Identified /\ IdOf[e] = IdOf[selected]
                       THEN draft.image ELSE saved.images[e]]

\* persist_settings succeeds, then memory changes, for the selected entry.
Save ==
    /\ outcome = "open" /\ cursor # None /\ typed = "enter"
    /\ typed' = NoKey
    /\ saved' = [whole |-> TRUE, settings |-> Edited, images |-> Rewritten]
    /\ settings' = Edited
    /\ RememberImage
    /\ Restart /\ offered' = selected
    /\ CloseForm
    /\ screen' = Drawn(selected, remaining')
    /\ UNCHANGED <<outcome, selected, byTimer>>

\* persist_settings fails: nothing in memory changes and select fails, but
\* replacing the file may have got as far as removing the old one.
SaveFailed ==
    /\ TakeInForm("enter")
    /\ outcome' = "error"
    /\ saved' \in {saved, [saved EXCEPT !.whole = FALSE]}
    /\ UNCHANGED <<remaining, timer, expired, screen, config, settings, images>>

Cancel ==
    /\ TakeInForm("escape")
    /\ CloseForm
    /\ screen' = Drawn(selected, remaining)
    /\ UNCHANGED <<outcome, remaining, timer, expired, memory>>

IgnoreInForm ==
    /\ TakeInForm("other")
    /\ UNCHANGED <<outcome, remaining, timer, expired, screen, config, memory>>

(***************************************************************************)
(* The next-state relation.                                                *)
(***************************************************************************)
MenuKey ==
    \/ Up \/ Down \/ Left \/ Right
    \/ LeaveMenu("enter", "boot")
    \/ LeaveMenu("reset", "reset")
    \/ OtherScreen
    \/ Chainload
    \/ Configure
    \/ Ignore

FormKey ==
    \/ FormUp \/ FormDown \/ FormLeft \/ FormRight
    \/ Save
    \/ SaveFailed
    \/ Cancel
    \/ IgnoreInForm

Next ==
    \/ \E k \in Keys : Press(k)
    \/ TimerFires
    \/ Tick
    \/ MenuKey
    \/ FormKey

Spec == Init /\ [][Next]_vars

\* The firmware's clock goes on and the program takes what it waits for;
\* nobody has to press a key.
FairSpec ==
    /\ Spec
    /\ WF_vars(TimerFires)
    /\ WF_vars(Tick)
    /\ WF_vars(MenuKey \/ FormKey)

(***************************************************************************)
(* Properties.                                                             *)
(***************************************************************************)
TypeOK ==
    /\ outcome \in {"open", "boot", "reset", "chain", "error"}
    /\ selected \in Indexes
    /\ remaining \in 1 .. MaxTimeout \cup {None}
    /\ timer \in BOOLEAN /\ expired \in BOOLEAN /\ byTimer \in BOOLEAN
    /\ waited \in 0 .. MaxTimeout
    /\ typed \in Keys \cup {NoKey}
    /\ screen \in [page : 0 .. PageCount - 1, markers : SUBSET (0 .. EntriesPerPage - 1),
                   status : 1 .. MaxTimeout \cup {None}]
    /\ cursor \in Fields \cup {None}
    /\ draft \in [timeout : 0 .. MaxTimeout, spinner : SpinnerModes, logo : BOOLEAN,
                  image : Images]
    /\ settings \in [timeout : 0 .. MaxTimeout, spinner : SpinnerModes, logo : BOOLEAN]
    /\ images \in [Indexes -> Images]
    /\ visits \in 0 .. MaxVisits

\* The lines and characters rewritten one by one leave on the display what a
\* full redraw would: the page, the one marker and the countdown of the menu,
\* and the marker and the values of the configuration screen.
DisplayTruthful ==
    outcome = "open" =>
        IF cursor = None
        THEN screen = Drawn(selected, remaining)
        ELSE form = [markers |-> {cursor}, values |-> draft]

\* The menu carries out BootChoice: whatever keys and seconds interleave, the
\* entry that is booted is the one the marker on the display points at.
Pointed == IF Cardinality(Marked) = 1 THEN CHOOSE e \in Marked : TRUE ELSE None
Choice == INSTANCE BootChoice WITH Entries <- Indexes, marked <- Pointed
BootsWhatIsMarked == Choice!Spec

\* The countdown boots only what was selected when it was started, and only
\* if no key was pressed since, handled or still waiting: key and timer may
\* be signalled together, and a saved timeout starts it on another entry.
CountdownLeftAlone == outcome = "boot" /\ byTimer => offered = selected

\* A countdown is on only as long as no key was handled since it started,
\* and then its timer is set and it has a second left to go: it can neither
\* resume by itself, nor hang, nor pass zero.
CountdownTimed ==
    outcome = "open" => /\ (remaining # None) <=> timer
                        /\ remaining # None => remaining > 0

\* A countdown does not boot before its seconds have passed; one that is
\* started again can be a second short, for the signal of the cancelled
\* timer may still be there.
CountdownNotEarly ==
    outcome = "boot" /\ byTimer => waited >= settings.timeout - 1

\* What r-boot uses for this boot and what r-boot.toml holds for the next
\* agree, also when a save fails: then the file is as it was, or not whole and
\* r-boot stops.  The image of a block is that of the entry with its id that
\* was saved last; other entries with that id keep theirs in memory.
MemoryIsSaved ==
    /\ outcome # "error" => saved.whole
    /\ saved.whole =>
         /\ settings = saved.settings
         /\ \A e \in Identified :
              \E d \in Indexes : IdOf[d] = IdOf[e] /\ images[d] = saved.images[e]

\* With nobody at the keyboard the default entry boots.
UnattendedBoot ==
    [](typed = NoKey) => <>(outcome = "boot" /\ selected = DefaultEntry)

\* No keystroke is left waiting while the menu is open.
KeysAnswered == (typed # NoKey) ~> (typed = NoKey \/ outcome # "open")
============================================================================
