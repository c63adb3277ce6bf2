-------------------------- MODULE BootMenuProofs ---------------------------
(***************************************************************************)
(* The menu keeps its promises for any number of entries, on pages of any  *)
(* size, with any timeout, whatever keys are pressed and whenever the      *)
(* timer's event is signalled: what boots is what the display points at.   *)
(***************************************************************************)
EXTENDS BootMenu, FiniteSetTheorems, TLAPS

Lefts == 1 .. MaxTimeout \cup {None}
Settings == [timeout : 0 .. MaxTimeout, spinner : SpinnerModes, logo : BOOLEAN]
Drafts == [timeout : 0 .. MaxTimeout, spinner : SpinnerModes, logo : BOOLEAN, image : Images]
Copies == [whole : BOOLEAN, settings : Settings, images : [Indexes -> Images]]

\* The menu's lines are always those of the entry selected; the status line
\* is behind only while the configuration screen hides it.
ScreenInv ==
    /\ screen = Drawn(selected, screen.status)
    /\ outcome = "open" /\ cursor = None => screen.status = remaining

\* Opening the configuration screen has stopped the countdown.
FormInv == cursor # None => /\ remaining = None
                            /\ form = [markers |-> {cursor}, values |-> draft]

\* Every second that has been counted has passed, except one that may have
\* been signalled before the countdown was started again.
CountdownInv ==
    outcome = "open" =>
        /\ ~byTimer
        /\ remaining # None =>
             waited + 1 >= settings.timeout - remaining + (IF expired THEN 1 ELSE 0)

MenuInv ==
    /\ TypeOK /\ saved \in Copies
    /\ typed = "config" => visits < MaxVisits
    /\ ScreenInv
    /\ FormInv
    /\ CountdownInv
    /\ CountdownTimed
    /\ CountdownNotEarly
    /\ MemoryIsSaved

-----------------------------------------------------------------------------
(***************************************************************************)
(* Pages.                                                                  *)
(***************************************************************************)
LEMMA Scaled ==
    ASSUME NEW size \in Nat \ {0}, NEW p \in Int, NEW q \in Int, p * size < q * size
    PROVE  p < q
OBVIOUS

LEMMA Divided ==
    ASSUME NEW size \in Nat \ {0}, NEW e \in Nat
    PROVE  /\ e \div size \in Nat
           /\ e % size \in 0 .. size - 1
           /\ e = (e \div size) * size + (e % size)
<1>1. e \div size \in Nat
  OBVIOUS
<1>2. e % size \in 0 .. size - 1
  OBVIOUS
<1>3. e = (e \div size) * size + (e % size)
  OBVIOUS
<1>. QED BY <1>1, <1>2, <1>3

\* The page and the row of an entry, and the entry again.
LEMMA PageAndRow ==
    ASSUME NEW e \in Indexes
    PROVE  /\ PageFor(e) \in 0 .. PageCount - 1
           /\ e % EntriesPerPage \in 0 .. EntriesPerPage - 1
           /\ e = PageFor(e) * EntriesPerPage + (e % EntriesPerPage)
<1>. DEFINE size == EntriesPerPage
            sum == NumEntries + size - 1
            p == e \div size
            q == sum \div size
<1>1. size \in Nat \ {0} /\ NumEntries \in Nat \ {0} /\ e \in Nat /\ sum \in Nat
      /\ e <= NumEntries - 1 /\ sum = NumEntries - 1 + size
  BY SizesAssumption DEF Indexes
<1>2. p \in Nat /\ e % size \in 0 .. size - 1 /\ e = p * size + (e % size)
  BY <1>1, Divided
<1>3. q \in Nat /\ sum % size \in 0 .. size - 1 /\ sum = q * size + (sum % size)
  BY <1>1, Divided
<1>4. p < q
  <2>. HIDE DEF p, q, sum, size
  <2>1. p * size \in Nat /\ q * size \in Nat
    BY <1>1, <1>2, <1>3
  <2>2. p * size <= e /\ sum < q * size + size
    BY <1>1, <1>2, <1>3, <2>1
  <2>3. p * size < q * size
    BY <1>1, <2>1, <2>2
  <2>. QED BY <1>1, <1>2, <1>3, <2>3, Scaled
<1>5. PageFor(e) = p /\ PageCount = q
  BY DEF PageFor, PageCount
<1>. HIDE DEF p, q
<1>. QED BY <1>2, <1>3, <1>4, <1>5

\* Keeping the row on another page never leaves the list.
LEMMA OnPageInList ==
    ASSUME NEW e \in Indexes, NEW page \in 0 .. PageCount - 1
    PROVE  EntryOnPage(e, page) \in Indexes
<1>. DEFINE size == EntriesPerPage
            sum == NumEntries + size - 1
            q == sum \div size
            first == page * size
            row == e % size
<1>1. size \in Nat \ {0} /\ NumEntries \in Nat \ {0} /\ sum \in Nat /\ sum = NumEntries - 1 + size
  BY SizesAssumption
<1>2. q \in Nat /\ sum % size \in 0 .. size - 1 /\ sum = q * size + (sum % size)
  BY <1>1, Divided
<1>3. page \in Nat /\ page + 1 <= q
  BY <1>1, <1>2 DEF PageCount
<1>4. row \in Nat
  BY PageAndRow, <1>1
<1>5. first \in Nat /\ first < NumEntries
  <2>. HIDE DEF q, sum, size
  <2>1. (page + 1) * size <= q * size
    BY <1>1, <1>2, <1>3
  <2>2. (page + 1) * size = page * size + size /\ page * size \in Nat
    BY <1>1, <1>3
  <2>3. q * size <= sum /\ q * size \in Nat
    BY <1>1, <1>2
  <2>. QED BY <1>1, <2>1, <2>2, <2>3
<1>. HIDE DEF first, row
<1>6. EntryOnPage(e, page)
        = first + Least(row, Least(first + size, NumEntries) - first - 1)
  BY DEF EntryOnPage, first, row
<1>. HIDE DEF size
<1>. QED BY <1>1, <1>4, <1>5, <1>6 DEF Least, Indexes

\* A redraw fits the display.
LEMMA DrawnFits ==
    ASSUME NEW e \in Indexes, NEW left \in Lefts
    PROVE  /\ Drawn(e, left) \in [page : 0 .. PageCount - 1,
                                  markers : SUBSET (0 .. EntriesPerPage - 1),
                                  status : 1 .. MaxTimeout \cup {None}]
           /\ Drawn(e, left).status = left
BY PageAndRow DEF Drawn, Lefts

\* Two characters rewritten make a full redraw.
LEMMA MovedIsDrawn ==
    ASSUME NEW e \in Indexes, selected \in Indexes, screen = Drawn(selected, screen.status)
    PROVE  MarkerMoved(Stopped, selected, e, None) = Drawn(e, None)
<1>1. CASE PageFor(selected) # PageFor(e)
  BY <1>1 DEF MarkerMoved
<1>2. CASE PageFor(selected) = PageFor(e)
  <2>. DEFINE first == PageFor(e) * EntriesPerPage
  <2>1. e % EntriesPerPage = e - first /\ selected % EntriesPerPage = selected - first
    <3>1. e % EntriesPerPage \in Int /\ e = first + (e % EntriesPerPage) /\ first \in Int
      BY PageAndRow, SizesAssumption
    <3>2. selected % EntriesPerPage \in Int /\ selected = first + (selected % EntriesPerPage)
      BY PageAndRow, <1>2, SizesAssumption
    <3>. HIDE DEF first
    <3>. QED BY <3>1, <3>2
  <2>2. Stopped = [page |-> PageFor(e), markers |-> {selected - first}, status |-> None]
    BY <2>1, <1>2 DEF Stopped, Drawn
  <2>3. MarkerMoved(Stopped, selected, e, None)
          = [Stopped EXCEPT !.markers = (@ \ {selected - first}) \cup {e - first}]
    BY <1>2 DEF MarkerMoved
  <2>. HIDE DEF first
  <2>. QED BY <2>1, <2>2, <2>3 DEF Drawn
<1>. QED BY <1>1, <1>2

-----------------------------------------------------------------------------
(***************************************************************************)
(* The invariant.                                                          *)
(***************************************************************************)
LEMMA InitMenuInv == Init => MenuInv
<1>. SUFFICES ASSUME Init PROVE MenuInv
  OBVIOUS
<1>1. selected \in Indexes /\ remaining \in Lefts
  BY DefaultAssumption, TimeoutAssumption DEF Init, Indexes, Lefts
<1>2. settings \in Settings /\ settings.timeout = InitialTimeout /\ images \in [Indexes -> Images]
  BY TimeoutAssumption, ModesAssumption, ImagesAssumption DEF Init, Settings, Indexes, Images
<1>3. saved \in Copies /\ saved.whole /\ saved.settings = settings /\ saved.images = images
  BY <1>2 DEF Init, Copies
<1>4. ScreenInv
  BY <1>1, DrawnFits DEF Init, ScreenInv
<1>5. NoDraft \in Drafts
  BY TimeoutAssumption, ModesAssumption DEF NoDraft, Drafts, Images
<1>6. TypeOK
  <2>1. timer \in BOOLEAN /\ byTimer \in BOOLEAN /\ expired \in BOOLEAN
    BY Zenon DEF Init, TimerSet
  <2>2. /\ outcome \in {"open", "boot"} /\ waited = 0 /\ typed = NoKey /\ cursor = None
        /\ draft = NoDraft /\ visits = 0 /\ screen = Drawn(selected, remaining)
    BY DEF Init
  <2>3. screen \in [page : 0 .. PageCount - 1, markers : SUBSET (0 .. EntriesPerPage - 1),
                    status : 1 .. MaxTimeout \cup {None}]
    BY <1>1, <2>2, DrawnFits
  <2>. QED BY <1>1, <1>2, <1>5, <2>1, <2>2, <2>3, TimeoutAssumption
           DEF TypeOK, Lefts, Settings, Drafts
<1>7. FormInv /\ typed # "config"
  BY DEF Init, FormInv, None, NoKey
<1>8. CountdownInv /\ CountdownTimed /\ CountdownNotEarly
  <2>1. waited = 0 /\ expired = FALSE /\ InitialTimeout \in Nat
    BY TimeoutAssumption DEF Init
  <2>2. CASE InitialTimeout = 0
    <3>1. outcome = "boot"
      BY <2>2 DEF Init
    <3>. QED BY <1>2, <2>1, <2>2, <3>1 DEF CountdownInv, CountdownTimed, CountdownNotEarly
  <2>3. CASE InitialTimeout # 0
    <3>1. outcome = "open" /\ remaining = InitialTimeout /\ remaining # None /\ remaining > 0
      BY <2>1, <2>3 DEF Init, None
    <3>2. timer /\ ~byTimer
      BY <2>3 DEF Init, TimerSet
    <3>. QED BY <1>2, <2>1, <3>1, <3>2 DEF CountdownInv, CountdownTimed, CountdownNotEarly
  <2>. QED BY <2>2, <2>3
<1>9. MemoryIsSaved
  <2>1. outcome # "error"
    BY DEF Init
  <2>2. \A e \in Identified :
          \E d \in Indexes : IdOf[d] = IdOf[e] /\ images[d] = saved.images[e]
    BY <1>3, ImagesAssumption DEF Indexes
  <2>. QED BY <1>3, <2>1, <2>2 DEF MemoryIsSaved
<1>. QED BY <1>3, <1>4, <1>6, <1>7, <1>8, <1>9 DEF MenuInv

\* The parts of TypeOK that steps change.
LEMMA Types ==
    ASSUME TypeOK
    PROVE  /\ outcome \in {"open", "boot", "reset", "chain", "error"}
           /\ selected \in Indexes /\ remaining \in Lefts
           /\ timer \in BOOLEAN /\ expired \in BOOLEAN /\ byTimer \in BOOLEAN
           /\ waited \in 0 .. MaxTimeout
           /\ typed \in Keys \cup {NoKey}
           /\ cursor \in Fields \cup {None}
           /\ draft \in Drafts /\ settings \in Settings /\ images \in [Indexes -> Images]
           /\ visits \in 0 .. MaxVisits
BY DEF TypeOK, Lefts, Drafts, Settings

LEMMA PressKeeps ==
    ASSUME MenuInv, NEW k \in Keys, Press(k)
    PROVE  MenuInv'
<1>1. typed' = k /\ outcome = "open"
      /\ UNCHANGED <<outcome, selected, remaining, byTimer, screen, timer, expired, waited,
                     cursor, draft, form, visits, settings, images, saved>>
  BY DEF Press, config, memory
<1>2. TypeOK'
  BY <1>1 DEF MenuInv, TypeOK
<1>3. typed' = "config" => visits' < MaxVisits
  <2>. SUFFICES ASSUME k = "config" PROVE visits < MaxVisits
    BY <1>1
  <2>1. "config" \in KeysHere
    BY DEF Press
  <2>. QED BY <2>1 DEF KeysHere
<1>. QED BY <1>1, <1>2, <1>3
         DEF MenuInv, ScreenInv, FormInv, CountdownInv, CountdownTimed, CountdownNotEarly, MemoryIsSaved,
             Drawn

LEMMA TimerFiresKeeps ==
    ASSUME MenuInv, TimerFires
    PROVE  MenuInv'
<1>1. /\ outcome = "open" /\ timer /\ expired' = TRUE /\ waited' = Least(waited + 1, MaxTimeout)
      /\ UNCHANGED <<outcome, selected, remaining, byTimer, screen, timer, typed,
                     cursor, draft, form, visits, settings, images, saved>>
  BY DEF TimerFires, config, memory, history
<1>2. waited \in 0 .. MaxTimeout /\ waited' \in 0 .. MaxTimeout
  BY <1>1, TimeoutAssumption DEF MenuInv, TypeOK, Least
<1>3. TypeOK'
  BY <1>1, <1>2 DEF MenuInv, TypeOK
<1>4. CountdownInv'
  <2>1. remaining \in Lefts /\ settings.timeout \in 0 .. MaxTimeout /\ expired \in BOOLEAN
    BY Types DEF MenuInv, Settings
  <2>2. ~byTimer /\ (remaining # None => waited + 1 >= settings.timeout - remaining)
    <3>1. (IF expired THEN 1 ELSE 0) \in 0 .. 1
      BY <2>1
    <3>. QED BY <1>1, <1>2, <2>1, <3>1 DEF MenuInv, CountdownInv, Lefts
  <2>3. remaining # None => waited' + 1 >= settings.timeout - remaining + 1
    BY <1>1, <1>2, <2>1, <2>2, TimeoutAssumption DEF Least, Lefts
  <2>. QED BY <1>1, <2>2, <2>3 DEF CountdownInv
<1>. QED BY <1>1, <1>3, <1>4
         DEF MenuInv, ScreenInv, FormInv, CountdownTimed, CountdownNotEarly, MemoryIsSaved, Drawn

LEMMA TickKeeps ==
    ASSUME MenuInv, Tick
    PROVE  MenuInv'
<1>1. /\ outcome = "open" /\ cursor = None /\ remaining # None /\ expired /\ expired' = FALSE
      /\ UNCHANGED <<selected, timer, waited, typed, cursor, draft, form, visits,
                     settings, images, saved>>
  BY DEF Tick, AtMenu, TimerAlone, config, memory
<1>2. /\ remaining \in 1 .. MaxTimeout /\ waited \in 0 .. MaxTimeout
      /\ settings.timeout \in 0 .. MaxTimeout /\ selected \in Indexes
  BY <1>1, Types DEF MenuInv, Lefts, Settings
<1>3. waited + 1 >= settings.timeout - remaining + 1 /\ ~byTimer
  BY <1>1 DEF MenuInv, CountdownInv
<1>4. CASE LastSecond
  <2>1. outcome' = "boot" /\ byTimer' = TRUE /\ UNCHANGED <<remaining, screen>> /\ remaining = 1
    BY <1>4 DEF Tick, LastSecond
  <2>2. CountdownNotEarly'
    BY <1>1, <1>2, <1>3, <2>1 DEF CountdownNotEarly
  <2>3. TypeOK'
    BY <1>1, <2>1 DEF MenuInv, TypeOK
  <2>. QED BY <1>1, <2>1, <2>2, <2>3
           DEF MenuInv, ScreenInv, FormInv, CountdownInv, CountdownTimed, MemoryIsSaved, Drawn
<1>5. CASE ~LastSecond
  <2>1. /\ remaining' = remaining - 1 /\ remaining' \in Lefts /\ remaining' # None
        /\ remaining' > 0
        /\ screen' = [screen EXCEPT !.status = remaining - 1] /\ UNCHANGED <<outcome, byTimer>>
    <3>1. /\ remaining' = remaining - 1 /\ screen' = [screen EXCEPT !.status = remaining - 1]
          /\ outcome' = outcome /\ byTimer' = byTimer
      BY <1>5, Zenon DEF Tick
    <3>2. remaining - 1 \in 1 .. MaxTimeout
      BY <1>2, <1>5, TimeoutAssumption DEF LastSecond
    <3>. QED BY <3>1, <3>2 DEF Lefts, None
  <2>2. screen' = Drawn(selected, remaining')
    <3>1. PICK left : screen = Drawn(selected, left)
      BY DEF MenuInv, ScreenInv
    <3>2. [Drawn(selected, left) EXCEPT !.status = remaining'] = Drawn(selected, remaining')
      BY DEF Drawn
    <3>. QED BY <2>1, <3>1, <3>2
  <2>3. TypeOK'
    BY <1>1, <1>2, <2>1, <2>2, DrawnFits DEF MenuInv, TypeOK, Lefts
  <2>4. ScreenInv'
    BY <1>1, <2>1, <2>2 DEF ScreenInv, Drawn
  <2>5. CountdownInv'
    BY <1>1, <1>2, <1>3, <2>1 DEF CountdownInv
  <2>. QED BY <1>1, <2>1, <2>3, <2>4, <2>5
           DEF MenuInv, FormInv, CountdownTimed, CountdownNotEarly, MemoryIsSaved
<1>. QED BY <1>4, <1>5

\* What every key of the menu has in common: the countdown ends, and what is
\* on the display afterwards is the entry selected.
LEMMA TakeKeeps ==
    ASSUME MenuInv, NEW k, Take(k),
           selected' \in Indexes, screen' = Drawn(selected', None),
           outcome' \in {"open", "boot", "reset", "chain", "error"},
           UNCHANGED <<byTimer, expired, config, memory>>
    PROVE  MenuInv'
<1>1. /\ outcome = "open" /\ cursor = None /\ typed' = NoKey
      /\ remaining' = None /\ waited' = 0 /\ timer' = FALSE
  BY DEF Take, AtMenu, StopCountdown
<1>2. UNCHANGED <<byTimer, expired, cursor, draft, form, visits, settings, images, saved>>
  BY DEF config, memory
<1>3. ~byTimer
  BY <1>1 DEF MenuInv, CountdownInv
<1>4. None \in Lefts /\ 0 \in 0 .. MaxTimeout
  BY TimeoutAssumption DEF Lefts
<1>5. TypeOK'
  BY <1>1, <1>2, <1>4, DrawnFits DEF MenuInv, TypeOK, Lefts
<1>6. ScreenInv'
  BY <1>1, <1>4, DrawnFits DEF ScreenInv
<1>7. (typed = "config" => visits < MaxVisits)'
  BY <1>1 DEF NoKey
<1>8. FormInv' /\ CountdownInv' /\ CountdownTimed' /\ CountdownNotEarly'
  BY <1>1, <1>2, <1>3 DEF FormInv, CountdownInv, CountdownTimed, CountdownNotEarly
<1>9. MemoryIsSaved'
  BY <1>1, <1>2 DEF MenuInv, MemoryIsSaved
<1>. QED BY <1>2, <1>5, <1>6, <1>7, <1>8, <1>9 DEF MenuInv

LEMMA StoppedIsDrawn ==
    ASSUME MenuInv
    PROVE  Stopped = Drawn(selected, None)
<1>1. PICK left : screen = Drawn(selected, left)
  BY DEF MenuInv, ScreenInv
<1>2. [Drawn(selected, left) EXCEPT !.status = None] = Drawn(selected, None)
  BY DEF Drawn
<1>. QED BY <1>1, <1>2 DEF Stopped

LEMMA SelectKeeps ==
    ASSUME MenuInv, NEW k, Take(k), NEW e \in Indexes, Select(e)
    PROVE  MenuInv'
<1>1. selected' = e /\ screen' = MarkerMoved(Stopped, selected, e, None)
      /\ outcome' = outcome /\ UNCHANGED <<byTimer, expired, config, memory>>
  BY DEF Select, history
<1>2. screen' = Drawn(selected', None)
  BY <1>1, MovedIsDrawn DEF MenuInv, ScreenInv, TypeOK
<1>3. outcome' \in {"open", "boot", "reset", "chain", "error"}
  BY <1>1 DEF MenuInv, TypeOK
<1>. QED BY <1>1, <1>2, <1>3, TakeKeeps

LEMMA TurnToKeeps ==
    ASSUME MenuInv, NEW k, Take(k), NEW page \in 0 .. PageCount - 1, TurnTo(page)
    PROVE  MenuInv'
<1>1. selected' = EntryOnPage(selected, page) /\ screen' = Drawn(selected', None)
      /\ outcome' = outcome /\ UNCHANGED <<byTimer, expired, config, memory>>
  BY DEF TurnTo, history
<1>2. selected' \in Indexes
  BY <1>1, OnPageInList DEF MenuInv, TypeOK
<1>3. outcome' \in {"open", "boot", "reset", "chain", "error"}
  BY <1>1 DEF MenuInv, TypeOK
<1>. QED BY <1>1, <1>2, <1>3, TakeKeeps

LEMMA ConfigureKeeps ==
    ASSUME MenuInv, Configure
    PROVE  MenuInv'
<1>1. /\ outcome = "open" /\ cursor = None /\ typed = "config" /\ typed' = NoKey
      /\ remaining' = None /\ waited' = 0 /\ timer' = FALSE
      /\ cursor' = 0 /\ visits' = visits + 1
      /\ draft' = [timeout |-> settings.timeout, spinner |-> settings.spinner,
                   logo |-> settings.logo, image |-> images[selected]]
      /\ form' = [markers |-> {0}, values |-> draft']
      /\ screen' = Stopped
      /\ UNCHANGED <<outcome, selected, byTimer, expired, settings, images, saved>>
  BY DEF Configure, Take, AtMenu, StopCountdown, memory, history
<1>2. ~byTimer /\ visits < MaxVisits
  BY <1>1 DEF MenuInv, CountdownInv
<1>3. selected \in Indexes /\ settings \in Settings /\ images \in [Indexes -> Images]
      /\ visits \in 0 .. MaxVisits
  BY Types DEF MenuInv
<1>4. draft' \in Drafts
  BY <1>1, <1>3 DEF Drafts, Settings
<1>5. screen' = Drawn(selected, None) /\ None \in Lefts
  BY <1>1, StoppedIsDrawn DEF Lefts
<1>6. TypeOK'
  <2>1. visits' \in 0 .. MaxVisits /\ cursor' \in Fields /\ waited' \in 0 .. MaxTimeout
    BY <1>1, <1>2, <1>3, TimeoutAssumption DEF Fields
  <2>2. screen' \in [page : 0 .. PageCount - 1, markers : SUBSET (0 .. EntriesPerPage - 1),
                     status : 1 .. MaxTimeout \cup {None}]
    BY <1>3, <1>5, DrawnFits
  <2>3. typed' = NoKey /\ remaining' = None /\ timer' = FALSE
        /\ UNCHANGED <<outcome, selected, byTimer, expired, settings, images>>
    BY <1>1
  <2>. QED BY <1>4, <2>1, <2>2, <2>3 DEF MenuInv, TypeOK, Drafts
<1>7. ScreenInv'
  <2>1. screen' = Drawn(selected', None) /\ screen'.status = None
    BY <1>1, <1>3, <1>5, DrawnFits
  <2>. QED BY <1>1, <2>1 DEF ScreenInv
<1>8. FormInv' /\ CountdownInv' /\ CountdownTimed' /\ CountdownNotEarly'
  BY <1>1, <1>2 DEF FormInv, CountdownInv, CountdownTimed, CountdownNotEarly
<1>9. MemoryIsSaved' /\ typed' # "config"
  BY <1>1 DEF MenuInv, MemoryIsSaved, NoKey
<1>. QED BY <1>1, <1>6, <1>7, <1>8, <1>9 DEF MenuInv

LEMMA MenuKeyKeeps ==
    ASSUME MenuInv, MenuKey
    PROVE  MenuInv'
<1>1. selected \in Indexes /\ outcome \in {"open", "boot", "reset", "chain", "error"}
  BY Types DEF MenuInv
<1>2. NumEntries \in Nat \ {0}
  BY SizesAssumption
<1>0. PageCount \in Int
  <2>1. NumEntries + EntriesPerPage - 1 \in Nat /\ EntriesPerPage \in Nat \ {0}
    BY SizesAssumption
  <2>. QED BY <2>1, Divided DEF PageCount
<1>3. CASE Up
  <2>1. (IF selected = 0 THEN NumEntries - 1 ELSE selected - 1) \in Indexes
    BY <1>1, <1>2 DEF Indexes
  <2>. QED BY <1>3, <2>1, SelectKeeps DEF Up
<1>4. CASE Down
  <2>1. (selected + 1) % NumEntries \in Indexes
    BY <1>1, <1>2 DEF Indexes
  <2>. QED BY <1>4, <2>1, SelectKeeps DEF Down
<1>5. CASE Left
  <2>1. PageFor(selected) \in 0 .. PageCount - 1
    BY <1>1, PageAndRow
  <2>2. Greatest(PageFor(selected) - 1, 0) \in 0 .. PageCount - 1
    BY <1>0, <2>1 DEF Greatest
  <2>. QED BY <1>5, <2>2, TurnToKeeps DEF Left
<1>6. CASE Right
  <2>1. Least(PageFor(selected) + 1, PageCount - 1) \in 0 .. PageCount - 1
    <3>1. PageFor(selected) \in 0 .. PageCount - 1
      BY <1>1, PageAndRow
    <3>. QED BY <1>0, <3>1 DEF Least
  <2>. QED BY <1>6, <2>1, TurnToKeeps DEF Right
<1>7. ASSUME NEW k, NEW how \in {"boot", "reset"}, LeaveMenu(k, how)
      PROVE  MenuInv'
  <2>1. Take(k) /\ outcome' = how /\ screen' = Stopped /\ selected' = selected
        /\ UNCHANGED <<byTimer, expired, config, memory>>
    BY <1>7 DEF LeaveMenu, history
  <2>. QED BY <1>1, <2>1, StoppedIsDrawn, TakeKeeps
<1>8. CASE OtherScreen
  BY <1>1, <1>8, TakeKeeps DEF OtherScreen, history
<1>9. CASE Chainload
  <2>1. Take("chainload") /\ selected' = selected
        /\ UNCHANGED <<byTimer, expired, config, memory>>
        /\ outcome' \in {"open", "chain", "error"} /\ screen' = Drawn(selected, None)
    BY <1>9, StoppedIsDrawn DEF Chainload, history
  <2>. QED BY <1>1, <2>1, TakeKeeps
<1>10. CASE Configure
  BY <1>10, ConfigureKeeps
<1>11. CASE Ignore
  BY <1>1, <1>11, StoppedIsDrawn, TakeKeeps DEF Ignore, history
<1>. QED BY <1>3, <1>4, <1>5, <1>6, <1>7, <1>8, <1>9, <1>10, <1>11 DEF MenuKey

-----------------------------------------------------------------------------
(***************************************************************************)
(* The configuration screen.                                               *)
(***************************************************************************)

\* What keys that only edit have in common.
LEMMA EditKeeps ==
    ASSUME MenuInv, NEW k, TakeInForm(k),
           cursor' \in Fields, draft' \in Drafts,
           form' = [markers |-> {cursor'}, values |-> draft'],
           UNCHANGED <<outcome, remaining, timer, expired, screen, visits, memory>>
    PROVE  MenuInv'
<1>1. outcome = "open" /\ cursor # None /\ typed' = NoKey
      /\ UNCHANGED <<outcome, selected, remaining, byTimer, timer, expired, waited, screen, visits,
                     settings, images, saved>>
  BY DEF TakeInForm, memory, history
<1>2. remaining' = None
  BY <1>1 DEF MenuInv, FormInv
<1>3. TypeOK'
  BY <1>1 DEF MenuInv, TypeOK, Drafts
<1>4. cursor' # None /\ typed' # "config"
  BY <1>1 DEF Fields, None, NoKey
<1>5. ScreenInv'
  BY <1>1, <1>4 DEF MenuInv, ScreenInv, Drawn
<1>6. FormInv'
  BY <1>2 DEF FormInv
<1>. QED BY <1>1, <1>3, <1>4, <1>5, <1>6
         DEF MenuInv, CountdownInv, CountdownTimed, CountdownNotEarly, MemoryIsSaved

LEMMA FormShown ==
    ASSUME MenuInv, NEW k, TakeInForm(k)
    PROVE  /\ outcome = "open" /\ cursor \in Fields /\ draft \in Drafts /\ remaining = None
           /\ form = [markers |-> {cursor}, values |-> draft]
BY Types DEF MenuInv, TakeInForm, FormInv

LEMMA MoveCursorKeeps ==
    ASSUME MenuInv, NEW k, TakeInForm(k), NEW row \in Fields, MoveCursor(row)
    PROVE  MenuInv'
<1>1. /\ cursor' = row /\ draft' = draft
      /\ form' = [form EXCEPT !.markers = (@ \ {cursor}) \cup {row}]
      /\ UNCHANGED <<outcome, remaining, timer, expired, screen, visits, memory>>
  BY DEF MoveCursor
<1>2. form' = [markers |-> {row}, values |-> draft]
  BY <1>1, FormShown
<1>. QED BY <1>1, <1>2, FormShown, EditKeeps

\* The values after one of Lower and Higher differ from those before it in
\* the cursor's row alone.
OneRow(values) ==
    /\ values \in Drafts
    /\ cursor # 0 => values.timeout = draft.timeout
    /\ cursor # 1 => values.spinner = draft.spinner
    /\ cursor # 2 => values.logo = draft.logo
    /\ cursor # 3 => values.image = draft.image

LEMMA ChangeKeeps ==
    ASSUME MenuInv, NEW k, TakeInForm(k), NEW values, OneRow(values), Change(values)
    PROVE  MenuInv'
<1>1. /\ draft' = values /\ form' = RowRewritten(values) /\ cursor' = cursor
      /\ UNCHANGED <<outcome, remaining, timer, expired, screen, visits, memory>>
  BY DEF Change
<1>2. /\ cursor \in 0 .. 3 /\ draft \in Drafts /\ values \in Drafts
      /\ form = [markers |-> {cursor}, values |-> draft]
  BY FormShown DEF Fields, OneRow
<1>3. RowRewritten(values) = [markers |-> {cursor}, values |-> values]
  <2>1. RowRewritten(values).markers = {cursor}
    BY <1>2 DEF RowRewritten
  <2>2. CASE cursor = 0
    BY <1>2, <2>2 DEF RowRewritten, OneRow, Drafts
  <2>3. CASE cursor = 1
    BY <1>2, <2>3 DEF RowRewritten, OneRow, Drafts
  <2>4. CASE cursor = 2
    BY <1>2, <2>4 DEF RowRewritten, OneRow, Drafts
  <2>5. CASE cursor = 3
    BY <1>2, <2>5 DEF RowRewritten, OneRow, Drafts
  <2>. QED BY <1>2, <2>2, <2>3, <2>4, <2>5
<1>. QED BY <1>1, <1>2, <1>3, EditKeeps DEF Fields

LEMMA ImagesCycle ==
    ASSUME NEW image \in Images
    PROVE  NextImage(image) \in Images /\ PreviousImage(image) \in Images
BY DEF NextImage, PreviousImage, Images

LEMMA ModesCycle ==
    ASSUME NEW mode \in SpinnerModes
    PROVE  NextMode[mode] \in SpinnerModes /\ PreviousMode(mode) \in SpinnerModes
BY ModesAssumption DEF PreviousMode

LEMMA LowerAndHigher ==
    ASSUME cursor \in 0 .. 3, draft \in Drafts
    PROVE  OneRow(Lower(draft)) /\ OneRow(Higher(draft))
<1>1. /\ Greatest(draft.timeout - 1, 0) \in 0 .. MaxTimeout
      /\ Least(draft.timeout + 1, MaxTimeout) \in 0 .. MaxTimeout
  BY TimeoutAssumption DEF Drafts, Greatest, Least
<1>2. CASE cursor = 0
  BY <1>1, <1>2 DEF OneRow, Lower, Higher, Drafts
<1>3. CASE cursor = 1
  BY <1>3, ModesCycle DEF OneRow, Lower, Higher, Drafts
<1>4. CASE cursor = 2
  <2>1. PICK logo \in BOOLEAN : logo = ~draft.logo
    BY Zenon
  <2>2. Lower(draft) = [draft EXCEPT !.logo = ~draft.logo]
        /\ Higher(draft) = [draft EXCEPT !.logo = ~draft.logo]
    BY <1>4 DEF Lower, Higher
  <2>3. Lower(draft) = [draft EXCEPT !.logo = logo] /\ Higher(draft) = [draft EXCEPT !.logo = logo]
    BY <2>1, <2>2, Zenon
  <2>. QED BY <1>4, <2>3 DEF OneRow, Drafts
<1>5. CASE cursor = 3
  BY <1>5, ImagesCycle DEF OneRow, Lower, Higher, Drafts
<1>. QED BY <1>2, <1>3, <1>4, <1>5

\* The countdown that Save starts anew: with the old signal it is a second
\* short, and no more.
LEMMA SaveKeeps ==
    ASSUME MenuInv, Save
    PROVE  MenuInv'
<1>1. /\ outcome = "open" /\ cursor # None /\ typed' = NoKey
      /\ settings' = Edited
      /\ images' = [images EXCEPT ![selected] = draft.image]
      /\ saved' = [whole |-> TRUE, settings |-> Edited, images |-> Rewritten]
      /\ waited' = 0 /\ cursor' = None /\ draft' = NoDraft /\ visits' = visits
      /\ outcome' = outcome /\ selected' = selected /\ byTimer' = byTimer
      /\ screen' = Drawn(selected, remaining')
  BY DEF Save, RememberImage, Restart, CloseForm
<1>2. /\ draft \in Drafts /\ expired \in BOOLEAN /\ selected \in Indexes
      /\ images \in [Indexes -> Images] /\ saved \in Copies
  BY Types DEF MenuInv
<1>3. /\ draft.timeout \in 0 .. MaxTimeout
      /\ remaining' = IF draft.timeout > 0 THEN draft.timeout ELSE None
      /\ remaining' \in Lefts
  BY <1>2 DEF Save, Restart, Drafts, Lefts
<1>4. timer' \in BOOLEAN /\ expired' \in BOOLEAN
  <2>1. timer' \in BOOLEAN
    <3>1. timer' = (draft.timeout > 0)
      BY DEF Save, Restart
    <3>2. CASE draft.timeout > 0
      BY <3>1, <3>2
    <3>3. CASE ~(draft.timeout > 0)
      BY <3>1, <3>3
    <3>. QED BY <3>2, <3>3
  <2>2. expired' \in {expired, FALSE}
    BY DEF Save, Restart
  <2>. QED BY <1>2, <2>1, <2>2
<1>5. settings' \in Settings /\ settings'.timeout = draft.timeout /\ NoDraft \in Drafts
  BY <1>1, <1>2, TimeoutAssumption, ModesAssumption
     DEF Edited, Settings, Drafts, NoDraft, Images
<1>6. images' \in [Indexes -> Images] /\ saved' \in Copies
  BY <1>1, <1>2, <1>5 DEF Drafts, Copies, Rewritten
<1>7. TypeOK'
  <2>1. screen' \in [page : 0 .. PageCount - 1, markers : SUBSET (0 .. EntriesPerPage - 1),
                     status : 1 .. MaxTimeout \cup {None}]
    BY <1>1, <1>2, <1>3, DrawnFits
  <2>2. draft' \in [timeout : 0 .. MaxTimeout, spinner : SpinnerModes, logo : BOOLEAN,
                    image : Images]
        /\ settings' \in [timeout : 0 .. MaxTimeout, spinner : SpinnerModes, logo : BOOLEAN]
        /\ remaining' \in 1 .. MaxTimeout \cup {None} /\ 0 \in 0 .. MaxTimeout
    BY <1>1, <1>3, <1>5, TimeoutAssumption DEF Drafts, Settings, Lefts
  <2>. QED BY <1>1, <1>4, <1>6, <2>1, <2>2 DEF MenuInv, TypeOK
<1>8. ScreenInv' /\ FormInv'
  BY <1>1, <1>2, <1>3, DrawnFits DEF ScreenInv, FormInv
<1>9. CountdownTimed'
  <2>1. CASE draft.timeout > 0
    <3>1. remaining' # None /\ remaining' > 0
      BY <1>3, <2>1 DEF None
    <3>2. timer'
      BY <2>1 DEF Save, Restart
    <3>. QED BY <3>1, <3>2 DEF CountdownTimed
  <2>2. CASE ~(draft.timeout > 0)
    <3>1. remaining' = None
      BY <1>3, <2>2
    <3>2. ~timer'
      BY <2>2 DEF Save, Restart
    <3>. QED BY <3>1, <3>2 DEF CountdownTimed
  <2>. QED BY <2>1, <2>2
<1>10. CountdownInv' /\ CountdownNotEarly'
  <2>1. ~byTimer'
    BY <1>1 DEF MenuInv, CountdownInv
  <2>2. remaining' # None => waited' + 1 >= settings'.timeout - remaining' + (IF expired' THEN 1 ELSE 0)
    BY <1>1, <1>3, <1>4, <1>5
  <2>. QED BY <2>1, <2>2 DEF CountdownInv, CountdownNotEarly
<1>11. MemoryIsSaved'
  <2>1. saved'.whole = TRUE /\ settings' = saved'.settings
    BY <1>1
  <2>2. ASSUME NEW e \in Identified
        PROVE  \E d \in Indexes : IdOf[d] = IdOf[e] /\ images'[d] = saved'.images[e]
    <3>1. e \in Indexes /\ saved'.images[e] = Rewritten[e]
      BY <1>1, ImagesAssumption DEF Indexes
    <3>2. CASE IdOf[e] = IdOf[selected]
      <4>1. Rewritten[e] = draft.image /\ images'[selected] = draft.image
        BY <1>1, <1>2, <3>1, <3>2 DEF Rewritten
      <4>. QED BY <1>2, <3>1, <3>2, <4>1
    <3>3. CASE IdOf[e] # IdOf[selected]
      <4>1. PICK d \in Indexes : IdOf[d] = IdOf[e] /\ images[d] = saved.images[e]
        BY <1>1 DEF MenuInv, MemoryIsSaved
      <4>2. Rewritten[e] = saved.images[e]
        BY <3>1, <3>3 DEF Rewritten
      <4>3. images'[d] = images[d]
        BY <1>1, <1>2, <3>3, <4>1
      <4>. QED BY <3>1, <4>1, <4>2, <4>3
    <3>. QED BY <3>2, <3>3
  <2>. QED BY <2>1, <2>2 DEF MemoryIsSaved
<1>. QED BY <1>1, <1>6, <1>7, <1>8, <1>9, <1>10, <1>11 DEF MenuInv, NoKey

LEMMA SaveFailedKeeps ==
    ASSUME MenuInv, SaveFailed
    PROVE  MenuInv'
<1>1. /\ outcome' = "error" /\ typed' = NoKey
      /\ saved' \in {saved, [saved EXCEPT !.whole = FALSE]}
      /\ UNCHANGED <<selected, byTimer, waited, remaining, timer, expired, screen,
                     cursor, draft, form, visits, settings, images>>
  BY DEF SaveFailed, TakeInForm, config, history
<1>2. saved' \in Copies
  BY <1>1 DEF MenuInv, Copies
<1>3. TypeOK'
  BY <1>1 DEF MenuInv, TypeOK
<1>4. ScreenInv' /\ FormInv'
  BY <1>1 DEF MenuInv, ScreenInv, FormInv, Drawn
<1>5. MemoryIsSaved'
  <2>1. saved'.settings = saved.settings /\ saved'.images = saved.images /\ saved.whole
    BY <1>1 DEF MenuInv, MemoryIsSaved, Copies, SaveFailed, TakeInForm
  <2>. QED BY <1>1, <2>1 DEF MenuInv, MemoryIsSaved
<1>. QED BY <1>1, <1>2, <1>3, <1>4, <1>5
         DEF MenuInv, CountdownInv, CountdownTimed, CountdownNotEarly, NoKey

LEMMA CancelKeeps ==
    ASSUME MenuInv, Cancel
    PROVE  MenuInv'
<1>1. /\ outcome = "open" /\ typed' = NoKey /\ cursor' = None /\ draft' = NoDraft
      /\ screen' = Drawn(selected, remaining)
      /\ UNCHANGED <<outcome, selected, byTimer, waited, remaining, timer, expired, visits,
                     settings, images, saved>>
  BY DEF Cancel, TakeInForm, CloseForm, memory, history
<1>2. NoDraft \in Drafts
  BY TimeoutAssumption, ModesAssumption DEF NoDraft, Drafts, Images
<1>3. selected \in Indexes /\ remaining \in Lefts
  BY Types DEF MenuInv
<1>4. ScreenInv' /\ FormInv'
  BY <1>1, <1>3, DrawnFits DEF ScreenInv, FormInv
<1>5. TypeOK'
  <2>1. screen' \in [page : 0 .. PageCount - 1, markers : SUBSET (0 .. EntriesPerPage - 1),
                     status : 1 .. MaxTimeout \cup {None}]
    BY <1>1, <1>3, DrawnFits
  <2>. QED BY <1>1, <1>2, <2>1 DEF MenuInv, TypeOK, Drafts
<1>. QED BY <1>1, <1>4, <1>5
         DEF MenuInv, CountdownInv, CountdownTimed, CountdownNotEarly, MemoryIsSaved, NoKey

LEMMA FormKeyKeeps ==
    ASSUME MenuInv, FormKey
    PROVE  MenuInv'
<1>1. Cardinality(Fields) = 4
  <2>1. \A a, b \in Int : Cardinality(a .. b) = IF a > b THEN 0 ELSE b - a + 1
    BY FS_Interval, Zenon
  <2>2. 0 \in Int /\ 3 \in Int /\ (IF 0 > 3 THEN 0 ELSE 3 - 0 + 1) = 4
    OBVIOUS
  <2>. QED BY <2>1, <2>2, Zenon DEF Fields
<1>2. CASE FormUp
  <2>1. Greatest(cursor - 1, 0) \in Fields
    BY <1>2, FormShown DEF FormUp, Greatest, Fields
  <2>. QED BY <1>2, <2>1, MoveCursorKeeps DEF FormUp
<1>3. CASE FormDown
  <2>1. (cursor + 1) % Cardinality(Fields) \in Fields
    BY <1>1, <1>3, FormShown DEF FormDown, Fields
  <2>. QED BY <1>3, <2>1, MoveCursorKeeps DEF FormDown
<1>4. CASE FormLeft
  BY <1>4, FormShown, LowerAndHigher, ChangeKeeps DEF FormLeft, Fields
<1>5. CASE FormRight
  BY <1>5, FormShown, LowerAndHigher, ChangeKeeps DEF FormRight, Fields
<1>6. CASE Save
  BY <1>6, SaveKeeps
<1>7. CASE SaveFailed
  BY <1>7, SaveFailedKeeps
<1>8. CASE Cancel
  BY <1>8, CancelKeeps
<1>9. CASE IgnoreInForm
  <2>1. TakeInForm("other")
        /\ UNCHANGED <<outcome, remaining, timer, expired, screen, cursor, draft, form, visits, memory>>
    BY <1>9 DEF IgnoreInForm, config
  <2>. QED BY <2>1, FormShown, EditKeeps
<1>. QED BY <1>2, <1>3, <1>4, <1>5, <1>6, <1>7, <1>8, <1>9 DEF FormKey

LEMMA MenuInvStep == MenuInv /\ [Next]_vars => MenuInv'
<1>. SUFFICES ASSUME MenuInv, [Next]_vars PROVE MenuInv'
  OBVIOUS
<1>1. CASE \E k \in Keys : Press(k)
  BY <1>1, PressKeeps
<1>2. CASE TimerFires
  BY <1>2, TimerFiresKeeps
<1>3. CASE Tick
  BY <1>3, TickKeeps
<1>4. CASE MenuKey
  BY <1>4, MenuKeyKeeps
<1>5. CASE FormKey
  BY <1>5, FormKeyKeeps
<1>6. CASE UNCHANGED vars
  <2>1. UNCHANGED <<outcome, selected, remaining, byTimer, screen, timer, expired, waited, typed,
                    cursor, draft, form, visits, settings, images, saved>>
    BY <1>6 DEF vars, input, config, memory, history
  <2>2. TypeOK'
    BY <2>1 DEF MenuInv, TypeOK
  <2>. QED BY <2>1, <2>2
           DEF MenuInv, ScreenInv, FormInv, CountdownInv, CountdownTimed, CountdownNotEarly,
               MemoryIsSaved, Drawn
<1>. QED BY <1>1, <1>2, <1>3, <1>4, <1>5, <1>6 DEF Next

-----------------------------------------------------------------------------
(***************************************************************************)
(* What the display points at.                                             *)
(***************************************************************************)
LEMMA OneIsMarked ==
    ASSUME ScreenInv, selected \in Indexes
    PROVE  Pointed = selected
<1>1. screen.page = PageFor(selected) /\ screen.markers = {selected % EntriesPerPage}
  <2>1. PICK left : screen = Drawn(selected, left)
    BY DEF ScreenInv
  <2>. QED BY <2>1 DEF Drawn
<1>2. Marked = {PageFor(selected) * EntriesPerPage + (selected % EntriesPerPage)}
  BY <1>1 DEF Marked
<1>3. Marked = {selected}
  BY <1>2, PageAndRow
<1>4. Cardinality({selected}) = 1
  BY FS_Singleton, Zenon
<1>. QED BY <1>3, <1>4 DEF Pointed

LEMMA InitPointed == Init => Choice!Init
<1>. SUFFICES ASSUME Init PROVE Choice!Init
  OBVIOUS
<1>1. MenuInv
  BY InitMenuInv
<1>2. Pointed = selected /\ selected \in Indexes
  BY <1>1, OneIsMarked DEF MenuInv, TypeOK
<1>3. outcome \in {"open", "boot"}
  BY DEF Init
<1>. QED BY <1>2, <1>3 DEF Choice!Init

\* What a step of the menu does to the entry selected and to how the menu ends.
Chosen ==
    \/ UNCHANGED <<selected, outcome>>
    \/ outcome = "open" /\ selected' \in Indexes /\ outcome' = outcome
    \/ outcome = "open" /\ outcome' \in {"boot", "reset", "chain", "error"} /\ selected' = selected

LEMMA NextChooses ==
    ASSUME MenuInv, MenuInv', [Next]_vars
    PROVE  Chosen
<1>1. selected' \in Indexes
  BY DEF MenuInv, TypeOK
<1>2. CASE \E k \in Keys : Press(k)
  BY <1>2 DEF Press, Chosen
<1>3. CASE TimerFires
  BY <1>3 DEF TimerFires, Chosen
<1>4. CASE Tick
  BY <1>4 DEF Tick, AtMenu, Chosen
<1>5. CASE MenuKey
  <2>1. outcome = "open"
    BY <1>5 DEF MenuKey, Up, Down, Left, Right, LeaveMenu, OtherScreen, Chainload, Configure,
                Ignore, Take, AtMenu
  <2>2. CASE Up \/ Down \/ Left \/ Right
    BY <1>1, <2>1, <2>2 DEF Up, Down, Left, Right, Select, TurnTo, Chosen
  <2>3. CASE LeaveMenu("enter", "boot") \/ LeaveMenu("reset", "reset")
    BY <2>1, <2>3 DEF LeaveMenu, Chosen
  <2>4. CASE OtherScreen \/ Chainload \/ Configure \/ Ignore
    BY <2>1, <2>4 DEF OtherScreen, Chainload, Configure, Ignore, Chosen
  <2>. QED BY <1>5, <2>2, <2>3, <2>4 DEF MenuKey
<1>6. CASE FormKey
  <2>1. CASE FormUp \/ FormDown
    BY <2>1 DEF FormUp, FormDown, TakeInForm, MoveCursor, Chosen
  <2>2. CASE FormLeft \/ FormRight
    BY <2>2 DEF FormLeft, FormRight, TakeInForm, Change, Chosen
  <2>3. CASE Save
    BY <2>3 DEF Save, Chosen
  <2>4. CASE SaveFailed
    BY <2>4 DEF SaveFailed, TakeInForm, Chosen
  <2>5. CASE Cancel \/ IgnoreInForm
    BY <2>5 DEF Cancel, IgnoreInForm, TakeInForm, Chosen
  <2>. QED BY <1>6, <2>1, <2>2, <2>3, <2>4, <2>5 DEF FormKey
<1>7. CASE UNCHANGED vars
  BY <1>7 DEF vars, Chosen
<1>. QED BY <1>2, <1>3, <1>4, <1>5, <1>6, <1>7 DEF Next

LEMMA ChosenIsChoice ==
    ASSUME Chosen, Pointed = selected, Pointed' = selected'
    PROVE  [Choice!Next]_<<Pointed, outcome>>
<1>1. CASE UNCHANGED <<selected, outcome>>
  BY <1>1
<1>2. CASE outcome = "open" /\ selected' \in Indexes /\ outcome' = outcome
  <2>1. Choice!Mark(selected')
    BY <1>2 DEF Choice!Mark
  <2>. QED BY <1>2, <2>1 DEF Choice!Next
<1>3. CASE outcome = "open" /\ outcome' = "boot" /\ selected' = selected
  <2>1. Choice!Boot
    BY <1>3 DEF Choice!Boot
  <2>. QED BY <2>1 DEF Choice!Next
<1>4. ASSUME NEW how \in {"reset", "chain", "error"}, outcome = "open", outcome' = how,
             selected' = selected
      PROVE  Choice!Next
  <2>1. Choice!Leave(how)
    BY <1>4 DEF Choice!Leave
  <2>. QED BY <2>1 DEF Choice!Next
<1>. QED BY <1>1, <1>2, <1>3, <1>4 DEF Chosen

\* While a countdown runs and no key is waiting, the entry it was started for
\* is the one selected.
OfferInv ==
    /\ outcome = "open" /\ remaining # None /\ typed = NoKey => offered = selected
    /\ CountdownLeftAlone

LEMMA InitOfferInv == Init => OfferInv
BY DEF Init, OfferInv, CountdownLeftAlone

LEMMA OfferInvStep ==
    ASSUME MenuInv, OfferInv, [Next]_vars
    PROVE  OfferInv'
<1>1. outcome = "open" => ~byTimer
  BY DEF MenuInv, CountdownInv
<1>2. CASE \E k \in Keys : Press(k)
  <2>1. /\ outcome = "open" /\ typed' \in Keys /\ outcome' = "open"
    BY <1>2 DEF Press
  <2>. QED BY <2>1 DEF OfferInv, CountdownLeftAlone, Keys, NoKey
<1>3. CASE TimerFires
  BY <1>3 DEF TimerFires, history, OfferInv, CountdownLeftAlone
<1>4. CASE Tick
  <2>1. /\ outcome = "open" /\ remaining # None /\ typed = NoKey
        /\ UNCHANGED <<selected, offered, typed>>
    BY <1>4 DEF Tick, AtMenu, TimerAlone
  <2>. QED BY <2>1 DEF OfferInv, CountdownLeftAlone
<1>5. CASE MenuKey
  <2>1. outcome = "open" /\ remaining' = None /\ byTimer' = byTimer
    BY <1>5 DEF MenuKey, Up, Down, Left, Right, Select, TurnTo, LeaveMenu, OtherScreen, Chainload,
                Configure, Ignore, Take, AtMenu, StopCountdown, history
  <2>. QED BY <1>1, <2>1 DEF OfferInv, CountdownLeftAlone
<1>6. CASE FormKey
  <2>1. CASE Save
    BY <1>1, <2>1 DEF Save, OfferInv, CountdownLeftAlone
  <2>2. ASSUME NEW k, TakeInForm(k), remaining' = remaining
        PROVE  OfferInv'
    <3>1. outcome = "open" /\ remaining' = None /\ byTimer' = byTimer
      BY <2>2, FormShown DEF TakeInForm, history
    <3>. QED BY <1>1, <3>1 DEF OfferInv, CountdownLeftAlone
  <2>3. CASE FormUp \/ FormDown
    BY <2>2, <2>3 DEF FormUp, FormDown, MoveCursor
  <2>4. CASE FormLeft \/ FormRight
    BY <2>2, <2>4 DEF FormLeft, FormRight, Change
  <2>5. CASE SaveFailed \/ Cancel \/ IgnoreInForm
    BY <2>2, <2>5 DEF SaveFailed, Cancel, IgnoreInForm
  <2>. QED BY <1>6, <2>1, <2>3, <2>4, <2>5 DEF FormKey
<1>7. CASE UNCHANGED vars
  BY <1>7 DEF vars, history, input, OfferInv, CountdownLeftAlone
<1>. QED BY <1>2, <1>3, <1>4, <1>5, <1>6, <1>7 DEF Next

-----------------------------------------------------------------------------
(***************************************************************************)
(* Theorems.                                                               *)
(***************************************************************************)

\* The strengthened invariant of Menu::select and Menu::edit_config, which
\* TypeOK is a part of.
THEOREM MenuInvariance == Spec => []MenuInv
BY InitMenuInv, MenuInvStep, PTL DEF Spec

\* No countdown is started at 0 or goes below 1, and no entry, page or row is
\* selected that is not there.
THEOREM MenuTypes == Spec => []TypeOK
<1>1. MenuInv => TypeOK
  BY DEF MenuInv
<1>. QED BY <1>1, MenuInvariance, PTL

\* Rewriting characters, rows and lines in place is as good as drawing all
\* of a screen anew.
THEOREM DisplayIsTruthful == Spec => []DisplayTruthful
<1>1. MenuInv => DisplayTruthful
  BY DEF MenuInv, ScreenInv, FormInv, DisplayTruthful
<1>. QED BY <1>1, MenuInvariance, PTL

\* The timer runs exactly while a countdown does, and the countdown has a
\* second left whenever it runs.
THEOREM CountdownIsTimed == Spec => []CountdownTimed
<1>1. MenuInv => CountdownTimed
  BY DEF MenuInv
<1>. QED BY <1>1, MenuInvariance, PTL

\* Nothing boots by the timer more than a second before its time.
THEOREM CountdownIsNotEarly == Spec => []CountdownNotEarly
<1>1. MenuInv => CountdownNotEarly
  BY DEF MenuInv
<1>. QED BY <1>1, MenuInvariance, PTL

\* A menu that goes on after saving uses what r-boot.toml holds.
THEOREM MemoryAgreesWithFile == Spec => []MemoryIsSaved
<1>1. MenuInv => MemoryIsSaved
  BY DEF MenuInv
<1>. QED BY <1>1, MenuInvariance, PTL

\* The countdown boots what was selected when it was started, and only if
\* nobody touched the keyboard since, also after a timeout was saved.
THEOREM CountdownIsLeftAlone == Spec => []CountdownLeftAlone
<1>1. OfferInv => CountdownLeftAlone
  BY DEF OfferInv
<1>. QED BY <1>1, InitOfferInv, OfferInvStep, MenuInvariance, PTL DEF Spec

\* Menu::select carries out BootChoice: what boots is what the display points
\* at.
THEOREM BootsTheMarkedEntry == Spec => BootsWhatIsMarked
<1>1. Init => Choice!Init
  BY InitPointed
<1>2. MenuInv => Pointed = selected
  BY OneIsMarked DEF MenuInv, TypeOK
<1>3. /\ MenuInv /\ MenuInv' /\ [Next]_vars
      /\ Pointed = selected /\ (Pointed = selected)'
      => [Choice!Next]_<<Pointed, outcome>>
  BY NextChooses, ChosenIsChoice
<1>. QED BY <1>1, <1>2, <1>3, MenuInvariance, PTL DEF Spec, BootsWhatIsMarked, Choice!Spec
=============================================================================
