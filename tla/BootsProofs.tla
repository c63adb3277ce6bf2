---------------------------- MODULE BootsProofs ----------------------------
(***************************************************************************)
(* What boot_kernel guarantees from power-on to power-on, for all contents *)
(* of r-boot.toml, all entries and files, and any number of starts: a fast *)
(* boot asked for once is made once, a fast boot is a quiet one, and the   *)
(* entries of r-boot.toml survive the writes that complete.                *)
(***************************************************************************)
EXTENDS Boots, TLAPS

\* The pieces r-boot.toml is put together from.
LEMMA FilesWellFormed ==
    /\ Empty \in ConfigFiles /\ Absent \in ConfigFiles
    /\ \A c \in ConfigFiles : Contents(c) \in ConfigFiles
    /\ \A c \in ConfigFiles, mode \in Modes : [c EXCEPT !.spinner = mode] \in ConfigFiles
    /\ \A c \in ConfigFiles : [c EXCEPT !.fastboot = "off"] \in ConfigFiles
    /\ Garbled(Empty) \in ConfigFiles
<1>1. Empty \in ConfigFiles
  <2>1. <<>> \in Seq(Entries)
    OBVIOUS
  <2>. QED BY <2>1 DEF Empty, ConfigFiles, FastbootModes, Modes
<1>2. Absent \in ConfigFiles
  BY <1>1 DEF Absent, ConfigFiles
<1>3. \A c \in ConfigFiles : Contents(c) \in ConfigFiles
  BY <1>1 DEF Contents
<1>4. \A c \in ConfigFiles, mode \in Modes : [c EXCEPT !.spinner = mode] \in ConfigFiles
  BY DEF ConfigFiles
<1>5. \A c \in ConfigFiles : [c EXCEPT !.fastboot = "off"] \in ConfigFiles
  BY DEF ConfigFiles, FastbootModes
<1>6. Garbled(Empty) \in ConfigFiles
  BY <1>1 DEF Garbled, ConfigFiles
<1>. QED BY <1>1, <1>2, <1>3, <1>4, <1>5, <1>6

\* A beginning of a text is one: it asks for no fast boot that the text does
\* not ask for.
LEMMA BeginningsWellFormed ==
    ASSUME NEW c \in ConfigFiles, NEW b \in Beginnings(c)
    PROVE  b \in ConfigFiles /\ b.fastboot \in {"off", c.fastboot}
<1>1. CASE \E f \in {"off", c.fastboot}, s \in {"graphical", c.spinner}, d \in {1, c.default} :
              b = [Empty EXCEPT !.fastboot = f, !.spinner = s, !.default = d]
  <2>1. PICK f \in {"off", c.fastboot}, s \in {"graphical", c.spinner}, d \in {1, c.default} :
                b = [Empty EXCEPT !.fastboot = f, !.spinner = s, !.default = d]
    BY <1>1
  <2>2. f \in FastbootModes /\ s \in Modes /\ d \in Nat
    BY DEF ConfigFiles, FastbootModes, Modes
  <2>. QED BY <2>1, <2>2, FilesWellFormed DEF ConfigFiles
<1>2. ASSUME NEW n \in DOMAIN c.entries, NEW last \in CutEntries(c.entries[n]),
             b = [c EXCEPT !.entries = Append(SubSeq(@, 1, n - 1), last)]
      PROVE  b \in ConfigFiles /\ b.fastboot = c.fastboot
  <2>. DEFINE entry == c.entries[n]
              all == Append(SubSeq(c.entries, 1, n - 1), last)
  <2>1. c.entries \in Seq(Entries) /\ n \in 1 .. Len(c.entries)
    BY <1>2 DEF ConfigFiles
  <2>2. entry \in Seq(Files) /\ entry # <<>>
    BY <2>1 DEF Entries
  <2>3. last \in Entries
    <3>1. PICK k \in DOMAIN entry :
             last = SubSeq(entry, 1, k) \/ last = Append(SubSeq(entry, 1, k - 1), CutName)
      BY <1>2 DEF CutEntries
    <3>2. k \in 1 .. Len(entry) /\ CutName \in Files
      BY <2>2, BootsAssumption
    <3>. HIDE DEF entry
    <3>3. CASE last = SubSeq(entry, 1, k)
      BY <2>2, <3>2, <3>3 DEF Entries
    <3>4. CASE last = Append(SubSeq(entry, 1, k - 1), CutName)
      <4>1. SubSeq(entry, 1, k - 1) \in Seq(Files)
        BY <2>2, <3>2
      <4>. QED BY <3>2, <3>4, <4>1 DEF Entries
    <3>. QED BY <3>1, <3>3, <3>4
  <2>4. all \in Seq(Entries)
    <3>1. SubSeq(c.entries, 1, n - 1) \in Seq(Entries)
      BY <2>1
    <3>. QED BY <2>3, <3>1
  <2>5. b = [c EXCEPT !.entries = all]
    BY <1>2
  <2>. HIDE DEF all
  <2>. QED BY <2>4, <2>5 DEF ConfigFiles
<1>3. ASSUME ~(\E f \in {"off", c.fastboot}, s \in {"graphical", c.spinner}, d \in {1, c.default} :
                   b = [Empty EXCEPT !.fastboot = f, !.spinner = s, !.default = d])
      PROVE  \E n \in DOMAIN c.entries : \E last \in CutEntries(c.entries[n]) :
                b = [c EXCEPT !.entries = Append(SubSeq(@, 1, n - 1), last)]
  <2>1. PICK n \in DOMAIN c.entries : b \in CutWithin(c, n)
    BY <1>3 DEF Beginnings
  <2>. QED BY <2>1 DEF CutWithin
<1>. QED BY <1>1, <1>2, <1>3

\* A new spinner, or one that has been changed to another mode, is at frame 0.
LEMMA NewSpinner ==
    ASSUME NEW mode \in Modes
    PROVE  New(mode) \in Spinners /\ New(mode).index = 0 /\ New(mode).mode = mode
BY DEF New, Spinners

\* A frame keeps the next one in range, and an inactive spinner draws none.
LEMMA TickInRange ==
    ASSUME spinner \in Spinners, Drawable, ring \in Rings, NEW screen, Tick(screen)
    PROVE  /\ spinner' \in Spinners /\ Drawable' /\ ring' \in Rings
           /\ spinner.mode = "off" => UNCHANGED spinnerVars
<1>1. CASE UNCHANGED spinnerVars
  BY <1>1 DEF spinnerVars, Drawable
<1>2. CASE spinner.mode = "text" /\ TextTick /\ UNCHANGED ring
  <2>. DEFINE next == (spinner.index + 1) % Frames
  <2>1. next \in Nat /\ next < Frames
    BY SpinnerAssumption DEF Spinners
  <2>2. spinner' = [spinner EXCEPT !.index = next]
    BY <1>2 DEF TextTick
  <2>. HIDE DEF next
  <2>. QED BY <1>2, <2>1, <2>2 DEF Drawable, Spinners
<1>3. CASE /\ spinner.mode = "graphical"
           /\ spinner' = [spinner EXCEPT !.index = (@ + 1) % Dots, !.position = TRUE]
           /\ ring' = "drawn"
  <2>. DEFINE next == (spinner.index + 1) % Dots
  <2>1. next \in Nat /\ next < Dots
    BY SpinnerAssumption DEF Spinners
  <2>2. spinner' = [spinner EXCEPT !.index = next, !.position = TRUE]
    BY <1>3
  <2>. HIDE DEF next
  <2>. QED BY <1>3, <2>1, <2>2 DEF Drawable, Spinners, Rings
<1>. QED BY <1>1, <1>2, <1>3 DEF Tick, Rings

\* An entry list that is not empty has a default.
LEMMA DefaultInMenu ==
    ASSUME NEW menu \in ConfigFiles, menu.entries # <<>>
    PROVE  DefaultIndex(menu) \in DOMAIN menu.entries /\ DefaultIndex(menu) \in Nat
<1>1. menu.entries \in Seq(Entries) /\ menu.default \in Nat
  BY DEF ConfigFiles
<1>2. 1 \in DOMAIN menu.entries
  BY <1>1
<1>. QED BY <1>1, <1>2 DEF DefaultIndex

\* A boot that starts anew.
LEMMA FreshBoot == Fresh \in BootStates
<1>1. <<>> \in Seq(Files) /\ <<>> \in Seq(Files \cup {"absent"})
  OBVIOUS
<1>2. "off" \in Labels /\ "none" \in Failures
  BY DEF Labels, Failures
<1>. QED BY <1>1, <1>2, FilesWellFormed DEF Fresh, BootStates, FastbootModes

LEMMA MaxBootsNat == MaxBoots \in Nat
BY BootsAssumption

LEMMA InitSteps == Init => TypeOK /\ StepsOK
<1>. SUFFICES ASSUME Init PROVE TypeOK /\ StepsOK OBVIOUS
<1>1. config \in ConfigFiles
  BY BootsAssumption DEF Init
<1>2. boot \in BootStates
  BY FreshBoot DEF Init
<1>3. spinner \in Spinners /\ Drawable
  BY NewSpinner, SpinnerAssumption DEF Init, Modes, Drawable
<1>4. /\ pc = "off" /\ installed = config /\ boots = 0 /\ ~torn
      /\ fasts \in [entry : Nat, layout : Nat]
  BY DEF Init, NoFasts
<1>5. torn \in BOOLEAN /\ ring \in Rings
  BY DEF Init, Rings
<1>. QED BY <1>1, <1>2, <1>3, <1>4, <1>5, MaxBootsNat DEF TypeOK, StepsOK, Labels, Writing

\* The count of fast boots stays one.
LEMMA CountedIsCount ==
    ASSUME TypeOK
    PROVE  Counted \in [entry : Nat, layout : Nat]
BY DEF TypeOK, Counted, BootStates

\* The error path and the way out, from whatever step.
LEMMA StoppedStep ==
    ASSUME TypeOK, NEW why \in Failures, Stopped(why)
    PROVE  /\ pc' = "failed" /\ boot' \in BootStates
           /\ config' = config /\ installed' = installed
           /\ fasts' \in [entry : Nat, layout : Nat] /\ boots' = boots
           /\ boot' = [boot EXCEPT !.failure = why]
BY CountedIsCount DEF TypeOK, Stopped, Goto, BootStates

LEMMA FailedStep ==
    ASSUME TypeOK, NEW why \in Failures, Failed(why)
    PROVE  /\ pc' = "failed" /\ boot' \in BootStates
           /\ config' = config /\ installed' = installed /\ torn' = torn
           /\ fasts' \in [entry : Nat, layout : Nat] /\ boots' = boots
           /\ boot' = [boot EXCEPT !.failure = why]
BY StoppedStep DEF Failed

LEMMA NextSteps == TypeOK /\ StepsOK /\ [Next]_vars => TypeOK' /\ StepsOK'
<1>. SUFFICES ASSUME TypeOK, StepsOK, [Next]_vars PROVE TypeOK' /\ StepsOK'
  OBVIOUS
<1>0. CASE UNCHANGED vars
  BY <1>0 DEF vars, TypeOK, StepsOK, Drawable, Writing, Fast
<1>1. CASE PowerOn
  <2>1. Contents(config) \in ConfigFiles
    BY FilesWellFormed DEF TypeOK
  <2>2. boot' \in BootStates
    BY <1>1, <2>1, FreshBoot DEF PowerOn, BootStates, ConfigFiles
  <2>3. spinner' \in Spinners /\ spinner'.index = 0
    BY <1>1, <2>1, NewSpinner DEF PowerOn, ConfigFiles, Modes
  <2>4. Drawable'
    BY <2>3, SpinnerAssumption DEF Drawable
  <2>5. (pc' = "search" /\ boot'.fastboot = "off") \/ pc' = "load"
    BY <1>1 DEF PowerOn, Goto
  <2>6. boots' = boots + 1 /\ boots < MaxBoots /\ boots \in Nat /\ ring' = "none"
    BY <1>1, MaxBootsNat DEF PowerOn, TypeOK
  <2>8. boots' \in 0 .. MaxBoots
    BY <2>6, MaxBootsNat
  <2>9. ring' \in Rings
    BY <2>6 DEF Rings
  <2>7. TypeOK'
    BY <1>1, <2>2, <2>3, <2>4, <2>5, <2>8, <2>9 DEF PowerOn, TypeOK, Labels
  <2>. QED BY <2>5, <2>7 DEF StepsOK, Writing, Fast
<1>2. CASE NoVolume
  <2>2. boot' \in BootStates
    BY <1>2, FreshBoot DEF NoVolume, BootStates, Failures
  <2>3. spinner' \in Spinners /\ Drawable'
    BY <1>2, NewSpinner, SpinnerAssumption DEF NoVolume, Drawable, Modes
  <2>5. /\ boots' = boots + 1 /\ boots < MaxBoots /\ boots \in Nat /\ ring' = "none"
        /\ pc' = "failed"
    BY <1>2, MaxBootsNat DEF NoVolume, Goto, TypeOK
  <2>4. boots' \in 0 .. MaxBoots /\ pc' = "failed"
    BY <2>5, MaxBootsNat
  <2>6. ring' \in Rings
    BY <2>5 DEF Rings
  <2>. QED BY <1>2, <2>2, <2>3, <2>4, <2>6 DEF NoVolume, TypeOK, StepsOK, Labels, Writing
<1>3. CASE Search
  <2>. PICK screen \in BOOLEAN : Tick(screen)
    BY <1>3 DEF Search
  <2>1. spinner' \in Spinners /\ Drawable' /\ ring' \in Rings
    BY TickInRange DEF TypeOK
  <2>. QED BY <1>3, <2>1 DEF Search, Goto, TypeOK, StepsOK, Labels, Writing
<1>4. CASE LoadMenu
  <2>. DEFINE menu == [Contents(config) EXCEPT !.entries = @ \o Others]
  <2>1. menu \in ConfigFiles
    <3>1. Contents(config) \in ConfigFiles
      BY FilesWellFormed DEF TypeOK
    <3>2. Others \in Seq(Entries)
      BY BootsAssumption DEF Others
    <3>3. Contents(config).entries \o Others \in Seq(Entries)
      BY <3>1, <3>2 DEF ConfigFiles
    <3>. QED BY <3>1, <3>3 DEF ConfigFiles
  <2>2. AfterLoad(menu)
    BY <1>4 DEF LoadMenu
  <2>3. spinner' \in Spinners /\ Drawable' /\ ring' \in Rings
    <3>1. CASE Fast
      BY <1>4, <3>1 DEF LoadMenu, TypeOK, spinnerVars, Drawable
    <3>2. CASE ~Fast
      <4>1. spinner' = New(menu.spinner) /\ menu.spinner \in Modes
        BY <1>4, <2>1, <3>2 DEF LoadMenu, ConfigFiles
      <4>2. ring' \in Rings
        BY <1>4, <3>2 DEF LoadMenu, Cleared, TypeOK, Rings
      <4>. QED BY <4>1, <4>2, NewSpinner, SpinnerAssumption DEF Drawable
    <3>. QED BY <3>1, <3>2
  <2>. HIDE DEF menu
  <2>4. /\ boot' \in BootStates
        /\ pc' \in {"read", "chosen", "menu"}
        /\ pc' = "menu" => ~Fast'
        /\ pc' = "chosen" => boot'.selected \in DOMAIN boot'.menu.entries
        /\ pc' = "read" => boot'.todo # <<>>
    <3>1. CASE menu.entries = <<>>
      <4>1. <<Vmlinuz, Initramfs>> \in Seq(Files)
        BY BootsAssumption
      <4>. DEFINE todo == <<Vmlinuz, Initramfs>>
      <4>2. /\ pc' = "read" /\ todo # <<>>
            /\ boot' = [boot EXCEPT !.menu = menu, !.plan = "linux", !.todo = todo]
        BY <2>2, <3>1 DEF AfterLoad, Goto
      <4>. HIDE DEF todo
      <4>. QED BY <2>1, <4>1, <4>2 DEF todo, TypeOK, BootStates
    <3>2. CASE menu.entries # <<>> /\ Fast
      BY <2>1, <2>2, <3>2, DefaultInMenu DEF AfterLoad, Goto, TypeOK, BootStates, Fast
    <3>3. CASE menu.entries # <<>> /\ ~Fast
      BY <2>1, <2>2, <3>3 DEF AfterLoad, Goto, TypeOK, BootStates, Fast
    <3>. QED BY <3>1, <3>2, <3>3
  <2>. QED BY <1>4, <2>3, <2>4 DEF LoadMenu, TypeOK, StepsOK, Labels, Writing
<1>5. CASE WriteRefused
  <2>1. UNCHANGED spinnerVars
    BY <1>5 DEF WriteRefused
  <2>2. CASE boot.next = "menu"
    <3>1. Failed("menu")
      BY <1>5, <2>2 DEF WriteRefused
    <3>. QED BY <1>5, <2>1, <3>1, FailedStep
             DEF WriteRefused, Failures, TypeOK, StepsOK, Labels, Writing, spinnerVars, Drawable
  <2>3. CASE boot.next # "menu"
    BY <1>5, <2>1, <2>3 DEF WriteRefused, Goto, TypeOK, StepsOK, BootStates, Labels, Writing, Fast,
                            spinnerVars, Drawable
  <2>. QED BY <2>2, <2>3
<1>6. CASE WriteDeletes
  BY <1>6, FilesWellFormed
  DEF WriteDeletes, Goto, TypeOK, StepsOK, Labels, Writing, Fast, Drawable
<1>7. CASE WriteFails
  <2>1. UNCHANGED spinnerVars /\ torn' \in BOOLEAN
    BY <1>7 DEF WriteFails
  <2>2. CASE boot.next = "menu"
    <3>1. Stopped("menu") /\ UNCHANGED files
      BY <1>7, <2>2 DEF WriteFails, Stopped
    <3>. QED BY <2>1, <3>1, StoppedStep
             DEF Failures, TypeOK, StepsOK, Labels, Writing, spinnerVars, Drawable
  <2>3. CASE boot.next # "menu"
    BY <1>7, <2>1, <2>3 DEF WriteFails, Goto, TypeOK, StepsOK, BootStates, Labels, Writing, Fast,
                            spinnerVars, Drawable
  <2>. QED BY <2>2, <2>3
<1>24. CASE WritePart
  <2>1. config' \in ConfigFiles
    <3>1. boot.text \in ConfigFiles
      BY DEF TypeOK, BootStates
    <3>. QED BY <1>24, <3>1, BeginningsWellFormed, FilesWellFormed DEF WritePart
  <2>. QED BY <1>24, <2>1 DEF WritePart, TypeOK, StepsOK, Labels, Writing, Fast, Drawable
<1>8. CASE Written
  <2>1. /\ boot' \in BootStates /\ boot'.fastboot = boot.fastboot
        /\ boot'.selected = boot.selected
        /\ boot'.menu.entries = boot.menu.entries
    BY <1>8, FilesWellFormed DEF Written, TypeOK, BootStates, ConfigFiles
  <2>2. config' \in ConfigFiles
    BY <1>8 DEF Written, TypeOK, BootStates
  <2>. QED BY <1>8, <2>1, <2>2 DEF Written, Goto, TypeOK, StepsOK, Labels, Writing, Fast, Drawable
<1>9. CASE Chosen
  <2>1. CASE UsesUpNextBoot
    <3>. DEFINE off == [config EXCEPT !.fastboot = "off"]
    <3>1. off \in ConfigFiles /\ off.fastboot = "off"
      BY FilesWellFormed DEF TypeOK, ConfigFiles
    <3>. HIDE DEF off
    <3>2. Write(off, "start")
      BY <1>9, <2>1 DEF Chosen, off
    <3>. QED BY <1>9, <3>1, <3>2
             DEF Chosen, Write, Goto, TypeOK, StepsOK, BootStates, Labels, Writing, Fast, Drawable
  <2>2. CASE ~UsesUpNextBoot
    BY <1>9, <2>2 DEF Chosen, Goto, TypeOK, StepsOK, Labels, Writing, Drawable
  <2>. QED BY <2>1, <2>2
<1>10. CASE Start
  <2>1. boot.menu.entries[boot.selected] \in Entries
    BY <1>10 DEF Start, StepsOK, TypeOK, BootStates, ConfigFiles
  <2>2. boot' \in BootStates /\ boot'.todo # <<>>
    BY <1>10, <2>1 DEF Start, TypeOK, BootStates, Entries
  <2>3. spinner' \in Spinners /\ Drawable' /\ ring' \in Rings
    <3>1. boot.menu.spinner \in Modes
      BY DEF TypeOK, BootStates, ConfigFiles
    <3>2. CASE Shown
      <4>1. spinner' = New(boot.menu.spinner) /\ ring' \in Rings
        BY <1>10, <3>2 DEF Start, TypeOK, Rings
      <4>. QED BY <3>1, <4>1, NewSpinner, SpinnerAssumption DEF Drawable
    <3>3. CASE ~Shown
      BY <1>10, <3>3 DEF Start, TypeOK, spinnerVars, Drawable
    <3>. QED BY <3>2, <3>3
  <2>. QED BY <1>10, <2>2, <2>3 DEF Start, Goto, TypeOK, StepsOK, Labels, Writing
<1>11. CASE BadPath
  <2>1. UNCHANGED spinnerVars
    BY <1>11 DEF BadPath
  <2>. QED BY <1>11, <2>1, FailedStep
           DEF BadPath, Failures, TypeOK, StepsOK, Labels, Writing, spinnerVars, Drawable
<1>12. CASE ShowFrame
  <2>. PICK screen \in BOOLEAN : Tick(screen)
    BY <1>12 DEF ShowFrame
  <2>1. spinner' \in Spinners /\ Drawable' /\ ring' \in Rings
    BY TickInRange DEF TypeOK
  <2>. QED BY <1>12, <2>1 DEF ShowFrame, Goto, TypeOK, StepsOK, Labels, Writing
<1>13. CASE ReadFile
  <2>1. boot.todo \in Seq(Files) /\ boot.todo # <<>>
    BY <1>13 DEF ReadFile, TypeOK, StepsOK, BootStates
  <2>2. Head(boot.todo) \in Files /\ Tail(boot.todo) \in Seq(Files)
    BY <2>1
  <2>. DEFINE all == Append(boot.read, Head(boot.todo))
  <2>3. all \in Seq(Files \cup {"absent"}) /\ all # <<>>
    <3>1. boot.read \in Seq(Files \cup {"absent"}) /\ Head(boot.todo) \in Files \cup {"absent"}
      BY <2>2 DEF TypeOK, BootStates
    <3>. QED BY <3>1
  <2>5. boot' = [boot EXCEPT !.todo = Tail(boot.todo), !.read = all]
    BY <1>13 DEF ReadFile, Extended
  <2>. HIDE DEF all
  <2>6. boot' \in BootStates /\ boot'.read = all
    BY <2>2, <2>3, <2>5 DEF TypeOK, BootStates
  <2>4. /\ pc' \in {"read", "modules", "handover"}
        /\ pc' = "read" => boot'.todo # <<>>
    BY <1>13 DEF ReadFile, Goto
  <2>. QED BY <1>13, <2>3, <2>4, <2>6 DEF ReadFile, TypeOK, StepsOK, Labels, Writing, Drawable
<1>14. CASE CannotRead
  <2>1. spinner' \in Spinners /\ Drawable' /\ ring' \in Rings
    BY <1>14 DEF CannotRead, AfterClear, Cleared, TypeOK, Spinners, Drawable, Rings
  <2>2. CASE boot.plan = "linux" /\ boot.read = <<>>
    <3>0. <<KernelElf>> \in Seq(Files) /\ <<KernelElf>> # <<>>
      BY BootsAssumption
    <3>1. boot' \in BootStates /\ boot'.todo # <<>>
      <4>. DEFINE todo == <<KernelElf>>
      <4>1. boot' = [boot EXCEPT !.plan = "limine", !.todo = todo]
        BY <1>14, <2>2 DEF CannotRead, TryLimine
      <4>. HIDE DEF todo
      <4>. QED BY <3>0, <4>1 DEF todo, TypeOK, BootStates
    <3>. QED BY <1>14, <2>1, <2>2, <3>1
             DEF CannotRead, Goto, TypeOK, StepsOK, Labels, Writing
  <2>3. CASE ~(boot.plan = "linux" /\ boot.read = <<>>)
    <3>1. Failed("read")
      BY <1>14, <2>3 DEF CannotRead
    <3>. QED BY <2>1, <3>1, FailedStep DEF Failures, TypeOK, StepsOK, Labels, Writing
  <2>. QED BY <2>2, <2>3
<1>15. CASE LoadModules
  <2>1. boot.read \in Seq(Files \cup {"absent"}) /\ Len(boot.read) \in Nat \ {0}
    BY <1>15 DEF LoadModules, TypeOK, StepsOK, BootStates
  <2>2. CASE Len(boot.read) <= Len(Modules)
    <3>. DEFINE m == Modules[Len(boot.read)]
    <3>1. m \in Files
      BY <2>1, <2>2, BootsAssumption
    <3>2. pc' = "modules"
      BY <1>15, <2>2, <2>1, BootsAssumption DEF LoadModules
    <3>3. CASE m \in files
      <4>1. boot' = [boot EXCEPT !.read = Append(boot.read, m)]
        BY <1>15, <2>1, <2>2, <3>3, BootsAssumption DEF LoadModules
      <4>2. Append(boot.read, m) \in Seq(Files \cup {"absent"}) /\ Append(boot.read, m) # <<>>
        BY <2>1, <3>1
      <4>. PICK screen \in BOOLEAN : Tick(screen)
        BY <1>15, <2>1, <2>2, <3>3, BootsAssumption DEF LoadModules
      <4>3. spinner' \in Spinners /\ Drawable' /\ ring' \in Rings
        BY TickInRange DEF TypeOK
      <4>. HIDE DEF m
      <4>4. boot' \in BootStates /\ boot'.read # <<>>
        BY <4>1, <4>2 DEF TypeOK, BootStates
      <4>. QED BY <1>15, <3>2, <4>3, <4>4
               DEF LoadModules, TypeOK, StepsOK, Labels, Writing
    <3>4. CASE m \notin files
      <4>1. /\ boot' = [boot EXCEPT !.read = Append(boot.read, "absent")]
            /\ UNCHANGED spinnerVars
        BY <1>15, <2>1, <2>2, <3>4, BootsAssumption DEF LoadModules
      <4>2. /\ Append(boot.read, "absent") \in Seq(Files \cup {"absent"})
            /\ Append(boot.read, "absent") # <<>>
        BY <2>1
      <4>4. boot' \in BootStates /\ boot'.read # <<>>
        BY <4>1, <4>2 DEF TypeOK, BootStates
      <4>. QED BY <1>15, <3>2, <4>1, <4>4
               DEF LoadModules, TypeOK, StepsOK, Labels, Writing, spinnerVars, Drawable
    <3>. QED BY <3>3, <3>4
  <2>3. CASE Len(boot.read) > Len(Modules)
    <3>1. pc' = "handover" /\ UNCHANGED <<boot, spinner, ring>>
      BY <1>15, <2>1, <2>3, BootsAssumption DEF LoadModules, Goto
    <3>. QED BY <1>15, <3>1 DEF LoadModules, TypeOK, StepsOK, Labels, Writing, Drawable
  <2>. QED BY <2>1, <2>2, <2>3, BootsAssumption
<1>16. CASE Handover
  BY <1>16, CountedIsCount DEF Handover, Goto, TypeOK, StepsOK, Labels, Writing, Drawable
<1>17. CASE HandoverFails
  <2>1. UNCHANGED spinnerVars
    BY <1>17 DEF HandoverFails
  <2>. QED BY <1>17, <2>1, FailedStep
           DEF HandoverFails, Failures, TypeOK, StepsOK, Labels, Writing, spinnerVars, Drawable
<1>18. ASSUME NEW i \in DOMAIN boot.menu.entries, Choose(i) PROVE TypeOK' /\ StepsOK'
  <2>1. i \in Nat
    BY DEF TypeOK, BootStates, ConfigFiles
  <2>2. boot' \in BootStates /\ boot'.selected = i /\ boot'.menu = boot.menu
    BY <1>18, <2>1 DEF Choose, TypeOK, BootStates
  <2>. QED BY <1>18, <2>2 DEF Choose, Goto, TypeOK, StepsOK, Labels, Writing, Drawable
<1>19. ASSUME NEW mode \in Modes, Save(mode) PROVE TypeOK' /\ StepsOK'
  <2>1. Saved(mode) \in ConfigFiles
    BY FilesWellFormed DEF Saved, TypeOK
  <2>2. /\ pc = "menu" /\ ~Fast
        /\ Write(Saved(mode), "menu")
    BY <1>19 DEF Save, StepsOK
  <2>. QED BY <2>1, <2>2
           DEF Write, Goto, TypeOK, StepsOK, BootStates, Labels, Writing, Fast, Drawable
<1>20. CASE MenuFails
  <2>1. UNCHANGED spinnerVars
    BY <1>20 DEF MenuFails
  <2>. QED BY <1>20, <2>1, FailedStep
           DEF MenuFails, Failures, TypeOK, StepsOK, Labels, Writing, spinnerVars, Drawable
<1>21. ASSUME NEW c \in Configs, NEW F \in FileSets, Update(c, F) PROVE TypeOK' /\ StepsOK'
  BY <1>21, BootsAssumption DEF Update, NoFasts, Goto, TypeOK, StepsOK, Labels, Writing, Drawable
<1>22. ASSUME Off, torn' \in BOOLEAN PROVE TypeOK' /\ StepsOK'
  <2>1. boot' \in BootStates /\ ring' \in Rings /\ pc' = "off"
    BY <1>22, FreshBoot DEF Off, Goto, Rings
  <2>2. spinner' \in Spinners /\ Drawable'
    BY <1>22, NewSpinner, SpinnerAssumption DEF Off, Drawable, Modes
  <2>. QED BY <1>22, <2>1, <2>2 DEF Off, TypeOK, StepsOK, Labels, Writing
<1>23. CASE Reset \/ PowerCut
  BY <1>22, <1>23 DEF Reset, PowerCut, TypeOK
<1>. QED
  BY <1>0, <1>1, <1>2, <1>3, <1>4, <1>5, <1>6, <1>7, <1>8, <1>9, <1>10, <1>11, <1>12, <1>13,
     <1>14, <1>15, <1>16, <1>17, <1>18, <1>19, <1>20, <1>21, <1>23, <1>24
  DEF Next, Running, AtMenu

\* No read, failure, power cut or change of files takes boot_kernel out of its
\* states, and a reading step has a file left to read.
THEOREM TypeCorrectness == Spec => [](TypeOK /\ StepsOK)
BY InitSteps, NextSteps, PTL DEF Spec

\* Where boot_kernel's mode comes from and that it stays: every step but the
\* first and the last of a boot leaves it, and what the menu offers only
\* changes its spinner once it is loaded.
LEMMA ModeStays ==
    ASSUME TypeOK, StepsOK, Next
    PROVE  \/ PowerOn
           \/ NoVolume \/ Reset \/ PowerCut
           \/ boot'.fastboot = boot.fastboot
<1>1. CASE LoadMenu
  BY <1>1 DEF LoadMenu, AfterLoad, TypeOK, BootStates
<1>2. CASE Chosen
  BY <1>2 DEF Chosen, Write, TypeOK, BootStates
<1>3. CASE CannotRead
  BY <1>3 DEF CannotRead, TryLimine, Failed, Stopped, TypeOK, BootStates
<1>4. CASE LoadModules
  BY <1>4 DEF LoadModules, TypeOK, BootStates
<1>5. CASE Written
  BY <1>5 DEF Written, TypeOK, BootStates
<1>6. CASE BadPath \/ HandoverFails \/ MenuFails
  BY <1>6 DEF BadPath, HandoverFails, MenuFails, Failed, Stopped, TypeOK, BootStates
<1>7. CASE WriteRefused \/ WriteDeletes \/ WritePart \/ WriteFails \/ Search \/ ShowFrame \/ Handover
  BY <1>7 DEF WriteRefused, WriteDeletes, WritePart, WriteFails, Search, ShowFrame, Handover,
              Failed, Stopped, TypeOK, BootStates
<1>8. CASE Start \/ ReadFile
  BY <1>8 DEF Start, ReadFile, TypeOK, BootStates
<1>9. CASE \E i \in DOMAIN boot.menu.entries : Choose(i)
  BY <1>9 DEF Choose, TypeOK, BootStates
<1>10. CASE \E mode \in Modes : Save(mode)
  BY <1>10 DEF Save, Write, TypeOK, BootStates
<1>11. CASE \E c \in Configs, F \in FileSets : Update(c, F)
  BY <1>11 DEF Update
<1>. QED
  BY <1>1, <1>2, <1>3, <1>4, <1>5, <1>6, <1>7, <1>8, <1>9, <1>10, <1>11 DEF Next, Running, AtMenu

LEMMA QuietStep == TypeOK /\ StepsOK /\ FastbootQuiet /\ [Next]_vars => FastbootQuiet'
<1>. SUFFICES ASSUME TypeOK, StepsOK, FastbootQuiet, [Next]_vars, Fast'
              PROVE  spinner'.mode = "off" /\ ring' = "none"
  BY DEF FastbootQuiet
<1>0. CASE UNCHANGED vars
  BY <1>0 DEF vars, FastbootQuiet, Fast
<1>1. CASE PowerOn
  <2>1. boot'.fastboot # "off"
    BY DEF Fast
  <2>2. spinner' = New("off") /\ ring' = "none"
    BY <1>1, <2>1 DEF PowerOn
  <2>. QED BY <2>2 DEF New
<1>2. CASE NoVolume \/ Reset \/ PowerCut
  BY <1>2 DEF NoVolume, Reset, PowerCut, Off, New
<1>3. CASE Next /\ ~PowerOn /\ ~NoVolume /\ ~Reset /\ ~PowerCut
  <2>1. Fast /\ spinner.mode = "off" /\ ring = "none"
    BY <1>3, ModeStays DEF FastbootQuiet, Fast
  <2>2. CASE ShowFrame
    <3>. PICK screen \in BOOLEAN : Tick(screen)
      BY <2>2 DEF ShowFrame
    <3>. QED BY <2>1, TickInRange DEF TypeOK, spinnerVars
  <2>3. CASE LoadModules
    <3>1. UNCHANGED spinnerVars \/ \E screen \in BOOLEAN : Tick(screen)
      BY <2>3 DEF LoadModules, spinnerVars
    <3>2. UNCHANGED spinnerVars
      BY <2>1, <3>1, TickInRange DEF TypeOK
    <3>. QED BY <2>1, <3>2 DEF spinnerVars
  <2>4. CASE CannotRead
    BY <2>1, <2>4 DEF CannotRead, AfterClear, Cleared
  <2>5. CASE Search
    BY <2>1, <2>5 DEF Search, StepsOK
  <2>6. CASE LoadMenu \/ Start
    BY <2>1, <2>6 DEF LoadMenu, Start, Shown, spinnerVars
  <2>7. CASE Chosen
    BY <2>1, <2>7 DEF Chosen, Write
  <2>8. CASE \/ WriteRefused \/ WriteDeletes \/ WritePart \/ WriteFails \/ Written
             \/ BadPath \/ ReadFile \/ Handover \/ HandoverFails
    BY <2>1, <2>8 DEF WriteRefused, WriteDeletes, WritePart, WriteFails, Written, BadPath, ReadFile,
                      Handover, HandoverFails, spinnerVars
  <2>9. CASE AtMenu
    <3>1. UNCHANGED <<spinner, ring>>
      <4>1. CASE \E i \in DOMAIN boot.menu.entries : Choose(i)
        BY <4>1 DEF Choose
      <4>2. CASE \E mode \in Modes : Save(mode)
        BY <4>2 DEF Save, Write
      <4>3. CASE MenuFails
        BY <4>3 DEF MenuFails, spinnerVars
      <4>. QED BY <2>9, <4>1, <4>2, <4>3 DEF AtMenu
    <3>. QED BY <2>1, <3>1
  <2>10. CASE \E c \in Configs, F \in FileSets : Update(c, F)
    BY <2>1, <2>10 DEF Update
  <2>. QED
    BY <1>3, <2>2, <2>3, <2>4, <2>5, <2>6, <2>7, <2>8, <2>9, <2>10 DEF Next, Running
<1>. QED BY <1>0, <1>1, <1>2, <1>3

\* README: a fast boot "skips the menu, the countdown, the spinner, and all
\* splash art", from power-on to the handover.
THEOREM FastbootsAreQuiet == Spec => []FastbootQuiet
<1>1. Init => FastbootQuiet
  BY DEF Init, Fresh, FastbootQuiet, Fast
<1>. QED BY <1>1, TypeCorrectness, QuietStep, PTL DEF Spec

\* The error path and the handover count a fast boot of an entry whose mode
\* has gone from the file.
LEMMA CountedOnce ==
    ASSUME TypeOK, OnceOK, pc \notin Ended, pc \notin {"load", "chosen", "delete", "create"},
           config' = config, boot'.fastboot = boot.fastboot, pc' \in {"os", "failed"},
           fasts' = Counted
    PROVE  OnceOK'
<1>0. fasts.entry \in Nat /\ fasts \in [entry : Nat, layout : Nat]
  BY DEF TypeOK
<1>1. CASE boot.fastboot = "next-boot" /\ ~boot.refused /\ boot.selected # 0
  <2>1. fasts'.entry = fasts.entry + 1
    BY <1>0, <1>1 DEF Counted
  <2>. QED BY <1>0, <1>1, <2>1 DEF OnceOK, Ended, Writing
<1>2. CASE ~(boot.fastboot = "next-boot" /\ ~boot.refused /\ boot.selected # 0)
  <2>1. fasts'.entry = fasts.entry
    BY <1>0, <1>2 DEF Counted, TypeOK, BootStates
  <2>. QED BY <1>2, <2>1 DEF OnceOK, Ended, Writing, NextBoot
<1>. QED BY <1>1, <1>2

LEMMA FailedOnce ==
    ASSUME TypeOK, OnceOK, pc \notin Ended, pc \notin {"load", "chosen", "delete", "create"},
           NEW why \in Failures, Failed(why)
    PROVE  OnceOK'
BY CountedOnce DEF Failed, Stopped, Goto, TypeOK, BootStates

LEMMA OnceStep ==
    ASSUME TypeOK, StepsOK, OnceOK, [Next]_vars
    PROVE  OnceOK'
<1>0. CASE UNCHANGED vars
  BY <1>0 DEF vars, OnceOK, Writing, NextBoot
<1>1. CASE PowerOn
  <2>1. /\ boot'.fastboot = Contents(config).fastboot /\ boot'.selected = 0
        /\ pc' \in {"search", "load"}
        /\ boot'.fastboot # "off" => pc' = "load"
    BY <1>1, FreshBoot DEF PowerOn, Goto, BootStates, Fresh
  <2>2. boot'.fastboot = "next-boot" => NextBoot(config)
    BY <2>1 DEF NextBoot, Contents, Empty
  <2>. QED BY <1>1, <2>1, <2>2 DEF PowerOn, OnceOK, Writing, NextBoot
<1>2. CASE NoVolume
  BY <1>2, FreshBoot DEF NoVolume, Goto, OnceOK, Writing, Ended, NextBoot
<1>3. CASE Search
  BY <1>3 DEF Search, Goto, StepsOK, Fast, OnceOK, Writing, NextBoot
<1>4. CASE LoadMenu
  <2>. DEFINE menu == [Contents(config) EXCEPT !.entries = @ \o Others]
  <2>1. boot'.fastboot = boot.fastboot /\ pc' \in {"read", "chosen", "menu"}
    BY <1>4 DEF LoadMenu, AfterLoad, Goto, TypeOK, BootStates
  <2>2. ASSUME boot.fastboot = "next-boot"
        PROVE  pc' = "chosen" \/ (pc' = "read" /\ boot'.selected = 0)
    <3>1. AfterLoad(menu) /\ Fast /\ boot.selected = 0
      BY <1>4, <2>2 DEF LoadMenu, Fast, OnceOK, Ended
    <3>2. CASE menu.entries = <<>>
      BY <3>1, <3>2 DEF AfterLoad, Goto, TypeOK, BootStates
    <3>3. CASE menu.entries # <<>>
      BY <3>1, <3>3 DEF AfterLoad, Goto
    <3>. QED BY <3>2, <3>3
  <2>. QED BY <1>4, <2>1, <2>2 DEF LoadMenu, OnceOK, Writing, Ended, NextBoot
<1>5. CASE WriteRefused
  <2>1. CASE boot.next = "menu"
    <3>1. pc' = "failed" /\ config' = config /\ fasts' = fasts /\ boot'.fastboot = boot.fastboot
      BY <1>5, <2>1 DEF WriteRefused, Failed, Stopped, Counted, Goto, StepsOK, Writing, Fast,
                        TypeOK, BootStates
    <3>. QED BY <3>1 DEF OnceOK, Writing, Ended, NextBoot
  <2>2. CASE boot.next # "menu"
    <3>1. /\ boot'.refused /\ boot'.fastboot = boot.fastboot /\ pc' = "start"
          /\ config' = config /\ fasts' = fasts /\ Writing
      BY <1>5, <2>2 DEF WriteRefused, Goto, StepsOK, Writing, TypeOK, BootStates
    <3>. QED BY <3>1 DEF OnceOK, Writing, Ended, NextBoot
  <2>. QED BY <2>1, <2>2
<1>6. CASE WriteDeletes
  BY <1>6 DEF WriteDeletes, Goto, OnceOK, Writing, Ended, NextBoot, Absent, Empty
<1>18. CASE WritePart
  <2>1. config'.fastboot \in {"off", boot.text.fastboot} \/ config' = Garbled(Empty)
    BY <1>18, BeginningsWellFormed DEF WritePart, TypeOK, BootStates
  <2>2. NextBoot(config') => boot.text.fastboot = "next-boot"
    BY <2>1 DEF NextBoot, Garbled, Empty
  <2>. QED BY <1>18, <2>2 DEF WritePart, StepsOK, OnceOK, Writing, Ended, Fast
<1>7. CASE WriteFails
  <2>1. config' = config /\ boot'.fastboot = boot.fastboot /\ boot'.selected = boot.selected
        /\ boot'.refused = boot.refused /\ pc' \in {"failed", "start"} /\ pc = "create"
    BY <1>7 DEF WriteFails, Stopped, Goto, StepsOK, Writing, TypeOK, BootStates
  <2>2. fasts' = fasts
    BY <1>7 DEF WriteFails, Stopped, Counted, StepsOK, Writing, Fast
  <2>. QED BY <2>1, <2>2 DEF OnceOK, Writing, Ended
<1>8. CASE Written
  <2>1. pc' \in {"menu", "start"} /\ Writing
    BY <1>8 DEF Written, Goto, StepsOK, Writing
  <2>2. boot'.fastboot = boot.fastboot
    BY <1>8 DEF Written, TypeOK, BootStates
  <2>3. boot.fastboot = "next-boot" => ~NextBoot(config')
    BY <1>8, <2>1 DEF Written, StepsOK, Fast, NextBoot
  <2>. QED BY <1>8, <2>1, <2>2, <2>3 DEF Written, OnceOK, Writing, Ended, NextBoot
<1>9. CASE Chosen
  <2>1. CASE UsesUpNextBoot
    <3>. DEFINE off == [config EXCEPT !.fastboot = "off"]
    <3>2. off.fastboot = "off"
      BY DEF TypeOK, ConfigFiles
    <3>3. Write(off, "start")
      BY <1>9, <2>1 DEF Chosen
    <3>. HIDE DEF off
    <3>1. /\ boot'.text.fastboot = "off" /\ boot'.fastboot = boot.fastboot
          /\ pc' = "delete" /\ config' = config /\ fasts' = fasts
      BY <2>1, <3>2, <3>3 DEF Write, Goto, UsesUpNextBoot, TypeOK, BootStates
    <3>. QED BY <1>9, <2>1, <3>1 DEF Chosen, Write, OnceOK, Writing, Ended, NextBoot
  <2>2. CASE ~UsesUpNextBoot
    BY <1>9, <2>2 DEF Chosen, UsesUpNextBoot, Goto, OnceOK, Writing, Ended, NextBoot
  <2>. QED BY <2>1, <2>2
<1>10. CASE Start \/ ShowFrame \/ ReadFile \/ LoadModules
  <2>1. /\ pc \in {"start", "read", "reading", "modules"}
        /\ pc' \in {"read", "reading", "modules", "handover"}
        /\ config' = config /\ fasts' = fasts
    BY <1>10 DEF Start, ShowFrame, ReadFile, LoadModules, Goto
  <2>2. /\ boot'.fastboot = boot.fastboot /\ boot'.refused = boot.refused
        /\ boot'.selected = boot.selected
    BY <1>10 DEF Start, ShowFrame, ReadFile, LoadModules, TypeOK, BootStates
  <2>. QED BY <2>1, <2>2 DEF OnceOK, Writing, Ended, NextBoot
<1>11. CASE CannotRead
  <2>1. CASE boot.plan = "linux" /\ boot.read = <<>>
    <3>1. /\ boot'.fastboot = boot.fastboot /\ boot'.refused = boot.refused
          /\ boot'.selected = boot.selected
          /\ pc = "reading" /\ pc' = "read" /\ config' = config /\ fasts' = fasts
      BY <1>11, <2>1 DEF CannotRead, TryLimine, Goto, TypeOK, BootStates
    <3>. QED BY <3>1 DEF OnceOK, Writing, Ended, NextBoot
  <2>2. CASE ~(boot.plan = "linux" /\ boot.read = <<>>)
    BY <1>11, <2>2, FailedOnce DEF CannotRead, Ended, Failures
  <2>. QED BY <2>1, <2>2
<1>12. CASE BadPath \/ HandoverFails \/ MenuFails
  BY <1>12, FailedOnce DEF BadPath, HandoverFails, MenuFails, Ended, Failures
<1>13. CASE Handover
  BY <1>13, CountedOnce DEF Handover, Goto, Ended
<1>14. CASE \E i \in DOMAIN boot.menu.entries : Choose(i)
  BY <1>14 DEF Choose, Goto, StepsOK, Fast, OnceOK, Writing, NextBoot, TypeOK, BootStates
<1>15. ASSUME NEW mode \in Modes, Save(mode) PROVE OnceOK'
  <2>1. /\ boot'.fastboot = "off" /\ boot'.text = [Contents(config) EXCEPT !.spinner = mode]
        /\ pc' \in {"delete", "create"} /\ config' = config /\ fasts' = fasts
    BY <1>15 DEF Save, Saved, Write, Goto, StepsOK, Fast, TypeOK, BootStates
  <2>2. ASSUME boot'.text.fastboot = "next-boot" PROVE NextBoot(config)
    BY <2>1, <2>2 DEF NextBoot, Contents, Empty, TypeOK, ConfigFiles
  <2>. QED BY <2>1, <2>2 DEF OnceOK, Writing, Ended, NextBoot
<1>16. ASSUME NEW c \in Configs, NEW F \in FileSets, Update(c, F) PROVE OnceOK'
  <2>1. config' = c /\ fasts'.entry = 0 /\ pc' = "updated"
    BY <1>16 DEF Update, NoFasts, Goto
  <2>. QED BY <2>1 DEF OnceOK, Writing, Ended
<1>17. CASE Reset \/ PowerCut
  BY <1>17 DEF Reset, PowerCut, Off, Goto, OnceOK, Writing, Ended, NextBoot
<1>. QED
  BY <1>0, <1>1, <1>2, <1>3, <1>4, <1>5, <1>6, <1>7, <1>8, <1>9, <1>10, <1>11, <1>12, <1>13,
     <1>14, <1>15, <1>16, <1>17, <1>18
  DEF Next, Running, AtMenu

\* README.md:64-66: `fastboot = "next-boot"` "does it once", for boots of an
\* entry; a boot of the fixed layout never takes the mode back.
THEOREM FastBootIsMadeOnce == Spec => []NextBootOnce
<1>1. Init => OnceOK
  BY DEF Init, OnceOK, NoFasts, Fresh, Ended, Writing
<1>2. TypeOK /\ StepsOK /\ OnceOK /\ [Next]_vars => OnceOK'
  BY OnceStep
<1>3. OnceOK => NextBootOnce
  BY DEF OnceOK, NextBootOnce
<1>. QED BY <1>1, <1>2, <1>3, TypeCorrectness, PTL DEF Spec

LEMMA KeptStep ==
    ASSUME TypeOK, StepsOK, KeptOK, [Next]_vars
    PROVE  KeptOK'
<1>0. CASE UNCHANGED vars
  BY <1>0 DEF vars, KeptOK, Writing
<1>1. CASE PowerOn \/ NoVolume \/ Search \/ LoadMenu
  <2>1. /\ pc \notin {"delete", "create"} /\ pc' \notin {"delete", "create"}
        /\ UNCHANGED <<config, installed, torn>>
    BY <1>1 DEF PowerOn, NoVolume, Search, LoadMenu, AfterLoad, Goto
  <2>. QED BY <2>1 DEF KeptOK, Writing
<1>2. CASE WriteRefused
  BY <1>2 DEF WriteRefused, Failed, Stopped, Goto, StepsOK, KeptOK, Writing
<1>12. CASE WritePart
  BY <1>12 DEF WritePart, KeptOK, Writing
<1>3. CASE WriteDeletes
  BY <1>3 DEF WriteDeletes, Goto, KeptOK, Writing
<1>4. CASE WriteFails
  BY <1>4 DEF WriteFails, KeptOK
<1>5. CASE Written
  BY <1>5 DEF Written, Goto, StepsOK, KeptOK, Writing
<1>6. CASE Chosen
  <2>1. CASE UsesUpNextBoot
    <3>. DEFINE off == [config EXCEPT !.fastboot = "off"]
    <3>1. off.text = config.text /\ off.entries = config.entries
      BY DEF TypeOK, ConfigFiles
    <3>2. Write(off, "start") /\ pc = "chosen"
      BY <1>6, <2>1 DEF Chosen
    <3>. HIDE DEF off
    <3>3. boot'.text = off
      BY <3>2 DEF Write, TypeOK, BootStates
    <3>. QED BY <3>1, <3>2, <3>3 DEF Write, KeptOK, Writing
  <2>2. CASE ~UsesUpNextBoot
    BY <1>6, <2>2 DEF Chosen, Goto, KeptOK, Writing
  <2>. QED BY <2>1, <2>2
<1>7. CASE \/ Start \/ BadPath \/ ShowFrame \/ ReadFile \/ CannotRead \/ LoadModules
           \/ Handover \/ HandoverFails \/ MenuFails
  <2>1. /\ pc # "create" /\ pc' \notin {"delete", "create"}
        /\ UNCHANGED <<config, installed, torn>>
    BY <1>7 DEF Start, BadPath, ShowFrame, ReadFile, CannotRead, LoadModules, Handover,
                HandoverFails, MenuFails, Failed, Stopped, Goto
  <2>. QED BY <2>1 DEF KeptOK, Writing
<1>8. CASE \E i \in DOMAIN boot.menu.entries : Choose(i)
  BY <1>8 DEF Choose, Goto, KeptOK, Writing
<1>9. ASSUME NEW mode \in Modes, Save(mode) PROVE KeptOK'
  <2>1. /\ boot'.text = [Contents(config) EXCEPT !.spinner = mode] /\ pc = "menu"
        /\ UNCHANGED <<config, installed, torn>>
    BY <1>9 DEF Save, Saved, Write, TypeOK, BootStates
  <2>2. ASSUME config.text = "ok"
        PROVE  boot'.text.text = "ok" /\ boot'.text.entries = config.entries
    BY <2>1, <2>2 DEF Contents, TypeOK, ConfigFiles
  <2>. QED BY <2>1, <2>2 DEF KeptOK, Writing
<1>10. CASE \E c \in Configs, F \in FileSets : Update(c, F)
  BY <1>10 DEF Update, Goto, KeptOK, Writing
<1>11. CASE Reset \/ PowerCut
  BY <1>11 DEF Reset, PowerCut, Off, Goto, KeptOK, Writing
<1>. QED
  BY <1>0, <1>1, <1>2, <1>3, <1>4, <1>5, <1>6, <1>7, <1>8, <1>9, <1>10, <1>11, <1>12
  DEF Next, Running, AtMenu

\* The entries in r-boot.toml are those the operating system wrote, however
\* many saves and fast boots there were, unless a write failed or was cut.
THEOREM EntriesSurvive == Spec => []EntriesKept
<1>1. Init => KeptOK
  BY DEF Init, KeptOK, Writing
<1>2. KeptOK => EntriesKept
  BY DEF KeptOK, EntriesKept
<1>. QED BY <1>1, <1>2, KeptStep, TypeCorrectness, PTL DEF Spec

-----------------------------------------------------------------------------
(***************************************************************************)
(* What gets the machine.                                                  *)
(***************************************************************************)

\* The files to be handed over, in their order.
Target ==
    IF boot.menu.entries # <<>> THEN boot.menu.entries[boot.selected]
    ELSE IF boot.plan = "linux" THEN <<Vmlinuz, Initramfs>> ELSE <<KernelElf>>

\* Those read are the first ones, those to read the others.
Split(all) ==
    /\ Len(boot.read) + Len(boot.todo) = Len(all)
    /\ \A i \in 1 .. Len(boot.read) : boot.read[i] = all[i]
    /\ \A i \in 1 .. Len(boot.todo) : boot.todo[i] = all[Len(boot.read) + i]

Selected ==
    /\ boot.menu.entries # <<>> /\ boot.selected \in DOMAIN boot.menu.entries
    /\ Fast => boot.selected = DefaultIndex(boot.menu)

Before == {"search", "load", "menu", "chosen", "start", "delete", "create"}
Loading == {"read", "reading", "modules", "handover", "os"}

ReadOK ==
    /\ pc \in Before => boot.read = <<>>
    /\ pc \in {"chosen", "start"} \/ (Writing /\ boot.next = "start") => Selected
    /\ pc \in Loading =>
         /\ IF boot.menu.entries # <<>> THEN Selected /\ boot.plan = "entry"
            ELSE boot.plan \in {"linux", "limine"}
         /\ boot.plan = "limine" => Vmlinuz \notin files
    /\ pc \in {"read", "reading"} => Split(Target)
    /\ pc = "modules" => boot.plan = "limine"
    /\ pc \in {"modules", "handover", "os"} =>
         IF boot.plan = "limine" THEN boot.read # <<>> /\ Head(boot.read) = KernelElf
         ELSE boot.read = Target

LEMMA TargetIsFiles ==
    ASSUME TypeOK, boot.menu.entries # <<>> => boot.selected \in DOMAIN boot.menu.entries
    PROVE  Target \in Seq(Files)
<1>1. boot.menu.entries \in Seq(Entries)
  BY DEF TypeOK, BootStates, ConfigFiles
<1>2. CASE boot.menu.entries # <<>>
  BY <1>1, <1>2 DEF Target, Entries
<1>3. CASE boot.menu.entries = <<>>
  <2>1. <<Vmlinuz, Initramfs>> \in Seq(Files) /\ <<KernelElf>> \in Seq(Files)
    BY BootsAssumption
  <2>. QED BY <1>3, <2>1 DEF Target
<1>. QED BY <1>2, <1>3

\* Before anything has been read all is still to read.
LEMMA AllToRead ==
    ASSUME NEW all \in Seq(Files), boot.read = <<>>, boot.todo = all
    PROVE  Split(all)
BY DEF Split

\* A file moves from the ones to the others.
LEMMA OneFileOn ==
    ASSUME NEW all \in Seq(Files), TypeOK, Split(all), boot.todo # <<>>,
           boot'.read = Append(boot.read, Head(boot.todo)), boot'.todo = Tail(boot.todo)
    PROVE  Split(all)'
<1>. DEFINE S == Files \cup {"absent"}
<1>1. PICK r \in Seq(S), t \in Seq(S) : r = boot.read /\ t = boot.todo
  <2>1. boot.read \in Seq(S) /\ boot.todo \in Seq(S)
    BY DEF TypeOK, BootStates
  <2>. QED BY <2>1, Zenon
<1>2. PICK r2 \in Seq(S), t2 \in Seq(S) : r2 = Append(r, Head(t)) /\ t2 = Tail(t)
  <2>1. Append(r, Head(t)) \in Seq(S) /\ Tail(t) \in Seq(S)
    BY <1>1
  <2>. QED BY <2>1, Zenon
<1>3. /\ Len(r2) = Len(r) + 1 /\ Len(t2) = Len(t) - 1 /\ Len(r) \in Nat /\ Len(t) \in Nat \ {0}
      /\ \A i \in 1 .. Len(r) : r2[i] = r[i]
      /\ r2[Len(r) + 1] = t[1]
      /\ \A i \in 1 .. Len(t2) : t2[i] = t[i + 1]
  <2>1. t # <<>>
    BY <1>1
  <2>2. Len(r) \in Nat /\ Len(t) \in Nat \ {0}
    BY <2>1
  <2>3. Len(r2) = Len(r) + 1 /\ Len(t2) = Len(t) - 1
    BY <1>2, <2>1
  <2>4. \A i \in 1 .. Len(r) : r2[i] = r[i]
    BY <1>2
  <2>5. r2[Len(r) + 1] = t[1]
    BY <1>2, <2>1
  <2>6. \A i \in 1 .. Len(t2) : t2[i] = t[i + 1]
    BY <1>2, <2>1
  <2>. QED BY <2>2, <2>3, <2>4, <2>5, <2>6
<1>4. /\ Len(r) + Len(t) = Len(all)
      /\ \A i \in 1 .. Len(r) : r[i] = all[i]
      /\ \A i \in 1 .. Len(t) : t[i] = all[Len(r) + i]
  BY <1>1, Zenon DEF Split
<1>5. /\ Len(r2) + Len(t2) = Len(all)
      /\ \A i \in 1 .. Len(r2) : r2[i] = all[i]
      /\ \A i \in 1 .. Len(t2) : t2[i] = all[Len(r2) + i]
  <2>1. ASSUME NEW i \in 1 .. Len(r2) PROVE r2[i] = all[i]
    <3>1. CASE i <= Len(r)
      BY <1>3, <1>4, <3>1
    <3>2. CASE i = Len(r) + 1
      <4>1. t[1] = all[Len(r) + 1]
        BY <1>3, <1>4
      <4>. QED BY <1>3, <3>2, <4>1
    <3>. QED BY <1>3, <3>1, <3>2
  <2>2. ASSUME NEW i \in 1 .. Len(t2) PROVE t2[i] = all[Len(r2) + i]
    <3>1. i + 1 \in 1 .. Len(t) /\ Len(r) + (i + 1) = Len(r2) + i
      BY <1>3
    <3>2. t[i + 1] = all[Len(r) + (i + 1)]
      BY <1>4, <3>1
    <3>. QED BY <1>3, <3>1, <3>2
  <2>3. Len(r2) + Len(t2) = Len(all)
    <3>1. Len(r) \in Nat /\ Len(t) \in Nat \ {0}
      BY <1>3
    <3>2. Len(r2) = Len(r) + 1 /\ Len(t2) = Len(t) - 1
      BY <1>3
    <3>3. Len(r) + Len(t) = Len(all)
      BY <1>4
    <3>4. (Len(r) + 1) + (Len(t) - 1) = Len(r) + Len(t)
      BY <3>1
    <3>. QED BY <3>2, <3>3, <3>4, Zenon
  <2>. QED BY <2>1, <2>2, <2>3
<1>6. boot'.read = r2 /\ boot'.todo = t2
  BY <1>1, <1>2
<1>. QED BY <1>5, <1>6 DEF Split

\* With nothing left to read, all has been read.
LEMMA AllRead ==
    ASSUME NEW all \in Seq(Files), NEW r \in Seq(Files \cup {"absent"}), Len(r) = Len(all),
           \A i \in 1 .. Len(r) : r[i] = all[i]
    PROVE  r = all
OBVIOUS

LEMMA SelectedStays ==
    ASSUME Selected, boot'.fastboot = boot.fastboot, boot'.selected = boot.selected,
           boot'.menu.entries = boot.menu.entries, boot'.menu.default = boot.menu.default
    PROVE  Selected'
BY DEF Selected, Fast, DefaultIndex

\* Steps between power-on and the reading, and those after a boot.
LEMMA ReadStepBefore ==
    ASSUME TypeOK, StepsOK, ReadOK, TypeOK',
           \/ PowerOn \/ NoVolume \/ Search \/ LoadMenu
           \/ WriteRefused \/ WriteDeletes \/ WritePart \/ WriteFails \/ Written \/ Chosen
    PROVE  ReadOK'
<1>1. CASE PowerOn
  <2>1. pc' \in {"search", "load"} /\ boot'.read = <<>>
    BY <1>1, FreshBoot DEF PowerOn, Goto, Fresh
  <2>. QED BY <2>1 DEF ReadOK, Before, Loading, Writing
<1>2. CASE NoVolume
  BY <1>2 DEF NoVolume, Goto, ReadOK, Before, Loading, Writing
<1>3. CASE Search
  BY <1>3 DEF Search, Goto, ReadOK, Before, Loading, Writing
<1>4. CASE LoadMenu
  <2>. DEFINE menu == [Contents(config) EXCEPT !.entries = @ \o Others]
  <2>1. AfterLoad(menu) /\ boot.read = <<>>
    BY <1>4 DEF LoadMenu, ReadOK, Before
  <2>2. CASE menu.entries = <<>>
    <3>. DEFINE todo == <<Vmlinuz, Initramfs>>
    <3>1. pc' = "read" /\ boot' = [boot EXCEPT !.menu = menu, !.plan = "linux", !.todo = todo]
      BY <2>1, <2>2 DEF AfterLoad, Goto
    <3>. HIDE DEF menu, todo
    <3>2. boot'.menu = menu /\ boot'.plan = "linux" /\ boot'.todo = todo /\ boot'.read = <<>>
      BY <2>1, <3>1 DEF TypeOK, BootStates
    <3>3. Target' = todo
      BY <2>2, <3>2 DEF Target, todo
    <3>4. Target' \in Seq(Files)
      <4>1. todo \in Seq(Files)
        BY BootsAssumption DEF todo
      <4>. QED BY <3>3, <4>1
    <3>5. Split(Target)'
      BY <3>2, <3>3, <3>4 DEF Split
    <3>. QED BY <2>2, <3>1, <3>2, <3>5 DEF ReadOK, Before, Loading, Writing
  <2>3. CASE menu.entries # <<>> /\ Fast
    <3>1. pc' = "chosen" /\ boot' = [boot EXCEPT !.menu = menu, !.selected = DefaultIndex(menu)]
      BY <2>1, <2>3 DEF AfterLoad, Goto
    <3>. HIDE DEF menu
    <3>2. boot'.menu = menu /\ boot'.selected = DefaultIndex(menu) /\ boot'.read = <<>>
      BY <2>1, <3>1 DEF TypeOK, BootStates
    <3>3. menu \in ConfigFiles
      BY <3>2 DEF TypeOK, BootStates
    <3>4. Selected'
      BY <2>3, <3>2, <3>3, DefaultInMenu DEF Selected
    <3>. QED BY <3>1, <3>2, <3>4 DEF ReadOK, Before, Loading, Writing
  <2>4. CASE menu.entries # <<>> /\ ~Fast
    <3>1. pc' = "menu" /\ boot' = [boot EXCEPT !.menu = menu]
      BY <2>1, <2>4 DEF AfterLoad, Goto
    <3>. HIDE DEF menu
    <3>2. boot'.read = <<>>
      BY <2>1, <3>1 DEF TypeOK, BootStates
    <3>. QED BY <3>1, <3>2 DEF ReadOK, Before, Loading, Writing
  <2>. QED BY <2>2, <2>3, <2>4
<1>10. ASSUME Stopped("menu") PROVE ReadOK'
  <2>1. pc' = "failed"
    BY <1>10 DEF Stopped, Goto
  <2>. QED BY <2>1 DEF ReadOK, Before, Loading, Writing
<1>5. CASE WriteRefused
  <2>1. CASE boot.next = "menu"
    BY <1>5, <1>10, <2>1 DEF WriteRefused, Failed
  <2>2. CASE boot.next # "menu"
    <3>1. /\ boot'.read = boot.read /\ boot'.fastboot = boot.fastboot
          /\ boot'.selected = boot.selected /\ boot'.menu = boot.menu
          /\ pc' = "start" /\ Writing /\ boot.next = "start" /\ pc = "delete"
      BY <1>5, <2>2 DEF WriteRefused, Goto, StepsOK, Writing, TypeOK, BootStates
    <3>2. Selected'
      BY <3>1, SelectedStays DEF ReadOK
    <3>. QED BY <3>1, <3>2 DEF ReadOK, Before, Loading, Writing
  <2>. QED BY <2>1, <2>2
<1>11. CASE WritePart
  BY <1>11 DEF WritePart, ReadOK, Before, Loading, Writing, Selected, Fast
<1>6. CASE WriteDeletes
  BY <1>6 DEF WriteDeletes, Goto, ReadOK, Before, Loading, Writing, Selected, Fast
<1>7. CASE WriteFails
  <2>1. CASE boot.next = "menu"
    BY <1>7, <1>10, <2>1 DEF WriteFails
  <2>2. CASE boot.next # "menu"
    <3>1. pc' = "start" /\ boot.next = "start" /\ Writing /\ boot' = boot /\ pc = "create"
      BY <1>7, <2>2 DEF WriteFails, Goto, StepsOK, Writing
    <3>. QED BY <3>1 DEF ReadOK, Before, Loading, Writing, Selected, Fast
  <2>. QED BY <2>1, <2>2
<1>8. CASE Written
  <2>1. pc' \in {"menu", "start"} /\ pc' = boot.next /\ Writing
    BY <1>8 DEF Written, Goto, StepsOK, Writing
  <2>2. boot'.read = <<>>
    BY <1>8 DEF Written, ReadOK, Before, TypeOK, BootStates
  <2>3. pc' = "start" => boot' = boot
    BY <1>8, <2>1 DEF Written
  <2>. QED BY <2>1, <2>2, <2>3 DEF ReadOK, Before, Loading, Writing, Selected, Fast
<1>9. CASE Chosen
  <2>1. pc = "chosen" /\ Selected /\ boot.read = <<>>
    BY <1>9 DEF Chosen, ReadOK, Before
  <2>2. CASE UsesUpNextBoot
    <3>1. Write([config EXCEPT !.fastboot = "off"], "start")
      BY <1>9, <2>2 DEF Chosen
    <3>2. /\ pc' \in {"delete", "create"} /\ boot'.read = boot.read /\ boot'.menu = boot.menu
          /\ boot'.selected = boot.selected /\ boot'.fastboot = boot.fastboot
      BY <3>1 DEF Write, Goto, TypeOK, BootStates
    <3>3. Selected'
      BY <2>1, <3>2, SelectedStays
    <3>. QED BY <2>1, <3>2, <3>3 DEF ReadOK, Before, Loading, Writing
  <2>3. CASE ~UsesUpNextBoot
    <3>1. pc' = "start" /\ boot' = boot
      BY <1>9, <2>3 DEF Chosen, Goto
    <3>. QED BY <2>1, <3>1 DEF ReadOK, Before, Loading, Writing, Selected, Fast
  <2>. QED BY <2>2, <2>3
<1>. QED BY <1>1, <1>2, <1>3, <1>4, <1>5, <1>6, <1>7, <1>8, <1>9, <1>11

\* Steps from the reading to the handover.
LEMMA ReadStepLoading ==
    ASSUME TypeOK, StepsOK, ReadOK, TypeOK',
           Start \/ ShowFrame \/ ReadFile \/ CannotRead \/ LoadModules \/ Handover
    PROVE  ReadOK'
<1>1. CASE Start
  <2>. DEFINE all == boot.menu.entries[boot.selected]
  <2>1. Selected /\ boot.read = <<>> /\ boot' = [boot EXCEPT !.plan = "entry", !.todo = all]
        /\ pc' = "read"
    BY <1>1 DEF Start, Goto, ReadOK, Before
  <2>. HIDE DEF all
  <2>2. /\ boot'.plan = "entry" /\ boot'.todo = all /\ boot'.read = <<>>
        /\ boot'.menu = boot.menu /\ boot'.selected = boot.selected /\ boot'.fastboot = boot.fastboot
    BY <2>1 DEF TypeOK, BootStates
  <2>3. Selected'
    BY <2>1, <2>2, SelectedStays
  <2>4. Target' = all
    BY <2>1, <2>2 DEF Target, Selected, all
  <2>5. all \in Seq(Files)
    <3>1. boot.menu.entries \in Seq(Entries)
      BY DEF TypeOK, BootStates, ConfigFiles
    <3>. QED BY <2>1, <3>1 DEF Selected, Entries, all
  <2>6. Split(Target)'
    BY <2>2, <2>4, <2>5 DEF Split
  <2>. QED BY <2>1, <2>2, <2>3, <2>6 DEF ReadOK, Before, Loading, Writing, Selected
<1>2. CASE ShowFrame
  <2>1. pc = "read" /\ pc' = "reading" /\ boot' = boot /\ files' = files
    BY <1>2 DEF ShowFrame, Goto
  <2>2. Split(Target)'
    BY <2>1 DEF ReadOK, Split, Target
  <2>. QED BY <2>1, <2>2 DEF ReadOK, Before, Loading, Writing, Selected, Fast
<1>3. CASE ReadFile
  <2>1. /\ pc = "reading" /\ boot.todo # <<>> /\ files' = files
        /\ boot' = [boot EXCEPT !.todo = Tail(boot.todo), !.read = Append(boot.read, Head(boot.todo))]
    BY <1>3 DEF ReadFile, Extended, StepsOK
  <2>. DEFINE all == Append(boot.read, Head(boot.todo))
              rest == Tail(boot.todo)
  <2>2. /\ boot'.read = all /\ boot'.todo = rest /\ boot'.plan = boot.plan
        /\ boot'.menu = boot.menu /\ boot'.selected = boot.selected /\ boot'.fastboot = boot.fastboot
    <3>. HIDE DEF all, rest
    <3>1. boot' = [boot EXCEPT !.todo = rest, !.read = all]
      BY <2>1 DEF all, rest
    <3>. QED BY <3>1 DEF TypeOK, BootStates
  <2>3. /\ IF boot.menu.entries # <<>> THEN Selected /\ boot.plan = "entry"
           ELSE boot.plan \in {"linux", "limine"}
        /\ boot.plan = "limine" => Vmlinuz \notin files
        /\ Split(Target)
    BY <2>1 DEF ReadOK, Loading
  <2>4. Target \in Seq(Files) /\ Target' = Target
    BY <2>2, <2>3, TargetIsFiles DEF Selected, Target
  <2>. HIDE DEF all, rest
  <2>5. Split(Target)'
    <3>1. PICK target \in Seq(Files) : target = Target
      BY <2>4, Zenon
    <3>2. Split(target)'
      BY <2>1, <2>2, <2>3, <3>1, OneFileOn DEF all, rest
    <3>. QED BY <2>4, <3>1, <3>2 DEF Split
  <2>6. /\ IF boot'.menu.entries # <<>> THEN Selected' /\ boot'.plan = "entry"
           ELSE boot'.plan \in {"linux", "limine"}
        /\ boot'.plan = "limine" => Vmlinuz \notin files'
    BY <2>1, <2>2, <2>3, SelectedStays
  <2>7. CASE boot'.todo # <<>>
    <3>1. pc' = "read"
      BY <1>3, <2>7 DEF ReadFile, Goto
    <3>. QED BY <2>5, <2>6, <3>1 DEF ReadOK, Before, Loading, Writing
  <2>8. CASE boot'.todo = <<>>
    <3>1. pc' = IF boot.plan = "limine" THEN "modules" ELSE "handover"
      BY <1>3, <2>2, <2>8 DEF ReadFile, Goto
    <3>2. boot'.read = Target'
      <4>1. PICK target \in Seq(Files) : target = Target'
        BY <2>4, Zenon
      <4>2. PICK r \in Seq(Files \cup {"absent"}) : r = boot'.read
        <5>1. boot'.read \in Seq(Files \cup {"absent"})
          BY DEF TypeOK, BootStates
        <5>. QED BY <5>1, Zenon
      <4>3. Len(boot'.todo) = 0
        BY <2>8
      <4>4. /\ Len(r) + Len(boot'.todo) = Len(target)
            /\ \A i \in 1 .. Len(r) : r[i] = target[i]
        BY <2>5, <4>1, <4>2, Zenon DEF Split
      <4>5. Len(r) = Len(target)
        BY <4>3, <4>4
      <4>6. r = target
        BY <4>4, <4>5, AllRead
      <4>. QED BY <4>1, <4>2, <4>6
    <3>3. boot.plan = "limine" => boot'.read # <<>> /\ Head(boot'.read) = KernelElf
      <4>1. boot.plan = "limine" => Target' = <<KernelElf>>
        BY <2>2, <2>3 DEF Target
      <4>. QED BY <3>2, <4>1
    <3>. QED BY <2>2, <2>6, <3>1, <3>2, <3>3 DEF ReadOK, Before, Loading, Writing
  <2>. QED BY <2>7, <2>8
<1>4. CASE CannotRead
  <2>1. CASE boot.plan = "linux" /\ boot.read = <<>>
    <3>. DEFINE todo == <<KernelElf>>
    <3>1. /\ boot' = [boot EXCEPT !.plan = "limine", !.todo = todo]
          /\ pc = "reading" /\ pc' = "read" /\ files' = files /\ Head(boot.todo) \notin files
      BY <1>4, <2>1 DEF CannotRead, TryLimine, Goto
    <3>. HIDE DEF todo
    <3>2. /\ boot'.plan = "limine" /\ boot'.todo = todo /\ boot'.read = <<>> /\ boot'.menu = boot.menu
      BY <2>1, <3>1 DEF TypeOK, BootStates
    <3>3. boot.menu.entries = <<>> /\ Split(Target)
      BY <2>1, <3>1 DEF ReadOK, Loading
    <3>4. Vmlinuz \notin files
      <4>1. Target = <<Vmlinuz, Initramfs>> /\ Len(boot.read) = 0
        BY <2>1, <3>3 DEF Target
      <4>2. boot.todo \in Seq(Files) /\ boot.todo # <<>>
        BY <3>1 DEF TypeOK, BootStates, StepsOK
      <4>3. 1 \in 1 .. Len(boot.todo) /\ Head(boot.todo) = boot.todo[1]
        BY <4>2
      <4>4. boot.todo[1] = Target[0 + 1]
        BY <3>3, <4>1, <4>3 DEF Split
      <4>. QED BY <3>1, <4>1, <4>3, <4>4
    <3>5. Target' = todo /\ todo \in Seq(Files)
      BY <3>2, <3>3, BootsAssumption DEF Target, todo
    <3>6. Split(Target)'
      BY <3>2, <3>5 DEF Split
    <3>. QED BY <3>1, <3>2, <3>3, <3>4, <3>6 DEF ReadOK, Before, Loading, Writing
  <2>2. CASE ~(boot.plan = "linux" /\ boot.read = <<>>)
    <3>1. pc' = "failed"
      BY <1>4, <2>2 DEF CannotRead, Failed, Stopped, Goto
    <3>. QED BY <3>1 DEF ReadOK, Before, Loading, Writing
  <2>. QED BY <2>1, <2>2
<1>5. CASE LoadModules
  <2>1. /\ pc = "modules" /\ boot.plan = "limine" /\ boot.menu.entries = <<>>
        /\ boot.read # <<>> /\ Head(boot.read) = KernelElf /\ Vmlinuz \notin files /\ files' = files
    BY <1>5 DEF LoadModules, ReadOK, Loading
  <2>2. CASE \E m \in Files \cup {"absent"} : boot' = [boot EXCEPT !.read = Append(@, m)] /\ pc' = pc
    <3>. PICK m \in Files \cup {"absent"} : boot' = [boot EXCEPT !.read = Append(@, m)] /\ pc' = pc
      BY <2>2
    <3>. DEFINE all == Append(boot.read, m)
    <3>1. all # <<>> /\ Head(all) = KernelElf
      <4>1. boot.read \in Seq(Files \cup {"absent"}) /\ boot.read # <<>> /\ Len(boot.read) # 0
        BY <2>1 DEF TypeOK, BootStates
      <4>2. all \in Seq(Files \cup {"absent"}) /\ all[1] = boot.read[1] /\ all # <<>>
        BY <4>1
      <4>. QED BY <2>1, <4>1, <4>2
    <3>. HIDE DEF all
    <3>2. boot'.read = all /\ boot'.plan = "limine" /\ boot'.menu = boot.menu
      BY <2>1 DEF TypeOK, BootStates, all
    <3>. QED BY <2>1, <2>2, <3>1, <3>2 DEF ReadOK, Before, Loading, Writing
  <2>3. CASE boot' = boot /\ pc' = "handover"
    BY <2>1, <2>3 DEF ReadOK, Before, Loading, Writing
  <2>4. (\E m \in Files \cup {"absent"} : boot' = [boot EXCEPT !.read = Append(@, m)] /\ pc' = pc)
        \/ (boot' = boot /\ pc' = "handover")
    <3>1. CASE Len(boot.read) <= Len(Modules)
      <4>. DEFINE m == Modules[Len(boot.read)]
      <4>1. Len(boot.read) \in Nat \ {0}
        BY <2>1 DEF TypeOK, BootStates
      <4>2. m \in Files
        BY <3>1, <4>1, BootsAssumption
      <4>3. ~(Len(boot.read) > Len(Modules))
        BY <3>1, <4>1, BootsAssumption
      <4>4. pc' = pc
        BY <1>5, <3>1, <4>3 DEF LoadModules
      <4>5. CASE m \in files
        <5>1. boot' = [boot EXCEPT !.read = Append(@, m)]
          BY <1>5, <3>1, <4>3, <4>5 DEF LoadModules
        <5>. QED BY <4>2, <4>4, <5>1
      <4>6. CASE m \notin files
        <5>1. boot' = [boot EXCEPT !.read = Append(@, "absent")]
          BY <1>5, <3>1, <4>3, <4>6 DEF LoadModules
        <5>. QED BY <4>4, <5>1
      <4>. QED BY <4>5, <4>6
    <3>2. CASE Len(boot.read) > Len(Modules) /\ ~(Len(boot.read) <= Len(Modules))
      BY <1>5, <3>2 DEF LoadModules, Goto
    <3>3. Len(boot.read) \in Nat /\ Len(Modules) \in Nat
      BY BootsAssumption DEF TypeOK, BootStates
    <3>. QED BY <3>1, <3>2, <3>3
  <2>. QED BY <2>2, <2>3, <2>4
<1>6. CASE Handover
  <2>1. pc = "handover" /\ pc' = "os" /\ boot' = boot /\ files' = files
    BY <1>6 DEF Handover, Goto
  <2>. QED BY <2>1 DEF ReadOK, Before, Loading, Writing, Selected, Fast, Target
<1>. QED BY <1>1, <1>2, <1>3, <1>4, <1>5, <1>6

LEMMA ReadStep ==
    ASSUME TypeOK, StepsOK, ReadOK, TypeOK', [Next]_vars
    PROVE  ReadOK'
<1>1. CASE UNCHANGED vars
  BY <1>1 DEF vars, ReadOK, Before, Loading, Writing, Selected, Fast, Split, Target
<1>2. CASE \/ PowerOn \/ NoVolume \/ Search \/ LoadMenu
           \/ WriteRefused \/ WriteDeletes \/ WritePart \/ WriteFails \/ Written \/ Chosen
  BY <1>2, ReadStepBefore
<1>3. CASE Start \/ ShowFrame \/ ReadFile \/ CannotRead \/ LoadModules \/ Handover
  BY <1>3, ReadStepLoading
<1>4. CASE BadPath \/ HandoverFails \/ MenuFails
  <2>1. pc' = "failed"
    BY <1>4 DEF BadPath, HandoverFails, MenuFails, Failed, Stopped, Goto
  <2>. QED BY <2>1 DEF ReadOK, Before, Loading, Writing
<1>5. ASSUME NEW i \in DOMAIN boot.menu.entries, Choose(i) PROVE ReadOK'
  <2>1. /\ boot'.read = boot.read /\ boot'.menu = boot.menu /\ boot'.selected = i
        /\ boot'.fastboot = boot.fastboot /\ pc = "menu" /\ pc' = "chosen"
    BY <1>5 DEF Choose, Goto, TypeOK, BootStates
  <2>2. boot.menu.entries # <<>> /\ ~Fast
    BY <2>1 DEF StepsOK
  <2>3. Selected'
    BY <2>1, <2>2 DEF Selected, Fast
  <2>. QED BY <2>1, <2>3 DEF ReadOK, Before, Loading, Writing
<1>6. ASSUME NEW mode \in Modes, Save(mode) PROVE ReadOK'
  <2>1. /\ boot'.read = boot.read /\ boot'.next = "menu" /\ pc = "menu"
        /\ pc' \in {"delete", "create"}
    BY <1>6 DEF Save, Write, Goto, TypeOK, BootStates
  <2>. QED BY <2>1 DEF ReadOK, Before, Loading, Writing
<1>7. CASE (\E c \in Configs, F \in FileSets : Update(c, F)) \/ Reset \/ PowerCut
  <2>1. pc' \in {"updated", "off"}
    BY <1>7 DEF Update, Reset, PowerCut, Off, Goto
  <2>. QED BY <2>1 DEF ReadOK, Before, Loading, Writing
<1>. QED BY <1>1, <1>2, <1>3, <1>4, <1>5, <1>6, <1>7 DEF Next, Running, AtMenu

\* However a boot goes, the machine is given to the kernel of the entry
\* chosen with all its initrds in order, in a fast boot to the default
\* entry's, and to a file of the fixed layout only without entries.
THEOREM TheChosenIsHandedOver == Spec => []HandedOver
<1>1. Init => ReadOK
  BY DEF Init, ReadOK, Before, Loading, Writing
<1>2. ReadOK => HandedOver
  BY DEF ReadOK, Loading, Selected, Target, HandedOver
<1>3. TypeOK /\ StepsOK /\ ReadOK /\ TypeOK' /\ [Next]_vars => ReadOK'
  BY ReadStep
<1>. QED BY <1>1, <1>2, <1>3, TypeCorrectness, PTL DEF Spec

-----------------------------------------------------------------------------
(***************************************************************************)
(* The ring of dots.                                                       *)
(***************************************************************************)

\* A ring that was drawn and not erased is one of the present spinner.
RingOK ==
    /\ ring = "drawn" => spinner.mode # "text" /\ spinner.position
    /\ pc \in {"menu", "chosen", "start", "delete", "create"} => ring # "drawn"
    /\ pc = "failed" /\ boot.failure = "read" => ring # "drawn"

LEMMA TickKnowsRing ==
    ASSUME spinner \in Spinners, ring = "drawn" => spinner.mode # "text" /\ spinner.position,
           NEW screen, Tick(screen)
    PROVE  ring' = "drawn" => spinner'.mode # "text" /\ spinner'.position
<1>1. CASE UNCHANGED spinnerVars
  BY <1>1 DEF spinnerVars
<1>2. CASE spinner.mode = "text" /\ TextTick /\ UNCHANGED ring
  BY <1>2
<1>3. CASE /\ spinner.mode = "graphical"
           /\ spinner' = [spinner EXCEPT !.index = (@ + 1) % Dots, !.position = TRUE]
  <2>. DEFINE next == (spinner.index + 1) % Dots
  <2>1. spinner' = [spinner EXCEPT !.index = next, !.position = TRUE]
    BY <1>3
  <2>. HIDE DEF next
  <2>. QED BY <1>3, <2>1 DEF Spinners
<1>. QED BY <1>1, <1>2, <1>3 DEF Tick

LEMMA ClearTakesRing ==
    ASSUME RingOK, NEW r \in Cleared(spinner)
    PROVE  r # "drawn"
BY DEF RingOK, Cleared

LEMMA RingStep ==
    ASSUME TypeOK, StepsOK, FastbootQuiet, RingOK, [Next]_vars
    PROVE  RingOK'
<1>0. CASE UNCHANGED vars
  BY <1>0 DEF vars, RingOK
<1>1. CASE PowerOn \/ NoVolume \/ Reset \/ PowerCut
  <2>1. ring' = "none"
    BY <1>1 DEF PowerOn, NoVolume, Reset, PowerCut, Off
  <2>. QED BY <2>1 DEF RingOK
<1>2. CASE Search \/ ShowFrame
  <2>1. PICK screen \in BOOLEAN : Tick(screen)
    BY <1>2 DEF Search, ShowFrame
  <2>2. pc' \in {"load", "reading"}
    BY <1>2 DEF Search, ShowFrame, Goto
  <2>3. ring' = "drawn" => spinner'.mode # "text" /\ spinner'.position
    BY <2>1, TickKnowsRing DEF TypeOK, RingOK
  <2>. QED BY <2>2, <2>3 DEF RingOK
<1>3. CASE LoadMenu
  <2>1. ring' # "drawn"
    <3>1. CASE Fast
      BY <1>3, <3>1 DEF LoadMenu, FastbootQuiet, spinnerVars
    <3>2. CASE ~Fast
      <4>1. ring' \in Cleared(spinner)
        BY <1>3, <3>2 DEF LoadMenu
      <4>. QED BY <4>1, ClearTakesRing
    <3>. QED BY <3>1, <3>2
  <2>. QED BY <2>1 DEF RingOK
<1>4. CASE WriteRefused \/ WriteDeletes \/ WritePart \/ WriteFails \/ Written \/ Chosen
  <2>1. ring # "drawn" /\ ring' = ring
    BY <1>4 DEF WriteRefused, WriteDeletes, WritePart, WriteFails, Written, Chosen, Write, RingOK,
                spinnerVars
  <2>. QED BY <2>1 DEF RingOK
<1>5. CASE Start
  <2>1. ring # "drawn" /\ ring' \in {"none", ring}
    BY <1>5 DEF Start, RingOK, spinnerVars
  <2>. QED BY <2>1 DEF RingOK
<1>6. CASE BadPath \/ HandoverFails \/ MenuFails
  <2>1. PICK why \in {"path", "handover", "menu"} : Failed(why) /\ UNCHANGED spinnerVars
    BY <1>6 DEF BadPath, HandoverFails, MenuFails
  <2>2. boot'.failure = why /\ pc' = "failed"
    BY <2>1 DEF Failed, Stopped, Goto, TypeOK, BootStates
  <2>. QED BY <2>1, <2>2 DEF RingOK, spinnerVars
<1>7. CASE ReadFile
  <2>1. pc' \in {"read", "modules", "handover"} /\ UNCHANGED <<spinner, ring>>
    BY <1>7 DEF ReadFile, Goto
  <2>. QED BY <2>1 DEF RingOK
<1>8. CASE CannotRead
  <2>1. ring' # "drawn"
    BY <1>8, ClearTakesRing DEF CannotRead, AfterClear
  <2>. QED BY <2>1 DEF RingOK
<1>9. CASE LoadModules
  <2>1. pc' \in {"modules", "handover"}
    BY <1>9 DEF LoadModules, Goto
  <2>2. UNCHANGED spinnerVars \/ \E screen \in BOOLEAN : Tick(screen)
    BY <1>9 DEF LoadModules, spinnerVars
  <2>3. ring' = "drawn" => spinner'.mode # "text" /\ spinner'.position
    <3>1. CASE UNCHANGED spinnerVars
      BY <3>1 DEF spinnerVars, RingOK
    <3>2. CASE \E screen \in BOOLEAN : Tick(screen)
      BY <3>2, TickKnowsRing DEF TypeOK, RingOK
    <3>. QED BY <2>2, <3>1, <3>2
  <2>. QED BY <2>1, <2>3 DEF RingOK
<1>10. CASE Handover
  BY <1>10 DEF Handover, Goto, RingOK
<1>11. CASE (\E i \in DOMAIN boot.menu.entries : Choose(i)) \/ (\E mode \in Modes : Save(mode))
  <2>1. pc = "menu" /\ ring' = ring
    BY <1>11 DEF Choose, Save, Write
  <2>. QED BY <2>1 DEF RingOK
<1>12. CASE \E c \in Configs, F \in FileSets : Update(c, F)
  BY <1>12 DEF Update, Goto, RingOK
<1>. QED
  BY <1>0, <1>1, <1>2, <1>3, <1>4, <1>5, <1>6, <1>7, <1>8, <1>9, <1>10, <1>11, <1>12
  DEF Next, Running, AtMenu

\* The message of a boot that cannot read a file is not hidden by a ring,
\* whatever modes the spinner went through since power-on.
THEOREM FailuresAreShown == Spec => []FailureShown
<1>1. Init => RingOK
  BY DEF Init, RingOK
<1>2. RingOK => FailureShown
  BY DEF RingOK, FailureShown
<1>3. TypeOK /\ StepsOK /\ FastbootQuiet /\ RingOK /\ [Next]_vars => RingOK'
  BY RingStep
<1>. QED BY <1>1, <1>2, <1>3, TypeCorrectness, FastbootsAreQuiet, PTL DEF Spec
=============================================================================
