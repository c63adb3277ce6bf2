------------------------------- MODULE Boots -------------------------------
(***************************************************************************)
(* The life of a machine that boots with r-boot: boot_kernel from power-on *)
(* to the handover, again and again, with power cuts at any step, files    *)
(* that cannot be read and writes to the ESP that fail half way, and the   *)
(* operating system changing the files in between.                         *)
(*                                                                         *)
(* The boot menu is one choice here, BootMenu has its keys and its timer;  *)
(* how the lines of r-boot.toml are read and edited is BootToml's matter.  *)
(***************************************************************************)
EXTENDS Naturals, Sequences, Spinner

CONSTANTS
    Configs,      \* contents of r-boot.toml the operating system may leave
    Files,        \* names of boot files
    CutName,      \* what is left of one when a write to r-boot.toml is cut short
    FileSets,     \* sets of them it may leave on the ESP
    OtherLoader,  \* the configuration of systemd-boot or GRUB, and
    OtherEntries, \*   the entries in it
    Vmlinuz, Initramfs, KernelElf,  \* the fixed layout
    Modules,      \* init.elf, console.elf, std-smoke.elf
    MaxBoots      \* bound on the number of times the machine is started

FastbootModes == {"off", "next-boot", "on"}

\* An entry is the files it boots: the kernel, then its initrds.
\* "garbled" stands for a file that is not UTF-8; the others can be read.
Empty == [text |-> "ok", fastboot |-> "off", spinner |-> "graphical", default |-> 1,
          entries |-> <<>>]
Absent == [Empty EXCEPT !.text = "absent"]
Garbled(c) == [c EXCEPT !.text = "garbled"]

Entries == Seq(Files) \ {<<>>}
ConfigFiles == [text : {"ok", "garbled", "absent"}, fastboot : FastbootModes, spinner : Modes,
                default : Nat, entries : Seq(Entries)]

ASSUME BootsAssumption ==
    /\ MaxBoots \in Nat
    /\ Configs \subseteq ConfigFiles
    /\ OtherEntries \in Seq(Entries)
    /\ {CutName, Vmlinuz, Initramfs, KernelElf} \subseteq Files
    /\ Modules \in Seq(Files)

VARIABLES
    config,     \* boot/r-boot.toml
    files,      \* the other files on the ESP
    pc,
    boot,       \* the variables of boot_kernel: see Fresh
    installed,  \* history: r-boot.toml as the operating system left it
    torn,       \* history: a write to it failed or was cut short since
    fasts,      \* history: next-boot fast boots that ran to the end since, by
                \* whether they were of an entry or of the fixed `layout`
    boots       \* number of starts

espVars == <<config, files>>
history == <<installed, torn, fasts>>
vars == <<config, files, pc, boot, installed, torn, fasts, boots, spinner, ring>>

\* todo are the files still to read, read those that have been.  While
\* r-boot.toml is written, text is the new contents and next the step after.
Fresh == [fastboot |-> "off", menu |-> Empty, selected |-> 0, plan |-> "none",
          todo |-> <<>>, read |-> <<>>, text |-> Empty, next |-> "off",
          refused |-> FALSE, failure |-> "none"]

Fast == boot.fastboot # "off"
Writing == pc \in {"delete", "create"}

\* What reading r-boot.toml makes of it: an unreadable one counts as empty.
Contents(c) == IF c.text = "ok" THEN c ELSE Empty

\* Fast boots are counted unless the firmware refused to rewrite the file.
NoFasts == [entry |-> 0, layout |-> 0]
Counted ==
    CASE boot.fastboot # "next-boot" \/ boot.refused -> fasts
      [] boot.fastboot = "next-boot" /\ ~boot.refused /\ boot.selected # 0 ->
            [fasts EXCEPT !.entry = @ + 1]
      [] boot.fastboot = "next-boot" /\ ~boot.refused /\ boot.selected = 0 ->
            [fasts EXCEPT !.layout = @ + 1]

Init ==
    /\ config \in Configs /\ files \in FileSets
    /\ pc = "off" /\ boot = Fresh
    /\ installed = config /\ torn = FALSE /\ fasts = NoFasts /\ boots = 0
    /\ spinner = New("off") /\ ring = "none"

Goto(label) == pc' = label

\* boot_kernel returns an error and main LOAD_ERROR.
Stopped(why) ==
    /\ Goto("failed")
    /\ boot' = [boot EXCEPT !.failure = why]
    /\ fasts' = Counted
    /\ UNCHANGED <<config, files, installed, boots>>
Failed(why) == Stopped(why) /\ UNCHANGED torn

(***************************************************************************)
(* From power-on to the menu.                                              *)
(***************************************************************************)
PowerOn ==
    /\ pc = "off" /\ boots < MaxBoots
    /\ boots' = boots + 1
    /\ boot' = [Fresh EXCEPT !.fastboot = Contents(config).fastboot]
    /\ IF boot'.fastboot = "off"
       THEN spinner' = New(Contents(config).spinner) /\ Goto("search")
       ELSE spinner' = New("off") /\ Goto("load")
    /\ ring' = "none"
    /\ UNCHANGED <<config, files, installed, torn, fasts>>

\* The boot volume does not open; nothing has been read.
NoVolume ==
    /\ pc = "off" /\ boots < MaxBoots
    /\ boots' = boots + 1
    /\ boot' = [Fresh EXCEPT !.failure = "volume"] /\ Goto("failed")
    /\ spinner' = New("off") /\ ring' = "none"
    /\ UNCHANGED <<config, files, installed, torn, fasts>>

Search ==
    /\ pc = "search"
    /\ \E screen \in BOOLEAN : Tick(screen)
    /\ Goto("load")
    /\ UNCHANGED <<config, files, boot, installed, torn, fasts, boots>>

DefaultIndex(menu) == IF menu.default \in DOMAIN menu.entries THEN menu.default ELSE 1

\* Where the boot goes with a menu, and what it is to read without one.
AfterLoad(menu) ==
    CASE menu.entries = <<>> ->
           /\ Goto("read")
           /\ boot' = [boot EXCEPT !.menu = menu, !.plan = "linux", !.todo = <<Vmlinuz, Initramfs>>]
      [] menu.entries # <<>> /\ Fast ->
           /\ Goto("chosen")
           /\ boot' = [boot EXCEPT !.menu = menu, !.selected = DefaultIndex(menu)]
      [] OTHER -> Goto("menu") /\ boot' = [boot EXCEPT !.menu = menu]

\* Entries of other boot loaders follow those of r-boot.toml.
Others == IF OtherLoader \in files THEN OtherEntries ELSE <<>>

LoadMenu ==
    /\ pc = "load"
    /\ LET menu == [Contents(config) EXCEPT !.entries = @ \o Others]
       IN  /\ AfterLoad(menu)
           /\ IF Fast THEN UNCHANGED spinnerVars
              ELSE ring' \in Cleared(spinner) /\ spinner' = New(menu.spinner)
    /\ UNCHANGED <<config, files, installed, torn, fasts, boots>>

(***************************************************************************)
(* The menu: an entry is chosen, the settings are saved, or r-boot stops.  *)
(***************************************************************************)
Choose(i) ==
    /\ pc = "menu"
    /\ boot' = [boot EXCEPT !.selected = i]
    /\ Goto("chosen")
    /\ UNCHANGED <<config, files, installed, torn, fasts, boots, spinner, ring>>

MenuFails == pc = "menu" /\ Failed("menu") /\ UNCHANGED spinnerVars

Write(text, next) ==
    /\ boot' = [boot EXCEPT !.text = text, !.next = next]
    /\ Goto(IF config.text = "absent" THEN "create" ELSE "delete")
    /\ UNCHANGED <<config, files, installed, torn, fasts, boots, spinner, ring>>

\* Mutant: the settings are written with the entries of the menu.
SavedMenu(mode) == [boot.menu EXCEPT !.spinner = mode]

\* persist_settings: the text read back, or nothing, with the new settings.
Saved(mode) == [Contents(config) EXCEPT !.spinner = mode]

Save(mode) == pc = "menu" /\ Write(Saved(mode), "menu")

(***************************************************************************)
(* FileSystem::write of the uefi crate deletes the file, creates it and    *)
(* fills it.  The menu's caller passes a failure on, which ends r-boot;    *)
(* the one that takes a fast boot back does not look at it.                *)
(***************************************************************************)
WriteRefused ==
    /\ pc = "delete"
    /\ IF boot.next = "menu" THEN Failed("menu")
       ELSE /\ Goto(boot.next) /\ boot' = [boot EXCEPT !.refused = TRUE]
            /\ UNCHANGED <<config, files, installed, torn, fasts, boots>>
    /\ UNCHANGED spinnerVars

WriteDeletes ==
    /\ pc = "delete"
    /\ config' = Absent /\ Goto("create")
    /\ UNCHANGED <<files, boot, installed, torn, fasts, boots, spinner, ring>>

\* The beginnings of a text.  Its settings come before its entries; one cut
\* short counts as not set, and a name in an entry is another name then.
CutEntries(entry) ==
    {SubSeq(entry, 1, k) : k \in DOMAIN entry}
      \cup {Append(SubSeq(entry, 1, k - 1), CutName) : k \in DOMAIN entry}
CutWithin(text, n) ==
    {[text EXCEPT !.entries = Append(SubSeq(@, 1, n - 1), last)] :
        last \in CutEntries(text.entries[n])}
Beginnings(text) ==
    {[Empty EXCEPT !.fastboot = f, !.spinner = s, !.default = d] :
        f \in {"off", text.fastboot}, s \in {"graphical", text.spinner}, d \in {1, text.default}}
      \cup UNION {CutWithin(text, n) : n \in DOMAIN text.entries}

\* Some of it reaches the volume, perhaps up to the middle of a character;
\* how far the rest gets matters no more than that it stops there.
WritePart ==
    /\ pc = "create" /\ config = Absent
    /\ config' \in Beginnings(boot.text) \cup {Garbled(Empty)}
    /\ UNCHANGED <<files, pc, boot, installed, torn, fasts, boots, spinner, ring>>

\* A full or failing ESP: no file, or what is in it so far.
WriteFails ==
    /\ pc = "create" /\ torn' = TRUE
    /\ IF boot.next = "menu" THEN Stopped("menu")
       ELSE Goto(boot.next) /\ UNCHANGED <<config, files, boot, installed, fasts, boots>>
    /\ UNCHANGED spinnerVars

\* After a save the menu goes by the new settings.
Written ==
    /\ pc = "create"
    /\ config' = boot.text /\ Goto(boot.next)
    /\ boot' = IF boot.next = "menu" THEN [boot EXCEPT !.menu.spinner = boot.text.spinner] ELSE boot
    /\ UNCHANGED <<files, installed, torn, fasts, boots, spinner, ring>>

(***************************************************************************)
(* From the choice to the handover.                                        *)
(***************************************************************************)

\* Mutant: with the other steps a fast boot skips.
UsesUpIfShown == ~Fast /\ boot.fastboot = "next-boot" /\ config.text = "ok"

\* disable_next_boot_fastboot: a file that cannot be read is left alone.
UsesUpNextBoot == boot.fastboot = "next-boot" /\ config.text = "ok"

Chosen ==
    /\ pc = "chosen"
    /\ IF UsesUpNextBoot
       THEN Write([config EXCEPT !.fastboot = "off"], "start")
       ELSE /\ Goto("start")
            /\ UNCHANGED <<config, files, boot, installed, torn, fasts, boots, spinner, ring>>

\* Mutant: the menu's spinner is set up for a fast boot too.
AlwaysShown == TRUE

Shown == ~Fast

\* The menu is cleared away and the entry taken out of it.
Start ==
    /\ pc = "start"
    /\ IF Shown
       THEN spinner' = New(boot.menu.spinner) /\ ring' \in {"none", ring}
       ELSE UNCHANGED spinnerVars
    /\ boot' = [boot EXCEPT !.plan = "entry", !.todo = boot.menu.entries[boot.selected]]
    /\ Goto("read")
    /\ UNCHANGED <<config, files, installed, torn, fasts, boots>>

\* A path of the entry is not a valid one: nothing is cleared.
BadPath ==
    /\ pc = "read" /\ boot.plan = "entry"
    /\ Failed("path") /\ UNCHANGED spinnerVars

\* read_with_spinner: a frame, then the file.
ShowFrame ==
    /\ pc = "read"
    /\ \E screen \in BOOLEAN : Tick(screen)
    /\ Goto("reading")
    /\ UNCHANGED <<config, files, boot, installed, torn, fasts, boots>>

\* Mutant: an initrd takes the place of the one before.
LastInitrd(read, file) == IF read = <<>> THEN <<file>> ELSE <<read[1], file>>

Extended(read, file) == Append(read, file)

ReadFile ==
    /\ pc = "reading" /\ Head(boot.todo) \in files
    /\ boot' = [boot EXCEPT !.todo = Tail(@), !.read = Extended(@, Head(boot.todo))]
    /\ Goto(CASE boot'.todo # <<>>     -> "read"
              [] boot'.todo = <<>> /\ boot.plan = "limine" -> "modules"
              [] OTHER                 -> "handover")
    /\ UNCHANGED <<config, files, installed, torn, fasts, boots, spinner, ring>>

\* Mutant: a failed read leaves its frame.
FrameLeft == {ring}

AfterClear == Cleared(spinner)

\* Mutant: the fixed layout is tried again.
TryVmlinuz == [boot EXCEPT !.plan = "linux", !.todo = <<Vmlinuz, Initramfs>>]

TryLimine == [boot EXCEPT !.plan = "limine", !.todo = <<KernelElf>>]

\* Without a vmlinuz the fixed layout is that of a Limine kernel; without
\* any other file the boot fails.
CannotRead ==
    /\ pc = "reading" /\ Head(boot.todo) \notin files
    /\ ring' \in AfterClear /\ UNCHANGED spinner
    /\ IF boot.plan = "linux" /\ boot.read = <<>>
       THEN /\ boot' = TryLimine
            /\ Goto("read")
            /\ UNCHANGED <<config, files, installed, torn, fasts, boots>>
       ELSE Failed("read")

\* load_limine_modules: those that can be read, each with a frame.
LoadModules ==
    /\ pc = "modules"
    /\ \/ /\ Len(boot.read) <= Len(Modules)
          /\ LET m == Modules[Len(boot.read)]
             IN  IF m \in files
                 THEN /\ boot' = [boot EXCEPT !.read = Append(@, m)]
                      /\ \E screen \in BOOLEAN : Tick(screen)
                 ELSE /\ boot' = [boot EXCEPT !.read = Append(@, "absent")]
                      /\ UNCHANGED spinnerVars
          /\ UNCHANGED pc
       \/ /\ Len(boot.read) > Len(Modules)
          /\ Goto("handover") /\ UNCHANGED <<boot, spinner, ring>>
    /\ UNCHANGED <<config, files, installed, torn, fasts, boots>>

\* The kernel or the EFI image gets the machine, or refuses.
Handover ==
    /\ pc = "handover"
    /\ Goto("os")
    /\ fasts' = Counted
    /\ UNCHANGED <<config, files, boot, installed, torn, boots, spinner, ring>>

HandoverFails == pc = "handover" /\ Failed("handover") /\ UNCHANGED spinnerVars

(***************************************************************************)
(* Outside of r-boot.                                                      *)
(***************************************************************************)

\* Rebuilds and r-boot-cli replace r-boot.toml as a whole.
Update(c, F) ==
    /\ pc = "os"
    /\ config' = c /\ installed' = c /\ files' = F
    /\ torn' = FALSE /\ fasts' = NoFasts
    /\ Goto("updated")
    /\ UNCHANGED <<boot, boots, spinner, ring>>

Off ==
    /\ Goto("off") /\ boot' = Fresh /\ spinner' = New("off") /\ ring' = "none"
    /\ UNCHANGED <<config, files, installed, fasts, boots>>

\* The system shuts down, or the firmware turns to r-boot again.
Reset == pc \in {"os", "updated", "failed"} /\ Off /\ UNCHANGED torn

\* A power cut, or a reset from the menu or its console.
PowerCut ==
    /\ pc \notin {"off", "os", "updated", "failed"}
    /\ Off /\ torn' = (torn \/ pc = "create")

Running ==
    \/ Search \/ LoadMenu
    \/ WriteRefused \/ WriteDeletes \/ WritePart \/ WriteFails \/ Written
    \/ Chosen \/ Start \/ BadPath \/ ShowFrame \/ ReadFile \/ CannotRead
    \/ LoadModules \/ Handover \/ HandoverFails

AtMenu ==
    \/ \E i \in DOMAIN boot.menu.entries : Choose(i)
    \/ \E mode \in Modes : Save(mode)
    \/ MenuFails

Next ==
    \/ PowerOn \/ NoVolume
    \/ Running
    \/ AtMenu
    \/ \E c \in Configs, F \in FileSets : Update(c, F)
    \/ Reset \/ PowerCut

Spec == Init /\ [][Next]_vars

\* boot_kernel does not wait for anybody but at the menu.
FairSpec == Spec /\ WF_vars(Running)

(***************************************************************************)
(* Properties.                                                             *)
(***************************************************************************)
Labels == {"off", "search", "load", "menu", "chosen", "start", "read", "reading", "modules",
           "handover", "os", "updated", "failed", "delete", "create"}

Failures == {"none", "volume", "menu", "path", "read", "handover"}

BootStates ==
    [fastboot : FastbootModes, menu : ConfigFiles, selected : Nat,
     plan : {"none", "entry", "linux", "limine"}, todo : Seq(Files), read : Seq(Files \cup {"absent"}),
     text : ConfigFiles, next : Labels, refused : BOOLEAN, failure : Failures]

\* Every step knows its next one, and the frame to draw exists: index stays
\* within the frames of the mode through every change of mode.
TypeOK ==
    /\ pc \in Labels
    /\ config \in ConfigFiles /\ installed \in ConfigFiles
    /\ boot \in BootStates
    /\ spinner \in Spinners /\ Drawable
    /\ ring \in Rings /\ torn \in BOOLEAN
    /\ fasts \in [entry : Nat, layout : Nat] /\ boots \in 0 .. MaxBoots

\* After `fastboot = "next-boot"` one boot of an entry is fast, be it that it
\* fails: the one after stops at the menu unless the mode is set again, the
\* power was cut before the file was rewritten, or the firmware refused to.
\* A boot of the fixed layout leaves the mode to the ones after it, also if
\* another loader's entries are found then.
NextBootOnce == fasts.entry <= 1

\* README.md:65, menu.rs:45: `next-boot` makes the next boot a fast one, once,
\* whatever it boots.
FastOnce == fasts.entry + fasts.layout <= 1

\* A fast boot shows no spinner, whatever r-boot.toml says of it.
FastbootQuiet == Fast => spinner.mode = "off" /\ ring = "none"

\* What gets the machine is the kernel of the entry chosen, followed by all
\* of its initrds in their order, and in a fast boot that of the default
\* entry; vmlinuz and kernel.elf only get it when there are no entries.
HandedOver ==
    pc = "os" =>
        IF boot.menu.entries # <<>>
        THEN /\ boot.read = boot.menu.entries[boot.selected]
             /\ Fast => boot.selected = DefaultIndex(boot.menu)
        ELSE \/ boot.read = <<Vmlinuz, Initramfs>>
             \/ Head(boot.read) = KernelElf /\ Vmlinuz \notin files

\* A boot that fails on a file leaves no ring of dots behind its message but
\* one that it tried to erase after the last frame.
FailureShown == pc = "failed" /\ boot.failure = "read" => ring # "drawn"

\* Saves and used-up fast boots keep the entries the operating system has
\* written, but for a write that failed or was cut short.
EntriesKept ==
    installed.text = "ok" /\ ~torn /\ pc # "create" =>
        config.entries = installed.entries

(***************************************************************************)
(* What is true at each step, and makes the invariants above inductive.    *)
(***************************************************************************)
NextBoot(c) == c.text = "ok" /\ c.fastboot = "next-boot"
Ended == {"off", "os", "updated", "failed"}

StepsOK ==
    /\ pc \in {"search", "menu"} => ~Fast
    /\ Writing => \/ boot.next = "menu" /\ ~Fast
                  \/ boot.next = "start" /\ boot.text.fastboot = "off"
    /\ pc \in {"chosen", "start"} \/ (Writing /\ boot.next = "start") =>
          boot.selected \in DOMAIN boot.menu.entries
    /\ pc \in {"read", "reading"} => boot.todo # <<>>
    /\ pc = "modules" => boot.read # <<>>

\* As long as the file asks for a fast boot none of an entry has been made.
OnceOK ==
    /\ fasts.entry <= 1
    /\ NextBoot(config) => fasts.entry = 0
    /\ Writing /\ boot.text.fastboot = "next-boot" => fasts.entry = 0
    /\ boot.fastboot = "next-boot" /\ pc \notin Ended =>
          /\ fasts.entry = 0
          /\ pc = "load" => boot.selected = 0
          /\ pc \notin {"load", "chosen", "delete"} =>
                boot.refused \/ boot.selected = 0 \/ ~NextBoot(config)

KeptOK ==
    installed.text = "ok" /\ ~torn =>
        /\ pc # "create" => config.text = "ok" /\ config.entries = installed.entries
        /\ Writing => boot.text.text = "ok" /\ boot.text.entries = installed.entries

\* A boot that nobody has to attend ends: with a running system, or with an
\* error that returns to the firmware.
BootEnds == pc = "chosen" \/ (Fast /\ pc = "load") ~> pc \in {"os", "failed", "off"}
=============================================================================
