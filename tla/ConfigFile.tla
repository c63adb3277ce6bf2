---------------------------- MODULE ConfigFile -----------------------------
(***************************************************************************)
(* A life of r-boot.toml: written by hand or by the installer, then edited *)
(* by turns from the boot menu and from r-boot-cli.  Each action is one    *)
(* whole edit; edits that overlap, and edits cut short, are the subject of *)
(* other modules.                                                          *)
(***************************************************************************)
EXTENDS BootToml

CONSTANTS
    Lives,     \* files to start from, each with a bound on its edits
    Timeouts,   \* timeouts to choose from in the menu and on the command line
    EntryIds   \* ids to name on the command line

\* No line has the value that stands for none.
Values == STRING \ {None}
Lines == [key : STRING, value : Values]
Files == [header : Seq(Lines), blocks : Seq(Seq(Lines))]
Others == [id : STRING, title : STRING, kind : STRING, kernel : STRING,
           initrds : Seq(Lines), options : STRING, image : {None}]

ASSUME EditsAssumption ==
    /\ \A life \in Lives : life.edits \in Nat /\ life.file \in Files
    /\ U64 \subseteq Values /\ U32 \subseteq U64 /\ Timeouts \subseteq U64
    /\ EntryIds \subseteq Values /\ LoaderSettings \in Seq(Lines) /\ OtherEntries \in Seq(Others)

VARIABLES
    file,
    edit,   \* the last edit: [op, key, value, entry, menu]
    edits   \* how many more there may be

vars == <<file, edit, edits>>

Menu == MenuOf(file)

\* The settings on the configuration screen.
Screens == [timeout : Timeouts, spinner : SpinnerModes, logo : {"true", "false"},
            image : Images \cup {None}]
NoScreen == [timeout |-> "", spinner |-> "", logo |-> "", image |-> None]

Init ==
    /\ \E life \in Lives : file = life.file /\ edits = life.edits
    /\ edit = [op |-> "none", key |-> "", value |-> "", entry |-> 0, screen |-> NoScreen]

Edit(op, key, value, entry, screen) ==
    /\ edits > 0
    /\ edits' = edits - 1
    /\ edit' = [op |-> op, key |-> key, value |-> value, entry |-> entry, screen |-> screen]

\* The configuration screen, opened on entry e of the menu, saves.
MenuSave(e) ==
    LET id == Menu.entries[e].id
    IN  \E screen \in Screens :
          /\ Edit("save", "", "", e, screen)
          /\ file' = Persisted(file, screen.timeout, screen.spinner, screen.logo, id, screen.image)

\* The boot after `fastboot = "next-boot"`.
NextBootUsed ==
    /\ EarlyFastboot(file) = "next-boot"
    /\ Edit("used", "", "", 0, NoScreen)
    /\ file' = FastbootOff(file)

CliSet(key, value) ==
    /\ Edit("set", key, value, 0, NoScreen)
    /\ file' = Render([Parse(file) EXCEPT ![key] = value])

\* set-default and remove want an entry with that id.
Known(id) == \E i \in DOMAIN file.blocks : CliEntry(file.blocks[i]).id = id

CliSetDefault(id) ==
    /\ Known(id)
    /\ Edit("set-default", "", id, 0, NoScreen)
    /\ file' = Render([Parse(file) EXCEPT !.default = id])

CliRemove(id) ==
    /\ Known(id)
    /\ Edit("remove", "", id, 0, NoScreen)
    /\ file' = Render(Removed(Parse(file), id))

Next ==
    \/ \E e \in DOMAIN Menu.entries : MenuSave(e)
    \/ NextBootUsed
    \/ \E v \in Timeouts \cap U32 : CliSet("timeout", v)
    \/ \E v \in SpinnerModes : CliSet("spinner", v)
    \/ \E v \in {"true", "false"} : CliSet("logo", v)
    \/ \E v \in FastbootModes : CliSet("fastboot", v)
    \/ \E id \in EntryIds : CliSetDefault(id) \/ CliRemove(id)

Spec == Init /\ [][Next]_vars

(***************************************************************************)
(* Properties.  What an edit is meant to do is compared with what the next *)
(* boot makes of the file written.  What is used more than once is bound   *)
(* by \E x \in {..}, so that it is evaluated once.                         *)
(***************************************************************************)

\* The entry that boots unattended, its splash image aside.
Unattended(menu) == IF menu.entries = <<>> THEN None
                    ELSE [menu.entries[DefaultIndex(menu)] EXCEPT !.image = None]

\* The entries of the menu whose block has an id line naming this id.
Identified(id) ==
    LET blocks == FlattenSeq([i \in DOMAIN file.blocks |->
                      IF IsEntry(file.blocks[i]) THEN <<file.blocks[i]>> ELSE <<>>])
    IN  {i \in DOMAIN blocks : \E n \in DOMAIN blocks[i] : blocks[i][n] = Line("id", id)}

\* Saving from the menu changes what was on the screen and nothing else: the
\* next boot reads those settings, the same entries in the same order, with
\* the new image where the file has the entry's id, and has the same default
\* and fastboot mode.
MenuSaveExact ==
    [][edit'.op = "save" =>
         \E written \in {file'} : \E old \in {Menu}, new \in {MenuOf(written)} :
         \E meant \in {Identified(old.entries[edit'.entry].id)} :
           LET screen == edit'.screen
               Saved(e, i) == IF i \in meant THEN [e EXCEPT !.image = screen.image] ELSE e
           IN  /\ <<new.timeout, new.spinner, new.logo>>
                       = <<screen.timeout, screen.spinner, screen.logo>>
               /\ new.entries = [i \in DOMAIN old.entries |-> Saved(old.entries[i], i)]
               /\ Unattended(new) = Unattended(old)
               /\ EarlyFastboot(written) = EarlyFastboot(file)]_vars

\* A file last saved by the menu or r-boot-cli is read alike by the readers
\* that run before the menu is loaded and by the menu: spinner and logo do
\* not change in the middle of a boot.
EarlyReadersAgree ==
    edit.op \in {"save", "set", "set-default", "remove"} =>
        /\ EarlySpinner(file) = Menu.spinner
        /\ EarlyLogo(file) = Menu.logo

\* A next-boot fast boot takes itself back whatever lines the header has, and
\* leaves the rest of the file as it was.
NextBootOnce ==
    [][edit'.op = "used" =>
         \E written \in {file'} :
           /\ EarlyFastboot(written) = "off"
           /\ Without(written.header, {"fastboot"}) = Without(file.header, {"fastboot"})
           /\ MenuOf(written) = Menu]_vars

\* A file as the installer and r-boot-cli write it: no setting twice, a
\* timeout that both readers take for one, and in every block an id, one
\* kernel, a UEFI program that is nothing else, and no line r-boot-cli does
\* not know.
Once(lines) ==
    \A i, j \in DOMAIN lines : lines[i].key = lines[j].key => i = j \/ lines[i].key = "initrd"
GeneratedBlock(lines) ==
    /\ Once(lines) /\ IsEntry(lines)
    /\ Has(lines, "id") /\ Has(lines, "linux") # Has(lines, "efi")
    /\ Has(lines, "efi") => RawKind(lines) = "efi"
    /\ ~Has(lines, "kernel") /\ ~Has(lines, "other")
Generated ==
    /\ Once(file.header)
    /\ LastValue(file.header, {"timeout"}) \in U64 => LastValue(file.header, {"timeout"}) \in U32
    /\ \A i \in DOMAIN file.blocks : GeneratedBlock(file.blocks[i])

\* In such a file a set command changes one setting of the next boot; the
\* other settings and the entries stay.
CliSetExact ==
    [][edit'.op = "set" /\ Generated =>
         \E written \in {file'} : \E old \in {Menu}, new \in {MenuOf(written)} :
           LET Seen(menu, f) == [timeout |-> menu.timeout, spinner |-> menu.spinner,
                                 logo |-> menu.logo, fastboot |-> EarlyFastboot(f),
                                 default |-> menu.default]
           IN  /\ new.entries = old.entries
               /\ Seen(new, written) = [Seen(old, file) EXCEPT ![edit'.key] = edit'.value]]_vars

\* The menu takes a default for a title, an id or a pattern, whichever entry
\* fits first: this one is nothing but an id.
NothingButId(id) ==
    /\ id \notin DOMAIN HasPrefix
    /\ \A i \in DOMAIN Menu.entries : Menu.entries[i].title = id => Menu.entries[i].id = id

\* In such a file set-default makes an entry of that id the one that boots
\* unattended, and remove takes the first entry with the id out of the menu,
\* leaves the others, and forgets the default if it was this id and only then.
CliDefaultAndRemove ==
    [][/\ edit'.op = "set-default" /\ Generated /\ NothingButId(edit'.value) =>
            \E written \in {file'} : Unattended(MenuOf(written)).id = edit'.value
       /\ edit'.op = "remove" /\ Generated =>
            \E written \in {file'} : \E old \in {Menu}, new \in {MenuOf(written)} :
              /\ LET default == LastValue(file.header, {"default"})
                 IN  LastValue(written.header, {"default"})
                       = IF default = edit'.value THEN None ELSE default
              /\ \E n \in DOMAIN old.entries :
                   /\ old.entries[n].id = edit'.value
                   /\ \A i \in 1 .. n - 1 : old.entries[i].id # edit'.value
                   /\ new.entries = SubSeq(old.entries, 1, n - 1)
                                    \o SubSeq(old.entries, n + 1, Len(old.entries))]_vars

\* set-timeout is said to change the menu timeout: the menu keeps its entries.
SetTimeoutKeepsEntries ==
    [][edit'.op = "set" /\ edit'.key = "timeout" =>
         Len(Menu'.entries) = Len(Menu.entries)]_vars
=============================================================================
