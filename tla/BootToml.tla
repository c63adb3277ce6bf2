------------------------------ MODULE BootToml ------------------------------
(***************************************************************************)
(* boot/r-boot.toml and the programs that read and write it.  Four parsers *)
(* and three writers, of two crates, share the format without sharing      *)
(* code; these operators are what each of them does to the lines.          *)
(*                                                                         *)
(* A file is [header, blocks]: the lines before the first `[[entries]]`    *)
(* and the lines after each.  A line is [key, value], with key "other" for *)
(* comments and anything else no reader knows.  Values are strings, with   *)
(* quotes and comments gone; the logo's quotes are the exception, for one  *)
(* of its readers does not take them off.                                  *)
(***************************************************************************)
EXTENDS SequencesExt

CONSTANTS
    U64,             \* values that parse as a u64
    U32,             \* values that parse as a u32
    LoaderSettings,  \* `default` and `timeout` lines of loader.conf and grub.cfg
    OtherEntries,    \* entries of systemd-boot and GRUB
    HasPrefix        \* patterns `p*` -> ids that start with p

None == "none"   \* Option::None, and an unset image

SpinnerModes == {"off", "text", "graphical"}
FastbootModes == {"off", "next-boot", "on"}
Kinds == {"linux", "limine", "efi"}
Images == {"nixos", "linux"}

Line(key, value) == [key |-> key, value |-> value]
With(lines, keys) ==
    FlattenSeq([i \in DOMAIN lines |-> IF lines[i].key \in keys THEN <<lines[i]>> ELSE <<>>])
Without(lines, keys) ==
    FlattenSeq([i \in DOMAIN lines |-> IF lines[i].key \in keys THEN <<>> ELSE <<lines[i]>>])
Has(lines, key) == \E i \in DOMAIN lines : lines[i].key = key

\* The value of the last line with one of the keys.
LastValue(lines, keys) ==
    LET found == With(lines, keys) IN IF found = <<>> THEN None ELSE Last(found).value

\* The first and the last value that are valid, for readers that skip others.
FirstValid(lines, key, valid, default) ==
    LET found == With(lines, {key})
        i     == SelectInSeq(found, LAMBDA l : l.value \in valid)
    IN  IF i = 0 THEN default ELSE found[i].value
LastValid(lines, key, valid, default) ==
    LET found == With(lines, {key})
        i     == SelectLastInSeq(found, LAMBDA l : l.value \in valid)
    IN  IF i = 0 THEN default ELSE found[i].value

\* true and false, and the same in quotes.
Bools == {"true", "false"}
QuotedBools == {"\"true\"", "\"false\""}
Quoted(value) == IF value = "true" THEN "\"true\"" ELSE "\"false\""
Unquoted(value) == CASE value = "\"true\""  -> "true"
                     [] value = "\"false\"" -> "false"
                     [] OTHER              -> value

Parsed(value, valid) == IF value \in valid THEN value ELSE None
OrElse(value, default) == IF value = None THEN default ELSE value

(***************************************************************************)
(* The boot menu reads the file: Menu::load.                               *)
(***************************************************************************)

\* RawEntry::set for each line: `efi` sets the kind as well.
RawKind(lines) ==
    LET found == With(lines, {"kind", "efi"})
    IN  CASE found = <<>>             -> "linux"
          [] Last(found).key = "efi"  -> "efi"
          [] OTHER                    -> Last(found).value
RawKernel(lines) == LastValue(lines, {"linux", "kernel", "efi"})

\* push_entry ignores a block without a kernel or of an unknown kind.
IsEntry(lines) == RawKernel(lines) # None /\ RawKind(lines) \in Kinds

\* The id defaults to the title, and both to the kernel's path.
EntryOf(lines) ==
    LET title == LastValue(lines, {"title"})
        kernel == RawKernel(lines)
    IN  [id      |-> OrElse(LastValue(lines, {"id"}), OrElse(title, kernel)),
         title   |-> OrElse(title, kernel),
         kind    |-> RawKind(lines),
         kernel  |-> kernel,
         initrds |-> With(lines, {"initrd"}),
         options |-> LastValue(lines, {"options"}),
         image   |-> Parsed(LastValue(lines, {"image"}), Images)]

EntriesOf(blocks) ==
    FlattenSeq([i \in DOMAIN blocks |->
        IF IsEntry(blocks[i]) THEN <<EntryOf(blocks[i])>> ELSE <<>>])

\* A timeout that does not parse leaves none; a logo or a spinner that does
\* not parse leaves the value before it.
MenuOf(file) ==
    LET timeout == Parsed(LastValue(file.header, {"timeout"}), U64)
    IN  [default |-> OrElse(LastValue(file.header, {"default"}),
                            LET found == With(LoaderSettings, {"default"})
                            IN  IF found = <<>> THEN None ELSE Head(found).value),
         timeout |-> OrElse(timeout, FirstValid(LoaderSettings, "timeout", U64, None)),
         spinner |-> LastValid(file.header, "spinner", SpinnerModes, "graphical"),
         logo    |-> Unquoted(LastValid(file.header, "logo", Bools \cup QuotedBools, "true")),
         entries |-> EntriesOf(file.blocks) \o OtherEntries]

\* default_index: the first entry whose title or id is the default, or whose
\* id has it as a prefix; else the first.
IsDefault(e, default) ==
    \/ default \in {e.title, e.id}
    \/ default \in DOMAIN HasPrefix /\ e.id \in HasPrefix[default]
DefaultIndex(menu) ==
    LET i == SelectInSeq(menu.entries, LAMBDA e : IsDefault(e, menu.default))
    IN  IF menu.default = None \/ i = 0 THEN 1 ELSE i

\* What is read before the menu is loaded.  The logo's reader stops at the
\* first line, valid or not.
EarlySpinner(file) == FirstValid(file.header, "spinner", SpinnerModes, "graphical")
EarlyFastboot(file) == FirstValid(file.header, "fastboot", FastbootModes, "off")
EarlyLogo(file) ==
    LET found == With(file.header, {"logo"})
    IN  IF found = <<>> THEN "true" ELSE OrElse(Parsed(Head(found).value, Bools), "true")

(***************************************************************************)
(* The boot menu writes the file.                                          *)
(***************************************************************************)

\* Mutant: the block's other lines are kept, the old image too.
AppendImageOnly(lines, id, image) ==
    IF \E i \in DOMAIN lines : lines[i] = Line("id", id)
    THEN lines \o IF image = None THEN <<>> ELSE <<Line("image", image)>>
    ELSE lines

\* append_entry: in a block with that id each image line is replaced, or one
\* is added after the id; without an image they go.
AppendEntry(lines, id, image) ==
    LET selected == \E i \in DOMAIN lines : lines[i] = Line("id", id)
        new      == IF image = None THEN <<>> ELSE <<Line("image", image)>>
        Copy(l)  == CASE l.key = "image"                        -> new
                      [] l.key = "id" /\ ~Has(lines, "image")   -> <<l>> \o new
                      [] OTHER                                  -> <<l>>
    IN  IF selected THEN FlattenSeq([i \in DOMAIN lines |-> Copy(lines[i])]) ELSE lines

\* persist_settings.
Persisted(file, timeout, spinner, logo, id, image) ==
    [header |-> <<Line("timeout", timeout), Line("spinner", spinner), Line("logo", logo)>>
                    \o Without(file.header, {"timeout", "spinner", "logo"}),
     blocks |-> [i \in DOMAIN file.blocks |-> AppendEntry(file.blocks[i], id, image)]]

\* Mutant: only the first fastboot line is rewritten, and only one that asks
\* for the next boot.
FirstFastbootOff(file) ==
    LET i == SelectInSeq(file.header, LAMBDA l : l.key = "fastboot")
    IN  IF i = 0 \/ file.header[i].value # "next-boot" THEN file
        ELSE [file EXCEPT !.header[i].value = "off"]

\* disable_next_boot_fastboot: every fastboot line of the header.
FastbootOff(file) ==
    [file EXCEPT !.header = [i \in DOMAIN file.header |->
        IF file.header[i].key = "fastboot" THEN Line("fastboot", "off") ELSE file.header[i]]]

(***************************************************************************)
(* r-boot-cli: Config::parse and Config::render.                           *)
(***************************************************************************)
CliEntry(lines) ==
    [id      |-> OrElse(LastValue(lines, {"id"}), ""),
     title   |-> LastValue(lines, {"title"}),
     kind    |-> LastValue(lines, {"kind"}),
     linux   |-> LastValue(lines, {"linux"}),
     efi     |-> LastValue(lines, {"efi"}),
     image   |-> LastValue(lines, {"image"}),
     initrd  |-> With(lines, {"initrd"}),
     options |-> LastValue(lines, {"options"})]

Parse(file) ==
    [default  |-> LastValue(file.header, {"default"}),
     timeout  |-> Parsed(LastValue(file.header, {"timeout"}), U32),
     spinner  |-> LastValue(file.header, {"spinner"}),
     logo     |-> Parsed(Unquoted(LastValue(file.header, {"logo"})), Bools),
     fastboot |-> LastValue(file.header, {"fastboot"}),
     entries  |-> [i \in DOMAIN file.blocks |-> CliEntry(file.blocks[i])]]

OptLine(key, value) == IF value = None THEN <<>> ELSE <<Line(key, value)>>

\* Mutant: the file a UEFI program is named by is not written.
RenderWithoutEfi(e) ==
    <<Line("id", e.id)>> \o OptLine("title", e.title) \o OptLine("kind", e.kind)
        \o OptLine("linux", e.linux) \o OptLine("image", e.image)
        \o e.initrd \o OptLine("options", e.options)

RenderEntry(e) ==
    <<Line("id", e.id)>> \o OptLine("title", e.title) \o OptLine("kind", e.kind)
        \o OptLine("linux", e.linux) \o OptLine("efi", e.efi) \o OptLine("image", e.image)
        \o e.initrd \o OptLine("options", e.options)

\* Mutant: the logo in quotes, like the settings before and after it.
RenderQuoted(c) ==
    [header |-> <<Line("other", "generated")>>
                    \o OptLine("default", c.default) \o OptLine("timeout", c.timeout)
                    \o OptLine("spinner", c.spinner)
                    \o OptLine("logo", IF c.logo = None THEN None ELSE Quoted(c.logo))
                    \o OptLine("fastboot", c.fastboot),
     blocks |-> [i \in DOMAIN c.entries |-> RenderEntry(c.entries[i])]]

Render(c) ==
    [header |-> <<Line("other", "generated")>>
                    \o OptLine("default", c.default) \o OptLine("timeout", c.timeout)
                    \o OptLine("spinner", c.spinner) \o OptLine("logo", c.logo)
                    \o OptLine("fastboot", c.fastboot),
     blocks |-> [i \in DOMAIN c.entries |-> RenderEntry(c.entries[i])]]

\* Mutant: the default is taken for a place in the list and kept.
RemovedKeepingDefault(c, id) ==
    [c EXCEPT !.entries = RemoveAt(@, SelectInSeq(@, LAMBDA e : e.id = id))]

\* remove: the first entry with the id, and the default if it was the one.
Removed(c, id) ==
    LET i == SelectInSeq(c.entries, LAMBDA e : e.id = id)
    IN  [c EXCEPT !.entries = RemoveAt(@, i),
                  !.default = IF @ = id THEN None ELSE @]
=============================================================================
