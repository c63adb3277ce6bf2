---------------------------- MODULE BuilderOnEsp ----------------------------
(***************************************************************************)
(* The installer as the other programs on the ESP see it: each file-system *)
(* step of ConfBuilder is a step of EspSharing's rebuild, or none there.   *)
(* Temporary files, the binary, the NVRAM entry and the links are beside   *)
(* the shared files; the generation add_entry works on is planned as soon  *)
(* as it is known to have a kernel and an initrd.                          *)
(***************************************************************************)
EXTENDS ConfBuilder

\* The files each id of a menu needs.
MenuOf(entries) ==
    [id \in {entries[i].id : i \in DOMAIN entries} |->
        UNION {{entries[i].linux, entries[i].initrd} : i \in {j \in DOMAIN entries : entries[j].id = id}}]

\* What the systems with a kernel and an initrd need.
Needs == {{CleanName[Kernel[s]], CleanName[Initrd[s]]} : s \in {x \in Systems : Bootable(x)}}

Phase ==
    CASE pc \in {"entry", "copy", "rename", "list", "next"} -> "copy"
      [] pc = "prune" -> "prune"
      [] OTHER -> "idle"

Planned ==
    MenuOf(CASE Phase = "idle" -> <<>>
             [] pc \in {"copy", "rename"} -> Append(text, EntryOf(current))
             [] OTHER -> text)

Counted == IF Phase = "idle" THEN {} ELSE copied

\* The header counts as one setting, which no other program changes here.
SharedToml ==
    [settings |-> [k \in {"default", "header"} |-> IF k = "default" THEN DefaultId ELSE toml.header],
     entries |-> MenuOf(toml.entries)]

Esp == INSTANCE EspSharing WITH
    Clis <- {}, cli <- [c \in {} |-> {}],
    stale <- FALSE, since <- [c \in {} |-> "same"], purged <- {},
    Files <- Names, Buildable <- Needs, nixos <- DOMAIN nixos,
    Keys <- {"header"}, Values <- Headers, Unset <- "unset",
    BuiltTimeout <- [key |-> "header", value |-> GeneratedHeader],
    toml <- SharedToml, expected <- SharedToml, phase <- Phase, plan <- Planned,
    copied <- Counted

\* Whatever run is stopped wherever, and whatever becomes of the generations:
\* what happens to boot/nixos and r-boot.toml is a rebuild of EspSharing, with
\* every file copied before the one rename and nothing deleted before it.
RebuildsTheEsp == Esp!Spec
=============================================================================
