---------------------------- MODULE ConfBuilder ----------------------------
(***************************************************************************)
(* r-boot-conf-builder: the installer that `nixos-rebuild` runs.  It       *)
(* copies the kernels and initrds of the boot generations to boot/nixos on *)
(* the ESP, regenerates boot/r-boot.toml, removes the boot files no entry  *)
(* needs any more, and installs the r-boot binary.                         *)
(*                                                                         *)
(* One action is one file-system operation, so that a run can be stopped   *)
(* (an error returned by `?`, a kill, a power cut) between any two of      *)
(* them, and the generations can change under a run that is under way.     *)
(* What another program does to the ESP is left to the modules that        *)
(* compose this one with it.                                               *)
(***************************************************************************)
EXTENDS Integers, Sequences, FiniteSets

CONSTANTS
    Systems,         \* NixOS system closures a generation link can point to
    StoreFiles,      \* kernels and initrds in the Nix store
    Names,           \* file names in boot/nixos
    CleanName,       \* the name a store file gets there
    Kernel, Initrd,  \* the store files of a system
    NoFile,          \* value of Kernel[s], Initrd[s] where s has none
    Gens,            \* generation numbers
    DefaultId,       \* the id "nixos-default"
    NumGenerations,  \* the -g argument
    Headers,         \* what can stand before the first [[entries]]
    GeneratedHeader  \* the header a run writes

ASSUME SystemsAssumption == Systems # {}
\* A directory of links is finite.
ASSUME GensAssumption == Gens \subseteq Nat /\ IsFiniteSet(Gens) /\ DefaultId \notin Gens
ASSUME LimitAssumption == NumGenerations \in Nat
ASSUME FilesAssumption ==
    /\ NoFile \notin StoreFiles
    /\ Kernel \in [Systems -> StoreFiles \cup {NoFile}]
    /\ Initrd \in [Systems -> StoreFiles \cup {NoFile}]
ASSUME HeaderAssumption == GeneratedHeader \in Headers

(***************************************************************************)
(* `/nix/store/<hash>-<name>/file` becomes `<hash>-<name>-file`.  Two      *)
(* store files get one name only if they agree on the hash and differ in   *)
(* where a '/' stands, which no two files of one store do.                 *)
(***************************************************************************)
ASSUME CleanNameAssumption ==
    /\ CleanName \in [StoreFiles -> Names]
    /\ \A f, g \in StoreFiles : CleanName[f] = CleanName[g] => f = g

VARIABLES
    profiles,    \* /nix/var/nix/profiles: generation number -> system
    nixos,       \* finished files of boot/nixos: name -> store file
    tmps,        \* names that have a `<name>.tmp.<pid>` there
    toml,        \* r-boot.toml: [header, entries]
    binary,      \* BOOTX64.EFI: "absent", "torn" or "whole"
    registered,  \* NVRAM has an r-boot boot entry
    pc,          \* where the running process is
    current,     \* the generation add_entry works on: [id, system]
    part,        \* the file of it being copied: "kernel" or "initrd"
    todo,        \* listed generations not yet added
    text,        \* the entries written to the toml string so far
    copied       \* the set `copied`: names this run needs

disk == <<nixos, tmps, toml, binary, registered>>
memory == <<pc, current, part, todo, text, copied>>
vars == <<profiles, disk, memory>>

Ids == Gens \cup {DefaultId}
Entries == [id : Ids, linux : Names, initrd : Names, init : Systems]
Works == [id : Ids, system : Systems]
NoWork == [id |-> DefaultId, system |-> CHOOSE s \in Systems : TRUE]

Bootable(s) == Kernel[s] # NoFile /\ Initrd[s] # NoFile

\* The `[[entries]]` block of one generation.
EntryOf(work) == [id     |-> work.id,
                  linux  |-> CleanName[Kernel[work.system]],
                  initrd |-> CleanName[Initrd[work.system]],
                  init   |-> work.system]

\* The boot files a list of entries needs.
FilesOf(entries) == UNION {{entries[i].linux, entries[i].initrd} : i \in DOMAIN entries}

\* The file being copied and its name.
Source == IF part = "kernel" THEN Kernel[current.system] ELSE Initrd[current.system]
Target == CleanName[Source]

\* list_generations: the `limit` highest numbers among the links.
Newest(present, limit) ==
    {g \in present : Cardinality({h \in present : h > g}) < limit}

\* No process: its memory is gone.
Reset ==
    /\ pc' = "idle"
    /\ current' = NoWork
    /\ part' = "kernel"
    /\ todo' = {}
    /\ text' = <<>>
    /\ copied' = {}

Running == pc \notin {"idle", "done"}

Init ==
    /\ \E P \in SUBSET Gens : profiles \in [P -> Systems]
    /\ nixos = [n \in {} |-> NoFile]
    /\ tmps = {}
    /\ toml = [header |-> GeneratedHeader, entries |-> <<>>]
    /\ binary = "absent"
    /\ registered = FALSE
    /\ pc = "idle"
    /\ current = NoWork
    /\ part = "kernel"
    /\ todo = {}
    /\ text = <<>>
    /\ copied = {}

(***************************************************************************)
(* The run.                                                                *)
(***************************************************************************)

\* `-c <system>`: a fresh process, whose default entry comes first.
Start(system) ==
    /\ ~Running
    /\ pc' = "entry"
    /\ current' = [id |-> DefaultId, system |-> system]
    /\ part' = "kernel"
    /\ todo' = {}
    /\ text' = <<>>
    /\ copied' = {}
    /\ UNCHANGED <<profiles, disk>>

\* Where run() continues after add_entry.
AfterEntry == IF current.id = DefaultId THEN "list" ELSE "next"

\* A generation without a kernel or an initrd adds nothing.
SkipEntry ==
    /\ pc = "entry"
    /\ ~Bootable(current.system)
    /\ pc' = AfterEntry
    /\ UNCHANGED <<profiles, disk, current, part, todo, text, copied>>

AddEntry ==
    /\ pc = "entry"
    /\ Bootable(current.system)
    /\ pc' = "copy"
    /\ part' = "kernel"
    /\ UNCHANGED <<profiles, disk, current, todo, text, copied>>

\* What add_entry does once a file of the generation is in place.
FileInPlace ==
    /\ copied' = copied \cup {Target}
    /\ IF part = "kernel"
       THEN /\ pc' = "copy"
            /\ part' = "initrd"
            /\ UNCHANGED text
       ELSE /\ pc' = AfterEntry
            /\ text' = Append(text, EntryOf(current))
            /\ UNCHANGED part
    /\ UNCHANGED <<current, todo>>

\* Mutant: a file found in place is not entered in `copied`.
AlreadyThereNotCounted ==
    /\ pc = "copy"
    /\ Target \in DOMAIN nixos
    /\ pc' = IF part = "kernel" THEN "copy" ELSE AfterEntry
    /\ part' = "initrd"
    /\ text' = IF part = "kernel" THEN text ELSE Append(text, EntryOf(current))
    /\ UNCHANGED <<profiles, disk, current, todo, copied>>

\* `dst.exists()`: a file of that name is taken to be the right one.
AlreadyThere ==
    /\ pc = "copy"
    /\ Target \in DOMAIN nixos
    /\ FileInPlace
    /\ UNCHANGED <<profiles, disk>>

\* Mutant: the copy is made under the final name.
CopyInPlace ==
    /\ pc = "copy"
    /\ Target \notin DOMAIN nixos
    /\ nixos' = [n \in DOMAIN nixos \cup {Target} |->
                    IF n = Target THEN NoFile ELSE nixos[n]]
    /\ pc' = "rename"
    /\ UNCHANGED <<profiles, tmps, toml, binary, registered,
                   current, part, todo, text, copied>>

CopyToTmp ==
    /\ pc = "copy"
    /\ Target \notin DOMAIN nixos
    /\ tmps' = tmps \cup {Target}
    /\ pc' = "rename"
    /\ UNCHANGED <<profiles, nixos, toml, binary, registered,
                   current, part, todo, text, copied>>

RenameTmp ==
    /\ pc = "rename"
    /\ nixos' = [n \in DOMAIN nixos \cup {Target} |->
                    IF n = Target THEN Source ELSE nixos[n]]
    /\ tmps' = tmps \ {Target}
    /\ FileInPlace
    /\ UNCHANGED <<profiles, toml, binary, registered>>

ListGenerations ==
    /\ pc = "list"
    /\ todo' = Newest(DOMAIN profiles, NumGenerations)
    /\ pc' = "next"
    /\ UNCHANGED <<profiles, disk, current, part, text, copied>>

\* Mutant: sorted without Reverse.
OldestGeneration(g) ==
    /\ pc = "next"
    /\ g \in todo
    /\ \A h \in todo : h >= g
    /\ g \in DOMAIN profiles
    /\ current' = [id |-> g, system |-> profiles[g]]
    /\ todo' = todo \ {g}
    /\ pc' = "entry"
    /\ UNCHANGED <<profiles, disk, part, text, copied>>

\* The highest listed generation left, resolved now.
NextGeneration(g) ==
    /\ pc = "next"
    /\ g \in todo
    /\ \A h \in todo : h <= g
    /\ g \in DOMAIN profiles
    /\ current' = [id |-> g, system |-> profiles[g]]
    /\ todo' = todo \ {g}
    /\ pc' = "entry"
    /\ UNCHANGED <<profiles, disk, part, text, copied>>

\* Mutant: a link that is gone is tried again.
LinkRetried(g) ==
    /\ pc = "next"
    /\ g \in todo
    /\ \A h \in todo : h <= g
    /\ g \notin DOMAIN profiles
    /\ UNCHANGED vars

\* Its link was deleted after the listing: canonicalize fails.
LinkGone(g) ==
    /\ pc = "next"
    /\ g \in todo
    /\ \A h \in todo : h <= g
    /\ g \notin DOMAIN profiles
    /\ Reset
    /\ UNCHANGED <<profiles, disk>>

\* The temporary file written and renamed: readers see the rename.
WriteToml ==
    /\ pc = "next"
    /\ todo = {}
    /\ toml' = [header |-> GeneratedHeader, entries |-> text]
    /\ pc' = "prune"
    /\ UNCHANGED <<profiles, nixos, tmps, binary, registered,
                   current, part, todo, text, copied>>

\* Mutant: files go before the menu that does without them is there.
PruneFirst(n) ==
    /\ pc \in {"next", "prune"}
    /\ n \in DOMAIN nixos \ copied
    /\ nixos' = [m \in DOMAIN nixos \ {n} |-> nixos[m]]
    /\ UNCHANGED <<profiles, tmps, toml, binary, registered, memory>>

\* prune_unreferenced_boot_files, one file at a time, in directory order.
Prune(n) ==
    /\ pc = "prune"
    /\ \/ /\ n \in DOMAIN nixos \ copied
          /\ nixos' = [m \in DOMAIN nixos \ {n} |-> nixos[m]]
          /\ UNCHANGED tmps
       \/ /\ n \in tmps
          /\ tmps' = tmps \ {n}
          /\ UNCHANGED nixos
    /\ UNCHANGED <<profiles, toml, binary, registered, memory>>

\* fs::copy truncates BOOTX64.EFI and writes it in place.
InstallBinary ==
    /\ pc = "prune"
    /\ DOMAIN nixos \subseteq copied
    /\ tmps = {}
    /\ binary' = "torn"
    /\ pc' = "install"
    /\ UNCHANGED <<profiles, nixos, tmps, toml, registered,
                   current, part, todo, text, copied>>

BinaryWritten ==
    /\ pc = "install"
    /\ binary' = "whole"
    /\ pc' = "efi"
    /\ UNCHANGED <<profiles, nixos, tmps, toml, registered,
                   current, part, todo, text, copied>>

\* ensure_boot_entry: with -e, and best effort.
EnsureBootEntry ==
    /\ pc = "efi"
    /\ registered' \in {registered, TRUE}
    /\ pc' = "done"
    /\ UNCHANGED <<profiles, nixos, tmps, toml, binary,
                   current, part, todo, text, copied>>

\* An error propagated by `?`, a kill, or a power cut; the disk stays.
Abort ==
    /\ Running
    /\ Reset
    /\ UNCHANGED <<profiles, disk>>

Run ==
    \/ SkipEntry
    \/ AddEntry
    \/ AlreadyThere
    \/ CopyToTmp
    \/ RenameTmp
    \/ ListGenerations
    \/ \E g \in Gens : NextGeneration(g) \/ LinkGone(g)
    \/ WriteToml
    \/ \E n \in Names : Prune(n)
    \/ InstallBinary
    \/ BinaryWritten
    \/ EnsureBootEntry

(***************************************************************************)
(* The system around the run: `nix-env --set`, garbage collection.  A      *)
(* number freed by a deletion can be given out again.                      *)
(***************************************************************************)
AddGeneration(g, system) ==
    /\ g \notin DOMAIN profiles
    /\ profiles' = [h \in DOMAIN profiles \cup {g} |->
                       IF h = g THEN system ELSE profiles[h]]
    /\ UNCHANGED <<disk, memory>>

DeleteGeneration(g) ==
    /\ g \in DOMAIN profiles
    /\ profiles' = [h \in DOMAIN profiles \ {g} |-> profiles[h]]
    /\ UNCHANGED <<disk, memory>>

Next ==
    \/ \E s \in Systems : Start(s)
    \/ Run
    \/ Abort
    \/ \E g \in Gens, s \in Systems : AddGeneration(g, s)
    \/ \E g \in Gens : DeleteGeneration(g)

Spec == Init /\ [][Next]_vars

\* A process that is not stopped takes its next step.
FairSpec == Spec /\ WF_vars(Run)

(***************************************************************************)
(* Properties.                                                             *)
(***************************************************************************)

\* The variables range over what the program can hold.
TypeOK ==
    /\ DOMAIN profiles \subseteq Gens /\ profiles \in [DOMAIN profiles -> Systems]
    /\ DOMAIN nixos \subseteq Names /\ nixos \in [DOMAIN nixos -> StoreFiles]
    /\ tmps \subseteq Names
    /\ toml \in [header : Headers, entries : Seq(Entries)]
    /\ binary \in {"absent", "torn", "whole"}
    /\ registered \in BOOLEAN
    /\ pc \in {"idle", "entry", "copy", "rename", "list", "next",
               "prune", "install", "efi", "done"}
    /\ current \in Works
    /\ part \in {"kernel", "initrd"}
    /\ todo \subseteq Gens
    /\ text \in Seq(Entries)
    /\ copied \subseteq Names

\* Whatever the moment a run is stopped at, and whatever happens to the
\* generations meanwhile, each entry of the r-boot.toml on disk has its
\* kernel and initrd on disk, complete, and both are the ones of the system
\* its `init=` option names.
EntriesBootable ==
    \A i \in DOMAIN toml.entries :
        LET e == toml.entries[i] IN
        /\ {e.linux, e.initrd} \subseteq DOMAIN nixos
        /\ nixos[e.linux] = Kernel[e.init]
        /\ nixos[e.initrd] = Initrd[e.init]

\* A run that reaches its end leaves exactly the boot files its menu needs,
\* no matter what stopped runs before it left behind: no stale kernel, no
\* temporary file, and a whole binary.
CompletedRun ==
    pc = "done" =>
        /\ toml.entries = text
        /\ DOMAIN nixos = FilesOf(toml.entries)
        /\ tmps = {}
        /\ binary = "whole"

\* The menu shows the default first and then the generations, the newest
\* first, each number once and no more of them than -g allows, even when
\* numbers are freed and given out again while the run reads the links.
MenuOrder ==
    LET ids == [i \in DOMAIN toml.entries |-> toml.entries[i].id]
        gens == {i \in DOMAIN ids : ids[i] # DefaultId}
    IN  /\ \A i \in DOMAIN ids \ gens : i = 1
        /\ \A i, j \in gens : i < j => ids[i] > ids[j]
        /\ Cardinality(gens) <= NumGenerations

(***************************************************************************)
(* The inductive invariant behind EntriesBootable and CompletedRun.        *)
(***************************************************************************)

\* Each entry names the files of its own system.
BuiltByAddEntry(entries) ==
    \A i \in DOMAIN entries :
        LET e == entries[i] IN
        /\ Bootable(e.init)
        /\ e.linux = CleanName[Kernel[e.init]]
        /\ e.initrd = CleanName[Initrd[e.init]]

\* A finished file bears the name of the store file it is a copy of.
NamedAfterSource == \A n \in DOMAIN nixos : CleanName[nixos[n]] = n

\* The kernel that add_entry has counted for an entry not yet in the text.
Pending == IF pc \in {"copy", "rename"} /\ part = "initrd"
           THEN {CleanName[Kernel[current.system]]} ELSE {}

\* `copied` is what the text needs, and all of it is in place.
CopiedExact ==
    /\ copied = FilesOf(text) \cup Pending
    /\ copied \subseteq DOMAIN nixos

\* What holds of the disk from each point of the run on.
Progress ==
    /\ pc \in {"copy", "rename"} => Bootable(current.system)
    /\ pc \in {"prune", "install", "efi", "done"} => toml.entries = text
    /\ pc \in {"install", "efi", "done"} => DOMAIN nixos \subseteq copied /\ tmps = {}
    /\ pc \in {"efi", "done"} => binary = "whole"

\* The inductive invariant: the parts above, and what the menu on disk
\* refers to is on disk.
IInv ==
    /\ TypeOK
    /\ BuiltByAddEntry(toml.entries)
    /\ BuiltByAddEntry(text)
    /\ FilesOf(toml.entries) \subseteq DOMAIN nixos
    /\ NamedAfterSource
    /\ CopiedExact
    /\ Progress

\* Every run ends, the ones whose generations vanish under them included.
RunEnds == Running ~> ~Running
============================================================================
