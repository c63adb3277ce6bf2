----------------------------- MODULE EspSharing -----------------------------
(***************************************************************************)
(* The programs that share boot/r-boot.toml and boot/nixos on a mounted    *)
(* ESP: r-boot-conf-builder, which regenerates the one and fills and       *)
(* prunes the other, any number of r-boot-cli processes, which load,       *)
(* edit and replace the first and may delete from the second, and the boot *)
(* loader, which saves settings when the machine restarts.                 *)
(*                                                                         *)
(* None of them takes a lock: each reads, computes and replaces the file   *)
(* by a rename, whatever the others do in between, and can stop between    *)
(* any two of its steps (an error, a kill, a power cut).  NixOS runs one   *)
(* rebuild at a time.                                                      *)
(*                                                                         *)
(* ConfBuilder has the steps of one rebuild in detail, which carry out the *)
(* rebuild here (BuilderOnEsp), and ConfigFile the text of the file; here  *)
(* a rebuild plans entry by entry, copies their files, renames, prunes,    *)
(* and a configuration is its settings and its entries' files.             *)
(***************************************************************************)
EXTENDS Functions, FiniteSets

CONSTANTS
    Clis,         \* r-boot-cli processes
    Ids,          \* entry ids
    DefaultId,    \* the id "nixos-default"
    Files,        \* kernels and initrds
    Buildable,    \* the files a system may have, as sets
    Keys,         \* the settings other than `default`
    Values,       \* their values
    BuiltTimeout, \* the setting and value a rebuild writes: [key, value]
    Unset         \* no such line

Menus == UNION {[S -> SUBSET Files \ {{}}] : S \in SUBSET Ids}
Settings == [{"default"} \cup Keys -> Ids \cup Values \cup {Unset}]
Configs == [settings : Settings, entries : Menus]
Puts == UNION {[K -> Ids \cup Values \cup {Unset}] : K \in SUBSET ({"default"} \cup Keys)}
EditSet == [puts : Puts, gone : SUBSET Ids]

ASSUME BuildableAssumption == Buildable \subseteq SUBSET Files \ {{}}
ASSUME IdsAssumption == DefaultId \in Ids /\ Unset \notin Ids
ASSUME KeysAssumption ==
    /\ "default" \notin Keys
    /\ BuiltTimeout \in [key : Keys, value : Values]

VARIABLES
    toml,     \* boot/r-boot.toml
    nixos,    \* the files of boot/nixos
    phase,    \* of the rebuild: "idle", "copy" or "prune"
    plan,     \* the entries it is to write
    copied,   \* the files it needs and has
    cli,      \* each r-boot-cli: [pc, config, files, edit]
    expected, \* history: the last file generated, with the edits made since; or
              \* just what is there, after
    stale,    \* history: an edit of an outdated copy
    since,    \* history: what became of the file a command has loaded; it is the
              \* "same", has been "edited", or "replaced" by another
    purged    \* history: files deleted by `remove --purge` although an entry or
              \* the rebuild needs them, and not copied again

builder == <<phase, plan, copied>>
history == <<expected, stale, since, purged>>
vars == <<toml, nixos, builder, cli, history>>

FilesIn(entries) == UNION {entries[id] : id \in DOMAIN entries}

Blank == [settings |-> [k \in {"default"} \cup Keys |-> Unset],
          entries  |-> [id \in {} |-> {}]]
NoEdit == [puts |-> [k \in {} |-> Unset], gone |-> {}]
Ended == [pc |-> "idle", config |-> Blank, files |-> {}, edit |-> NoEdit]

\* The file a rebuild writes; `default` names nixos-default even if that
\* system has no kernel and so no entry.
Generated(menu) ==
    [settings |-> [k \in {"default"} \cup Keys |->
                     IF k = "default" THEN DefaultId
                     ELSE IF k = BuiltTimeout.key THEN BuiltTimeout.value
                     ELSE Unset],
     entries  |-> menu]

\* Mutant: an edit of the empty configuration.
SetInBlank(config, key, value) == [Blank EXCEPT !.settings[key] = value,
                                                !.entries = config.entries]

\* set-default, set-timeout, set-spinner, set-logo, set-fastboot.
Set(config, key, value) == [config EXCEPT !.settings[key] = value]

\* remove.
Without(config, id) ==
    [settings |-> [config.settings EXCEPT !["default"] = IF @ = id THEN Unset ELSE @],
     entries  |-> Restrict(config.entries, DOMAIN config.entries \ {id})]

\* Mutant: only the default entry's files count as used.
UnreferencedByDefault(config) ==
    nixos \ UNION {config.entries[id] :
                     id \in DOMAIN config.entries \cap {config.settings["default"]}}

\* list-files: what is in boot/nixos and in no entry.
Unreferenced(config) == nixos \ FilesIn(config.entries)

\* The file is replaced under the commands that have loaded it.
Outdated(how) ==
    [c \in Clis |-> IF cli[c].pc \in {"idle", "purge"} \/ since[c] = "replaced"
                    THEN since[c] ELSE how]

Init ==
    /\ toml = Generated(Blank.entries) /\ nixos = {}
    /\ phase = "idle" /\ plan = Blank.entries /\ copied = {}
    /\ cli = [c \in Clis |-> Ended]
    /\ expected = toml /\ stale = FALSE /\ purged = {}
    /\ since = [c \in Clis |-> "same"]

-----------------------------------------------------------------------------
(* r-boot-conf-builder *)

\* Its memory is gone.
BuildEnds == phase' = "idle" /\ plan' = Blank.entries /\ copied' = {}

Begin ==
    /\ phase = "idle"
    /\ phase' = "copy" /\ plan' = Blank.entries /\ copied' = {}
    /\ UNCHANGED <<toml, nixos, cli, history>>

Added(entries, id, files) ==
    [i \in DOMAIN entries \cup {id} |-> IF i = id THEN files ELSE entries[i]]

\* add_entry: generations are looked up one by one, each when the files of
\* the one before are there.
AddEntry ==
    /\ phase = "copy"
    /\ FilesIn(plan) \subseteq copied
    /\ \E id \in Ids \ DOMAIN plan, files \in Buildable :
         plan' = Added(plan, id, files)
    /\ UNCHANGED <<toml, nixos, phase, copied, cli, history>>

\* add_entry, for one file: copied unless it is there.
Copy ==
    /\ phase = "copy"
    /\ \E f \in FilesIn(plan) \ copied :
         /\ nixos' = nixos \cup {f}
         /\ copied' = copied \cup {f}
         /\ purged' = purged \ {f}
    /\ UNCHANGED <<toml, phase, plan, cli, expected, stale, since>>

\* The rename of r-boot.toml.tmp.<pid>; earlier edits are lost, as announced.
Regenerate ==
    /\ phase = "copy"
    /\ copied = FilesIn(plan)
    /\ phase' = "prune"
    /\ toml' = Generated(plan)
    /\ expected' = Generated(plan) /\ stale' = FALSE /\ since' = Outdated("replaced")
    /\ UNCHANGED <<nixos, plan, copied, cli, purged>>

Prune ==
    /\ phase = "prune"
    /\ \E f \in nixos \ copied : nixos' = nixos \ {f}
    /\ UNCHANGED <<toml, builder, cli, history>>

EndBuild ==
    /\ phase = "prune"
    /\ nixos \subseteq copied
    /\ BuildEnds
    /\ UNCHANGED <<toml, nixos, cli, history>>

-----------------------------------------------------------------------------
(* What an edit asks for, whatever program makes it: settings to put and   *)
(* entries to take out, and with the entry the default that names it.      *)

Put(key, value) == [puts |-> [k \in {key} |-> value], gone |-> {}]
Take(id) == [puts |-> [k \in {} |-> Unset], gone |-> {id}]

Applied(config, edit) ==
    [settings |-> [k \in DOMAIN config.settings |->
                     IF k \in DOMAIN edit.puts THEN edit.puts[k]
                     ELSE IF k = "default" /\ config.settings[k] \in edit.gone THEN Unset
                     ELSE config.settings[k]],
     entries  |-> Restrict(config.entries, DOMAIN config.entries \ edit.gone)]

-----------------------------------------------------------------------------
(* r-boot-cli: a command loads the file and edits the copy in memory ...   *)

Loaded(c, pc, config, files, edit) ==
    /\ cli[c].pc = "idle"
    /\ cli' = [cli EXCEPT ![c] = [pc |-> pc, config |-> config,
                                  files |-> files, edit |-> edit]]
    /\ UNCHANGED <<toml, nixos, builder, history>>

SetDefault(c) == \E id \in DOMAIN toml.entries :
    Loaded(c, "save", Set(toml, "default", id), {}, Put("default", id))

SetKey(c) == \E key \in Keys, value \in Values :
    Loaded(c, "save", Set(toml, key, value), {}, Put(key, value))

\* With --purge the entry's files are to be deleted afterwards, whether or
\* not another entry has them too.
Remove(c) == \E id \in DOMAIN toml.entries, purge \in BOOLEAN :
    Loaded(c, "save", Without(toml, id), IF purge THEN toml.entries[id] ELSE {}, Take(id))

ListFiles(c) == Loaded(c, "scan", [Blank EXCEPT !.entries = toml.entries], {}, NoEdit)

(* ... replaces the file by a rename, and deletes what is to be purged.    *)

Save(c) ==
    /\ cli[c].pc = "save"
    /\ toml' = cli[c].config
    /\ stale' = (stale \/ since[c] # "same")
    /\ expected' = IF stale' THEN toml' ELSE Applied(expected, cli[c].edit)
    /\ since' = [Outdated(IF since[c] = "same" THEN "edited" ELSE "replaced") EXCEPT ![c] = "same"]
    /\ cli' = [cli EXCEPT ![c] = [Ended EXCEPT !.pc = "purge", !.files = cli[c].files]]
    /\ UNCHANGED <<nixos, builder, purged>>

\* Mutant: the files are deleted before the entry is taken out.
PurgeFirst(c) ==
    /\ cli[c].pc = "save"
    /\ \E f \in cli[c].files :
         /\ nixos' = nixos \ {f}
         /\ cli' = [cli EXCEPT ![c].files = @ \ {f}]
    /\ UNCHANGED <<toml, builder, history>>

\* One of the files: deleted, or reported as not there.
Purge(c) ==
    /\ cli[c].pc = "purge"
    /\ \E f \in cli[c].files :
         /\ nixos' = nixos \ {f}
         /\ cli' = [cli EXCEPT ![c].files = @ \ {f}]
         /\ purged' = purged \cup ({f} \cap (FilesIn(toml.entries) \cup FilesIn(plan)))
    /\ UNCHANGED <<toml, builder, expected, stale, since>>

\* read_dir, after the configuration was loaded: `files` is what the
\* command prints as unreferenced.
Scan(c) ==
    /\ cli[c].pc = "scan"
    /\ cli' = [cli EXCEPT ![c] = [Ended EXCEPT !.pc = "listed",
                                              !.files = Unreferenced(cli[c].config)]]
    /\ UNCHANGED <<toml, nixos, builder, history>>

\* The process ends: its work is done, or it is killed.
EndCli(c) ==
    /\ cli[c].pc # "idle"
    /\ cli' = [cli EXCEPT ![c] = Ended] /\ since' = [since EXCEPT ![c] = "same"]
    /\ UNCHANGED <<toml, nixos, builder, expected, stale, purged>>

-----------------------------------------------------------------------------
\* A rebuild fails or is killed.
Abort ==
    /\ phase # "idle"
    /\ BuildEnds
    /\ UNCHANGED <<toml, nixos, cli, history>>

\* The machine restarts under whatever runs, and the boot loader may save
\* settings of its own; how it does that is in ConfigFile and Boots.
Restart ==
    /\ BuildEnds
    /\ cli' = [c \in Clis |-> Ended] /\ since' = [c \in Clis |-> "same"]
    /\ \E saved \in UNION {[K -> Values] : K \in SUBSET Keys} :
         LET edit == [puts |-> saved, gone |-> {}] IN
         /\ toml' = Applied(toml, edit)
         /\ expected' = IF stale THEN toml' ELSE Applied(expected, edit)
    /\ UNCHANGED <<nixos, stale, purged>>

Rebuild == Begin \/ AddEntry \/ Copy \/ Regenerate \/ Prune \/ EndBuild \/ Abort

Edits(c) == SetDefault(c) \/ SetKey(c) \/ Remove(c) \/ Save(c) \/ Purge(c)

Command(c) == Edits(c) \/ ListFiles(c) \/ Scan(c) \/ EndCli(c)

Next == Rebuild \/ Restart \/ \E c \in Clis : Command(c)

Spec == Init /\ [][Next]_vars

-----------------------------------------------------------------------------
\* The shapes of the shared file and of what the processes remember.
TypeOK ==
    /\ toml \in Configs /\ expected \in Configs
    /\ nixos \subseteq Files
    /\ phase \in {"idle", "copy", "prune"} /\ plan \in Menus /\ copied \subseteq Files
    /\ cli \in [Clis -> [pc : {"idle", "save", "purge", "scan", "listed"},
                         config : Configs, files : SUBSET Files, edit : EditSet]]
    /\ stale \in BOOLEAN /\ since \in [Clis -> {"same", "edited", "replaced"}]
    /\ purged \subseteq Files

\* Whatever runs at the same time and wherever it is stopped, an entry of the
\* file on the ESP finds its kernel and initrd there.  What can take them
\* away is `remove --purge` when another entry needs them too, and a command
\* that puts back a copy of the file which is older than the files.
EntriesBootable == ~stale => FilesIn(toml.entries) \ nixos \subseteq purged

\* An edit survives until the next rebuild, among commands and rebuilds that
\* come in between, unless a command saves what it loaded before the edit.
EditsSurvive == ~stale => toml = expected

\* r-boot-cli main.rs:2: changes persist until the next rebuild.  So saving
\* one edit takes none back that another command has made.
EditsPersist == [][\A c \in Clis : Save(c) => toml' = Applied(toml, cli[c].edit)]_vars

\* What list-files prints as unreferenced can be deleted: no entry of the
\* file on the ESP needs it while the list is on the screen, whatever was
\* edited since, unless a rebuild or an outdated copy replaced the file.
ListedUnused ==
    \A c \in Clis : cli[c].pc = "listed" /\ since[c] # "replaced" =>
        cli[c].files \cap FilesIn(toml.entries) = {}

-----------------------------------------------------------------------------
(* What the properties rest on. *)

\* A rebuild's copies are there unless they were purged since, and all of
\* them before its file is; while it prunes, no entry needs others.
BuilderInv ==
    /\ phase # "idle" => copied \ nixos \subseteq purged /\ copied \subseteq FilesIn(plan)
    /\ phase = "prune" =>
         /\ FilesIn(plan) \subseteq copied
         /\ ~stale => FilesIn(toml.entries) \subseteq copied

\* A command holds the file on the ESP but for its own edit, unless the file
\* has changed; edits of others have only taken entries out of it.
CliInv ==
    \A c \in Clis :
        /\ cli[c].pc = "save" /\ since[c] = "same" => cli[c].config = Applied(toml, cli[c].edit)
        /\ cli[c].pc = "scan" /\ since[c] # "replaced" =>
             FilesIn(toml.entries) \subseteq FilesIn(cli[c].config.entries)

SharedInv ==
    /\ TypeOK
    /\ BuilderInv
    /\ CliInv
    /\ EntriesBootable
    /\ EditsSurvive
    /\ ListedUnused

=============================================================================
