-------------------------- MODULE EspSharingProofs --------------------------
(***************************************************************************)
(* For any set of entries, files, settings, systems and processes, running *)
(* in any interleaving: only a purge of files that are needed and a save of*)
(* an outdated copy can take away an entry's files or another's edit.      *)
(*                                                                         *)
(* The invariant is SharedInv: between load and rename a command holds the *)
(* file that is on the ESP, but for its own edit, or its copy is known to  *)
(* be outdated; and a rebuild's copies are there or known to be purged,    *)
(* all of them before its rename, while what its pruning deletes is of no  *)
(* entry.                                                                  *)
(***************************************************************************)
EXTENDS EspSharing, TLAPS

AllAssumptions == BuildableAssumption /\ IdsAssumption /\ KeysAssumption

-----------------------------------------------------------------------------
(* Lemmas about configurations *)

\* An entry removed from a menu leaves a menu.
LEMMA RestrictedMenu ==
    ASSUME NEW menu \in Menus, NEW S
    PROVE  Restrict(menu, DOMAIN menu \ S) \in Menus
<1>1. PICK D \in SUBSET Ids : menu \in [D -> SUBSET Files \ {{}}]
  BY DEF Menus
<1>2. Restrict(menu, DOMAIN menu \ S) \in [D \ S -> SUBSET Files \ {{}}]
  BY <1>1 DEF Restrict
<1>. QED BY <1>2 DEF Menus

\* An edit makes a configuration of a configuration.
LEMMA AppliedConfig ==
    ASSUME NEW config \in Configs, NEW edit \in EditSet
    PROVE  Applied(config, edit) \in Configs
<1>1. PICK K \in SUBSET ({"default"} \cup Keys) :
          edit.puts \in [K -> Ids \cup Values \cup {Unset}]
  BY DEF EditSet, Puts
<1>2. Applied(config, edit).settings \in Settings
  BY <1>1 DEF Applied, Configs, Settings
<1>3. Applied(config, edit).entries \in Menus
  BY RestrictedMenu DEF Applied, Configs
<1>. QED BY <1>2, <1>3 DEF Applied, Configs

\* Settings are put and entries taken out by edits.
LEMMA EditsAreEdits ==
    /\ \A key \in {"default"} \cup Keys, value \in Ids \cup Values \cup {Unset} :
          Put(key, value) \in EditSet
    /\ \A id \in Ids : Take(id) \in EditSet
    /\ NoEdit \in EditSet
<1>1. \A T : [k \in {} |-> Unset] \in [{} -> T]
  OBVIOUS
<1>2. [k \in {} |-> Unset] \in Puts
  BY <1>1 DEF Puts
<1>3. ASSUME NEW key \in {"default"} \cup Keys, NEW value \in Ids \cup Values \cup {Unset}
      PROVE  Put(key, value) \in EditSet
  <2>1. [k \in {key} |-> value] \in [{key} -> Ids \cup Values \cup {Unset}]
    OBVIOUS
  <2>2. [k \in {key} |-> value] \in Puts
    BY <2>1 DEF Puts
  <2>. QED BY <2>2 DEF Put, EditSet
<1>. QED BY <1>2, <1>3 DEF Take, NoEdit, EditSet

\* set-default and its kin change the file as the edit they make says.
LEMMA SetIsApplied ==
    ASSUME NEW config \in Configs, NEW key \in {"default"} \cup Keys, NEW value
    PROVE  Set(config, key, value) = Applied(config, Put(key, value))
<1>1. PICK D \in SUBSET Ids : config.entries \in [D -> SUBSET Files \ {{}}]
  BY DEF Configs, Menus
<1>2. Restrict(config.entries, DOMAIN config.entries \ {}) = config.entries
  BY <1>1 DEF Restrict
<1>3. config.settings \in [{"default"} \cup Keys -> Ids \cup Values \cup {Unset}]
  BY DEF Configs, Settings
<1>4. [config.settings EXCEPT ![key] = value]
      = [k \in DOMAIN config.settings |->
           IF k \in {key} THEN value ELSE config.settings[k]]
  BY <1>3
<1>5. Applied(config, Put(key, value)).settings
      = [k \in DOMAIN config.settings |->
           IF k \in {key} THEN value ELSE config.settings[k]]
  BY DEF Applied, Put
<1>6. Applied(config, Put(key, value)).entries = config.entries
  BY <1>2 DEF Applied, Put
<1>. QED BY <1>4, <1>5, <1>6 DEF Set, Applied, Configs

\* remove changes the file as the edit it makes says.
LEMMA WithoutIsApplied ==
    ASSUME NEW config \in Configs, NEW id \in Ids
    PROVE  Without(config, id) = Applied(config, Take(id))
<1>1. config.settings \in [{"default"} \cup Keys -> Ids \cup Values \cup {Unset}]
  BY DEF Configs, Settings
<1>2. [config.settings EXCEPT !["default"] = IF @ = id THEN Unset ELSE @]
      = [k \in DOMAIN config.settings |->
           IF k = "default" /\ config.settings[k] \in {id} THEN Unset
           ELSE config.settings[k]]
  BY <1>1
<1>. QED BY <1>2 DEF Without, Applied, Take

\* The file a rebuild writes is a configuration.
LEMMA GeneratedConfig ==
    ASSUME KeysAssumption, IdsAssumption, NEW menu \in Menus
    PROVE  Generated(menu) \in Configs /\ Generated(menu).entries = menu
BY DEF KeysAssumption, IdsAssumption, Generated, Configs, Settings

\* The memory of a process that does not run has its shape.
LEMMA BlankConfig == Blank \in Configs /\ Blank.entries \in Menus
<1>1. [id \in {} |-> {}] \in [{} -> SUBSET Files \ {{}}]
  OBVIOUS
<1>2. [id \in {} |-> {}] \in Menus
  BY <1>1 DEF Menus
<1>. QED BY <1>2 DEF Blank, Configs, Settings

\* The files of a menu's entries are files.
LEMMA FilesInMenu ==
    ASSUME NEW menu \in Menus
    PROVE  FilesIn(menu) \subseteq Files
<1>1. PICK D \in SUBSET Ids : menu \in [D -> SUBSET Files \ {{}}]
  BY DEF Menus
<1>. QED BY <1>1 DEF FilesIn

\* Taking entries out of a menu adds no file.
LEMMA FilesInRestricted ==
    ASSUME NEW menu \in Menus, NEW S
    PROVE  FilesIn(Restrict(menu, DOMAIN menu \ S)) \subseteq FilesIn(menu)
BY DEF FilesIn, Restrict

\* An entry added to a menu makes a menu.
LEMMA AddedMenu ==
    ASSUME NEW menu \in Menus, NEW id \in Ids, NEW files \in SUBSET Files \ {{}}
    PROVE  Added(menu, id, files) \in Menus
<1>1. PICK D \in SUBSET Ids : menu \in [D -> SUBSET Files \ {{}}]
  BY DEF Menus
<1>2. Added(menu, id, files) \in [D \cup {id} -> SUBSET Files \ {{}}] /\ D \cup {id} \in SUBSET Ids
  BY <1>1 DEF Added
<1>. QED BY <1>2 DEF Menus

\* The files of its entries are those and its own.
LEMMA FilesInAdded ==
    ASSUME NEW menu, NEW id, NEW files, id \notin DOMAIN menu
    PROVE  FilesIn(Added(menu, id, files)) = FilesIn(menu) \cup files
BY DEF FilesIn, Added

-----------------------------------------------------------------------------
(* Type correctness, in any interleaving *)

\* What a command loads and remembers has its shape.
LEMMA LoadedType ==
    ASSUME AllAssumptions, TypeOK, NEW c \in Clis,
           NEW pc \in {"save", "scan"}, NEW config \in Configs,
           NEW files \in SUBSET Files, NEW edit \in EditSet,
           Loaded(c, pc, config, files, edit)
    PROVE  TypeOK'
BY DEF AllAssumptions, TypeOK, builder, history, Loaded

\* What becomes of the copies the commands hold is one of three things.
LEMMA OutdatedType ==
    ASSUME TypeOK, NEW how \in {"same", "edited", "replaced"}
    PROVE  Outdated(how) \in [Clis -> {"same", "edited", "replaced"}]
BY DEF TypeOK, Outdated

\* Each command of r-boot-cli keeps the shapes.
LEMMA CommandType ==
    ASSUME AllAssumptions, TypeOK, NEW c \in Clis, Command(c)
    PROVE  TypeOK'
<1>. toml \in Configs /\ toml.settings \in Settings /\ toml.entries \in Menus
  BY DEF TypeOK, Configs
<1>1. CASE SetDefault(c)
  <2>1. PICK id \in DOMAIN toml.entries :
          Loaded(c, "save", Set(toml, "default", id), {}, Put("default", id))
    BY <1>1 DEF SetDefault
  <2>2. id \in Ids
    BY DEF Menus
  <2>3. Put("default", id) \in EditSet
    BY <2>2, EditsAreEdits
  <2>4. Set(toml, "default", id) \in Configs
    BY <2>2, <2>3, SetIsApplied, AppliedConfig
  <2>. QED BY <2>1, <2>3, <2>4, LoadedType
<1>2. CASE SetKey(c)
  <2>1. PICK key \in Keys, value \in Values :
          Loaded(c, "save", Set(toml, key, value), {}, Put(key, value))
    BY <1>2 DEF SetKey
  <2>2. Put(key, value) \in EditSet
    BY EditsAreEdits
  <2>3. Set(toml, key, value) = Applied(toml, Put(key, value))
    <3>. key \in {"default"} \cup Keys
      OBVIOUS
    <3>. QED BY SetIsApplied
  <2>4. Set(toml, key, value) \in Configs
    BY <2>2, <2>3, AppliedConfig
  <2>. QED BY <2>1, <2>2, <2>4, LoadedType
<1>3. CASE Remove(c)
  <2>1. PICK id \in DOMAIN toml.entries, purge \in BOOLEAN :
          Loaded(c, "save", Without(toml, id),
                 IF purge THEN toml.entries[id] ELSE {}, Take(id))
    BY <1>3 DEF Remove
  <2>2. id \in Ids /\ toml.entries[id] \subseteq Files
    BY DEF Menus
  <2>3. Take(id) \in EditSet
    BY <2>2, EditsAreEdits
  <2>4. Without(toml, id) \in Configs
    BY <2>2, <2>3, WithoutIsApplied, AppliedConfig
  <2>5. (IF purge THEN toml.entries[id] ELSE {}) \in SUBSET Files
    BY <2>2
  <2>. QED BY <2>1, <2>3, <2>4, <2>5, LoadedType
<1>4. CASE ListFiles(c)
  <2>1. [Blank EXCEPT !.entries = toml.entries] \in Configs
    BY BlankConfig DEF Configs
  <2>. QED BY <1>4, <2>1, EditsAreEdits, LoadedType DEF ListFiles
<1>5. CASE Save(c)
  <2>1. toml' \in Configs /\ stale' \in BOOLEAN /\ UNCHANGED <<nixos, builder, purged>>
    BY <1>5 DEF Save, TypeOK
  <2>2. expected' \in Configs
    BY <1>5, <2>1, AppliedConfig DEF Save, TypeOK
  <2>3. since' \in [Clis -> {"same", "edited", "replaced"}]
    BY <1>5, OutdatedType DEF Save
  <2>4. cli' \in [Clis -> [pc : {"idle", "save", "purge", "scan", "listed"},
                          config : Configs, files : SUBSET Files, edit : EditSet]]
    BY <1>5, BlankConfig, EditsAreEdits DEF Save, Ended, TypeOK
  <2>. QED BY <2>1, <2>2, <2>3, <2>4 DEF TypeOK, builder
<1>6. CASE Purge(c)
  BY <1>6 DEF Purge, TypeOK, builder
<1>7. CASE Scan(c)
  <2>1. cli' \in [Clis -> [pc : {"idle", "save", "purge", "scan", "listed"},
                          config : Configs, files : SUBSET Files, edit : EditSet]]
    BY <1>7, BlankConfig, EditsAreEdits DEF Scan, Ended, Unreferenced, TypeOK
  <2>. QED BY <1>7, <2>1 DEF Scan, TypeOK, builder, history
<1>8. CASE EndCli(c)
  BY <1>8, BlankConfig, EditsAreEdits DEF EndCli, TypeOK, builder, Ended
<1>. QED BY <1>1, <1>2, <1>3, <1>4, <1>5, <1>6, <1>7, <1>8 DEF Command, Edits

\* Each step of a rebuild keeps the shapes.
LEMMA RebuildType ==
    ASSUME AllAssumptions, TypeOK, Rebuild
    PROVE  TypeOK'
<1>1. CASE Begin
  BY <1>1, BlankConfig DEF Begin, TypeOK, history
<1>2. CASE AddEntry
  <2>1. PICK id \in Ids, files \in Buildable : plan' = Added(plan, id, files)
    BY <1>2 DEF AddEntry
  <2>2. plan' \in Menus
    BY <2>1, AddedMenu DEF AllAssumptions, BuildableAssumption, TypeOK
  <2>. QED BY <1>2, <2>2 DEF AddEntry, TypeOK, history
<1>3. CASE Copy
  BY <1>3, FilesInMenu DEF Copy, TypeOK
<1>4. CASE Regenerate
  BY <1>4, GeneratedConfig, OutdatedType DEF Regenerate, TypeOK, AllAssumptions
<1>5. CASE Prune
  BY <1>5 DEF Prune, TypeOK, builder, history
<1>6. CASE EndBuild
  BY <1>6, BlankConfig DEF EndBuild, BuildEnds, TypeOK, history
<1>7. CASE Abort
  BY <1>7, BlankConfig DEF Abort, BuildEnds, TypeOK, history
<1>. QED BY <1>1, <1>2, <1>3, <1>4, <1>5, <1>6, <1>7 DEF Rebuild

\* What the boot loader saves is an edit.
LEMMA SavedEdit ==
    ASSUME NEW saved \in UNION {[K -> Values] : K \in SUBSET Keys}
    PROVE  [puts |-> saved, gone |-> {}] \in EditSet
<1>1. PICK K \in SUBSET Keys : saved \in [K -> Values]
  OBVIOUS
<1>2. saved \in [K -> Ids \cup Values \cup {Unset}] /\ K \in SUBSET ({"default"} \cup Keys)
  BY <1>1
<1>3. saved \in Puts
  BY <1>2 DEF Puts
<1>. QED BY <1>3 DEF EditSet

\* A restart keeps the shapes.
LEMMA RestartType ==
    ASSUME TypeOK, Restart
    PROVE  TypeOK'
<1>1. PICK saved \in UNION {[K -> Values] : K \in SUBSET Keys} :
        /\ toml' = Applied(toml, [puts |-> saved, gone |-> {}])
        /\ expected' = IF stale THEN toml' ELSE Applied(expected, [puts |-> saved, gone |-> {}])
  BY DEF Restart
<1>2. toml' \in Configs /\ expected' \in Configs
  BY <1>1, SavedEdit, AppliedConfig DEF TypeOK
<1>3. Ended \in [pc : {"idle", "save", "purge", "scan", "listed"},
                 config : Configs, files : SUBSET Files, edit : EditSet]
  BY BlankConfig, EditsAreEdits DEF Ended
<1>. QED BY <1>2, <1>3, BlankConfig DEF Restart, BuildEnds, TypeOK

\* The initial ESP, as the first rebuild left it, has its shape.
LEMMA InitType ==
    ASSUME AllAssumptions, Init
    PROVE  TypeOK
<1>3. toml \in Configs /\ nixos \subseteq Files
  BY BlankConfig, GeneratedConfig DEF Init, AllAssumptions
<1>4. Ended \in [pc : {"idle", "save", "purge", "scan", "listed"},
                 config : Configs, files : SUBSET Files, edit : EditSet]
  BY BlankConfig, EditsAreEdits DEF Ended
<1>. QED BY <1>3, <1>4, BlankConfig DEF Init, TypeOK

\* Every step keeps the shapes.
LEMMA StepType ==
    ASSUME AllAssumptions, TypeOK, [Next]_vars
    PROVE  TypeOK'
<1>1. CASE UNCHANGED vars
  BY <1>1 DEF vars, TypeOK, builder, history
<1>. QED BY <1>1, RebuildType, RestartType, CommandType DEF Next

\* The shared file and what the processes remember keep their shapes,
\* however the processes interleave.
THEOREM TypeCorrectness == Spec => []TypeOK
<1>0. AllAssumptions
  BY BuildableAssumption, IdsAssumption, KeysAssumption DEF AllAssumptions
<1>. QED BY <1>0, InitType, StepType, PTL DEF Spec

-----------------------------------------------------------------------------
(* Edits, files and lists, in any interleaving *)

\* A command that loads the file.
LEMMA LoadedShared ==
    ASSUME SharedInv, NEW c \in Clis,
           NEW pc \in {"save", "scan"}, NEW config, NEW files, NEW edit,
           Loaded(c, pc, config, files, edit), TypeOK',
           pc = "save" => config = Applied(toml, edit),
           pc = "scan" => config.entries = toml.entries
    PROVE  SharedInv'
<1>1. /\ cli'[c] = [pc |-> pc, config |-> config, files |-> files, edit |-> edit]
      /\ \A d \in Clis : d # c => cli'[d] = cli[d]
      /\ UNCHANGED <<phase, plan, copied>>
      /\ toml' = toml /\ nixos' = nixos
      /\ UNCHANGED <<expected, stale, since, purged>>
  BY DEF Loaded, SharedInv, TypeOK, builder, history
<1>2. CliInv'
  BY <1>1 DEF SharedInv, CliInv
<1>3. BuilderInv' /\ ListedUnused'
  BY <1>1 DEF SharedInv, BuilderInv, ListedUnused
<1>4. EntriesBootable' /\ EditsSurvive'
  BY <1>1 DEF SharedInv, EntriesBootable, EditsSurvive
<1>. QED BY <1>2, <1>3, <1>4 DEF SharedInv

\* Taking entries out of the file needs no more files.
LEMMA AppliedFiles ==
    ASSUME NEW config \in Configs, NEW edit
    PROVE  FilesIn(Applied(config, edit).entries) \subseteq FilesIn(config.entries)
<1>1. config.entries \in Menus
  BY DEF Configs
<1>. QED BY <1>1, FilesInRestricted DEF Applied

\* The rename of a command that holds the file as it is.
LEMMA FreshSave ==
    ASSUME SharedInv, NEW c \in Clis, Save(c), since[c] = "same", TypeOK'
    PROVE  SharedInv'
<1>. TypeOK /\ CliInv /\ BuilderInv
  BY DEF SharedInv
<1>1. /\ UNCHANGED <<phase, plan, copied, nixos, purged>>
      /\ toml' = Applied(toml, cli[c].edit) /\ stale' = stale
      /\ expected' = IF stale THEN toml' ELSE Applied(expected, cli[c].edit)
  BY DEF Save, CliInv, TypeOK, builder
<1>2. FilesIn(toml'.entries) \subseteq FilesIn(toml.entries)
  BY <1>1, AppliedFiles DEF TypeOK
<1>3. EditsSurvive' /\ EntriesBootable' /\ BuilderInv'
  BY <1>1, <1>2 DEF SharedInv, EditsSurvive, EntriesBootable, BuilderInv
<1>4. cli'[c].pc = "purge"
  BY DEF Save, TypeOK, Ended
<1>5. ASSUME NEW d \in Clis, d # c
      PROVE  /\ cli'[d] = cli[d]
             /\ cli[d].pc \in {"save", "scan", "listed"} =>
                   since'[d] = IF since[d] = "replaced" THEN "replaced" ELSE "edited"
  BY <1>5 DEF Save, TypeOK, Outdated
<1>6. CliInv'
  BY <1>2, <1>4, <1>5 DEF CliInv
<1>7. ListedUnused'
  BY <1>2, <1>4, <1>5 DEF SharedInv, ListedUnused
<1>. QED BY <1>3, <1>6, <1>7 DEF SharedInv

\* The rename of a command whose copy is outdated.
LEMMA StaleSave ==
    ASSUME SharedInv, NEW c \in Clis, Save(c), since[c] # "same", TypeOK'
    PROVE  SharedInv'
<1>. TypeOK /\ BuilderInv
  BY DEF SharedInv
<1>1. UNCHANGED <<phase, plan, copied, nixos, purged>> /\ stale' = TRUE
  BY DEF Save, builder
<1>2. EditsSurvive' /\ EntriesBootable' /\ BuilderInv'
  BY <1>1 DEF EditsSurvive, EntriesBootable, BuilderInv
<1>3. cli'[c].pc = "purge"
  BY DEF Save, TypeOK, Ended
<1>4. ASSUME NEW d \in Clis, d # c
      PROVE  /\ cli'[d] = cli[d]
             /\ cli[d].pc \in {"save", "scan", "listed"} => since'[d] = "replaced"
  BY <1>4 DEF Save, TypeOK, Outdated
<1>. QED BY <1>2, <1>3, <1>4 DEF SharedInv, CliInv, ListedUnused

\* Each command of r-boot-cli.
LEMMA CommandShared ==
    ASSUME AllAssumptions, SharedInv, NEW c \in Clis, Command(c)
    PROVE  SharedInv'
<1>. /\ TypeOK /\ TypeOK'
     /\ toml \in Configs /\ toml.entries \in Menus
  BY CommandType DEF SharedInv, TypeOK, Configs
<1>1. CASE SetDefault(c)
  <2>1. PICK id \in DOMAIN toml.entries :
          Loaded(c, "save", Set(toml, "default", id), {}, Put("default", id))
    BY <1>1 DEF SetDefault
  <2>2. Set(toml, "default", id) = Applied(toml, Put("default", id))
    BY SetIsApplied
  <2>. QED BY <2>1, <2>2, LoadedShared
<1>2. CASE SetKey(c)
  <2>1. PICK key \in Keys, value \in Values :
          Loaded(c, "save", Set(toml, key, value), {}, Put(key, value))
    BY <1>2 DEF SetKey
  <2>2. Set(toml, key, value) = Applied(toml, Put(key, value))
    <3>. key \in {"default"} \cup Keys
      OBVIOUS
    <3>. QED BY SetIsApplied
  <2>. QED BY <2>1, <2>2, LoadedShared
<1>3. CASE Remove(c)
  <2>1. PICK id \in DOMAIN toml.entries, purge \in BOOLEAN :
          Loaded(c, "save", Without(toml, id),
                 IF purge THEN toml.entries[id] ELSE {}, Take(id))
    BY <1>3 DEF Remove
  <2>2. id \in Ids
    BY DEF Menus
  <2>3. Without(toml, id) = Applied(toml, Take(id))
    BY <2>2, WithoutIsApplied
  <2>. QED BY <2>1, <2>3, LoadedShared
<1>4. CASE ListFiles(c)
  <2>1. [Blank EXCEPT !.entries = toml.entries].entries = toml.entries
    BY DEF Blank
  <2>. QED BY <1>4, <2>1, LoadedShared DEF ListFiles
<1>5. CASE Save(c)
  BY <1>5, FreshSave, StaleSave
<1>6. CASE Purge(c)
  <2>1. PICK f \in cli[c].files :
          /\ nixos' = nixos \ {f} /\ cli' = [cli EXCEPT ![c].files = @ \ {f}]
          /\ purged' = purged \cup ({f} \cap (FilesIn(toml.entries) \cup FilesIn(plan)))
    BY <1>6 DEF Purge
  <2>2. /\ UNCHANGED <<phase, plan, copied>>
        /\ toml' = toml /\ expected' = expected /\ stale' = stale /\ since' = since
        /\ cli'[c].pc = "purge"
        /\ \A d \in Clis : d # c => cli'[d] = cli[d]
    BY <1>6, <2>1 DEF Purge, TypeOK, builder
  <2>3. EntriesBootable' /\ EditsSurvive' /\ BuilderInv'
    BY <2>1, <2>2 DEF SharedInv, EntriesBootable, EditsSurvive, BuilderInv
  <2>. QED BY <2>2, <2>3 DEF SharedInv, CliInv, ListedUnused
<1>7. CASE Scan(c)
  <2>1. /\ UNCHANGED <<phase, plan, copied>>
        /\ toml' = toml /\ nixos' = nixos
        /\ UNCHANGED <<expected, stale, since, purged>>
        /\ cli[c].pc = "scan" /\ cli'[c].pc = "listed"
        /\ cli'[c].files = nixos \ FilesIn(cli[c].config.entries)
        /\ \A d \in Clis : d # c => cli'[d] = cli[d]
    BY <1>7 DEF Scan, Ended, Unreferenced, TypeOK, builder, history
  <2>2. ListedUnused'
    BY <2>1 DEF SharedInv, CliInv, ListedUnused
  <2>. QED BY <2>1, <2>2 DEF SharedInv, BuilderInv, CliInv, EntriesBootable, EditsSurvive
<1>8. CASE EndCli(c)
  <2>1. /\ UNCHANGED <<phase, plan, copied>>
        /\ toml' = toml /\ nixos' = nixos
        /\ UNCHANGED <<expected, stale, purged>>
        /\ cli'[c].pc = "idle"
        /\ \A d \in Clis : d # c => cli'[d] = cli[d] /\ since'[d] = since[d]
    BY <1>8 DEF EndCli, Ended, TypeOK, builder
  <2>. QED BY <2>1 DEF SharedInv, BuilderInv, CliInv, EntriesBootable, EditsSurvive, ListedUnused
<1>. QED BY <1>1, <1>2, <1>3, <1>4, <1>5, <1>6, <1>7, <1>8 DEF Command, Edits

\* Each step of a rebuild.
LEMMA RebuildShared ==
    ASSUME AllAssumptions, SharedInv, Rebuild
    PROVE  SharedInv'
<1>. TypeOK /\ TypeOK' /\ BuilderInv
  BY RebuildType DEF SharedInv
<1>. USE DEF SharedInv, CliInv, EditsSurvive, ListedUnused
<1>1. CASE Begin
  BY <1>1 DEF Begin, history, BuilderInv, EntriesBootable
<1>2. CASE AddEntry
  <2>1. PICK id \in Ids \ DOMAIN plan, files \in Buildable : plan' = Added(plan, id, files)
    BY <1>2 DEF AddEntry
  <2>2. FilesIn(plan) \subseteq FilesIn(plan')
    BY <2>1, FilesInAdded
  <2>. QED BY <1>2, <2>2 DEF AddEntry, history, BuilderInv, EntriesBootable
<1>3. CASE Copy
  <2>1. BuilderInv' /\ EntriesBootable'
    BY <1>3 DEF Copy, BuilderInv, EntriesBootable
  <2>. QED BY <1>3, <2>1 DEF Copy
<1>4. CASE Regenerate
  <2>1. toml'.entries = plan
    BY <1>4, GeneratedConfig DEF Regenerate, AllAssumptions, TypeOK
  <2>2. BuilderInv' /\ EntriesBootable' /\ EditsSurvive'
    BY <1>4, <2>1 DEF Regenerate, BuilderInv, EntriesBootable
  <2>3. \A d \in Clis : cli[d].pc \in {"save", "scan", "listed"} => since'[d] = "replaced"
    BY <1>4 DEF Regenerate, Outdated
  <2>. QED BY <1>4, <2>2, <2>3 DEF Regenerate
<1>5. CASE Prune
  <2>1. BuilderInv' /\ EntriesBootable'
    BY <1>5 DEF Prune, history, builder, BuilderInv, EntriesBootable
  <2>. QED BY <1>5, <2>1 DEF Prune, history, builder
<1>6. CASE EndBuild
  BY <1>6 DEF EndBuild, BuildEnds, history, BuilderInv, EntriesBootable
<1>7. CASE Abort
  BY <1>7 DEF Abort, BuildEnds, history, BuilderInv, EntriesBootable
<1>. QED BY <1>1, <1>2, <1>3, <1>4, <1>5, <1>6, <1>7 DEF Rebuild

\* A restart.
LEMMA RestartShared ==
    ASSUME SharedInv, Restart
    PROVE  SharedInv'
<1>1. PICK saved \in UNION {[K -> Values] : K \in SUBSET Keys} :
        /\ toml' = Applied(toml, [puts |-> saved, gone |-> {}])
        /\ expected' = IF stale THEN toml' ELSE Applied(expected, [puts |-> saved, gone |-> {}])
  BY DEF Restart
<1>2. /\ phase' = "idle" /\ UNCHANGED <<nixos, stale, purged>>
      /\ \A c \in Clis : cli'[c].pc = "idle"
  BY DEF Restart, BuildEnds, Ended
<1>3. EditsSurvive'
  BY <1>1, <1>2 DEF SharedInv, EditsSurvive
<1>4. FilesIn(toml'.entries) \subseteq FilesIn(toml.entries)
  BY <1>1, AppliedFiles DEF SharedInv, TypeOK
<1>5. TypeOK'
  BY RestartType DEF SharedInv
<1>. QED BY <1>2, <1>3, <1>4, <1>5 DEF SharedInv, BuilderInv, CliInv,
                                       EntriesBootable, ListedUnused

\* The initial ESP.
LEMMA InitShared ==
    ASSUME AllAssumptions, Init
    PROVE  SharedInv
<1>1. toml.entries = Blank.entries
  BY BlankConfig, GeneratedConfig DEF Init, AllAssumptions
<1>2. FilesIn(toml.entries) = {}
  BY <1>1 DEF FilesIn, Blank
<1>. QED BY <1>2, InitType DEF Init, SharedInv, BuilderInv, CliInv,
                   EntriesBootable, EditsSurvive, ListedUnused, Ended

\* SharedInv is inductive.
LEMMA StepShared ==
    ASSUME AllAssumptions, SharedInv, [Next]_vars
    PROVE  SharedInv'
<1>1. CASE UNCHANGED vars
  BY <1>1 DEF vars, history, SharedInv, TypeOK, builder, BuilderInv, CliInv,
              EntriesBootable, EditsSurvive, ListedUnused
<1>. QED BY <1>1, RebuildShared, RestartShared, CommandShared DEF Next

\* The strengthening.
LEMMA SharedInvariance == Spec => []SharedInv
<1>0. AllAssumptions
  BY BuildableAssumption, IdsAssumption, KeysAssumption DEF AllAssumptions
<1>. QED BY <1>0, InitShared, StepShared, PTL DEF Spec

\* Whatever runs at once and wherever it is stopped, each entry of
\* r-boot.toml finds its kernel and initrd on the ESP, but for files purged
\* although they were needed and copies of the file saved when outdated.
THEOREM EntriesStayBootable == Spec => []EntriesBootable
<1>1. SharedInv => EntriesBootable
  BY DEF SharedInv
<1>. QED BY <1>1, SharedInvariance, PTL

\* The file is the one generated last with every edit made since, as long as
\* no command saves a copy that another has outdated.
THEOREM FreshEditsSurvive == Spec => []EditsSurvive
<1>1. SharedInv => EditsSurvive
  BY DEF SharedInv
<1>. QED BY <1>1, SharedInvariance, PTL

\* What list-files calls unreferenced is needed by no entry, whatever was
\* edited meanwhile, until the file is replaced by a rebuild or an outdated
\* copy.
THEOREM ListsStayRight == Spec => []ListedUnused
<1>1. SharedInv => ListedUnused
  BY DEF SharedInv
<1>. QED BY <1>1, SharedInvariance, PTL

=============================================================================
