------------------------- MODULE ConfBuilderProofs -------------------------
(***************************************************************************)
(* The entries of r-boot.toml stay bootable at every step of the installer *)
(* and a completed run leaves nothing else behind, for all sets of         *)
(* systems, generations and store files.                                   *)
(*                                                                         *)
(* EntriesBootable and CompletedRun are not inductive: what an entry       *)
(* refers to must be known before the entry is published, while the files  *)
(* are copied one by one, and a file taken over because its name exists is *)
(* the right one only because finished files bear their source's name.     *)
(* IInv of ConfBuilder says so.  MenuOrder needs OrderInv below besides.   *)
(***************************************************************************)
EXTENDS BuilderOnEsp, FiniteSetTheorems, WellFoundedInduction, TLAPS

\* What an added entry needs, on top of the entries before it.
LEMMA FilesOfAppend ==
    ASSUME NEW es \in Seq(Entries), NEW e \in Entries
    PROVE  FilesOf(Append(es, e)) = FilesOf(es) \cup {e.linux, e.initrd}
<1>. DEFINE new == Append(es, e)
<1>1. /\ DOMAIN new = DOMAIN es \cup {Len(es) + 1}
      /\ \A i \in DOMAIN es : new[i] = es[i]
      /\ new[Len(es) + 1] = e
  OBVIOUS
<1>. HIDE DEF new
<1>2. FilesOf(new) = FilesOf(es) \cup {e.linux, e.initrd}
  <2>1. ASSUME NEW f \in FilesOf(new) PROVE f \in FilesOf(es) \cup {e.linux, e.initrd}
    BY <1>1, <2>1 DEF FilesOf
  <2>2. ASSUME NEW f \in FilesOf(es) PROVE f \in FilesOf(new)
    BY <1>1, <2>2 DEF FilesOf
  <2>3. {e.linux, e.initrd} \subseteq FilesOf(new)
    BY <1>1 DEF FilesOf
  <2>. QED BY <2>1, <2>2, <2>3
<1>. QED BY <1>2 DEF new

\* add_entry's block is a well-formed entry and names its own system's files.
LEMMA EntryOfBootable ==
    ASSUME NEW w \in Works, Bootable(w.system)
    PROVE  /\ EntryOf(w) \in Entries
           /\ EntryOf(w).linux = CleanName[Kernel[w.system]]
           /\ EntryOf(w).initrd = CleanName[Initrd[w.system]]
           /\ EntryOf(w).init = w.system
BY FilesAssumption, CleanNameAssumption DEF EntryOf, Entries, Works, Bootable

\* The list stays well built when a bootable generation is appended.
LEMMA BuiltByAppend ==
    ASSUME NEW es \in Seq(Entries), BuiltByAddEntry(es),
           NEW w \in Works, Bootable(w.system)
    PROVE  /\ Append(es, EntryOf(w)) \in Seq(Entries)
           /\ BuiltByAddEntry(Append(es, EntryOf(w)))
<1>1. EntryOf(w) \in Entries BY EntryOfBootable
<1>. DEFINE new == Append(es, EntryOf(w))
<1>2. /\ new \in Seq(Entries)
      /\ DOMAIN new = DOMAIN es \cup {Len(es) + 1}
      /\ \A i \in DOMAIN es : new[i] = es[i]
      /\ new[Len(es) + 1] = EntryOf(w)
  BY <1>1
<1>. HIDE DEF new
<1>3. BuiltByAddEntry(new)
  BY <1>2, EntryOfBootable DEF BuiltByAddEntry
<1>. QED BY <1>2, <1>3 DEF new

\* While a file is copied, its source is in the store and has a name.
LEMMA SourceNamed ==
    ASSUME TypeOK, Bootable(current.system)
    PROVE  Source \in StoreFiles /\ Target \in Names
BY FilesAssumption, CleanNameAssumption DEF TypeOK, Bootable, Source, Target, Works

\* The initial states satisfy the invariant.
LEMMA InitIInv == Init => IInv
<1>. SUFFICES ASSUME Init PROVE IInv OBVIOUS
<1>1. TypeOK
  <2>1. NoWork \in Works
    BY SystemsAssumption DEF NoWork, Works, Ids
  <2>2. DOMAIN profiles \subseteq Gens /\ profiles \in [DOMAIN profiles -> Systems]
    BY DEF Init
  <2>3. DOMAIN nixos \subseteq Names /\ nixos \in [DOMAIN nixos -> StoreFiles]
    BY DEF Init
  <2>4. <<>> \in Seq(Entries)
    OBVIOUS
  <2>5. toml \in [header : Headers, entries : Seq(Entries)] /\ text \in Seq(Entries)
    BY <2>4, HeaderAssumption DEF Init
  <2>. QED BY <2>1, <2>2, <2>3, <2>5 DEF Init, TypeOK
<1>2. FilesOf(toml.entries) = {} /\ FilesOf(text) = {}
  BY DEF Init, FilesOf
<1>. QED BY <1>1, <1>2 DEF Init, IInv, BuiltByAddEntry, NamedAfterSource, CopiedExact,
                           Pending, Progress

(***************************************************************************)
(* A step preserves the invariant.  Types first, then the other parts: the *)
(* actions that leave disk, text and copied alone change only the place of *)
(* the process, the others have a lemma each.                              *)
(***************************************************************************)

\* Every step leaves each variable in its range.
LEMMA NextTypeOK ==
    ASSUME IInv, [Next]_vars
    PROVE  TypeOK'
<1>. USE DEF IInv, TypeOK, disk, memory
<1>1. ASSUME NEW s \in Systems, Start(s) PROVE TypeOK'
  BY <1>1 DEF Start, Works, Ids
<1>2. CASE SkipEntry
  BY <1>2 DEF SkipEntry, AfterEntry
<1>3. CASE AddEntry
  BY <1>3 DEF AddEntry
<1>4. ASSUME pc \in {"copy", "rename"}, FileInPlace
      PROVE  /\ copied' \subseteq Names /\ text' \in Seq(Entries)
             /\ pc' \in {"copy", "list", "next"} /\ part' \in {"kernel", "initrd"}
  <2>1. Bootable(current.system) /\ Target \in Names
    BY <1>4, SourceNamed DEF Progress
  <2>2. Append(text, EntryOf(current)) \in Seq(Entries)
    BY <2>1, BuiltByAppend
  <2>. QED BY <1>4, <2>1, <2>2 DEF FileInPlace, AfterEntry
<1>5. CASE AlreadyThere
  BY <1>4, <1>5 DEF AlreadyThere, FileInPlace
<1>6. CASE CopyToTmp
  BY <1>6, SourceNamed DEF CopyToTmp, Progress
<1>7. CASE RenameTmp
  <2>1. Source \in StoreFiles /\ Target \in Names
    BY <1>7, SourceNamed DEF RenameTmp, Progress
  <2>2. DOMAIN nixos' \subseteq Names /\ nixos' \in [DOMAIN nixos' -> StoreFiles]
    BY <1>7, <2>1 DEF RenameTmp
  <2>. QED BY <1>4, <1>7, <2>2 DEF RenameTmp, FileInPlace
<1>8. CASE ListGenerations
  BY <1>8 DEF ListGenerations, Newest
<1>9. ASSUME NEW g \in Gens, NextGeneration(g) PROVE TypeOK'
  BY <1>9 DEF NextGeneration, Works, Ids
<1>10. ASSUME Reset
       PROVE  /\ pc' = "idle" /\ current' \in Works /\ part' = "kernel"
              /\ todo' = {} /\ text' \in Seq(Entries) /\ copied' = {}
  BY <1>10, SystemsAssumption DEF Reset, NoWork, Works, Ids
<1>11. ASSUME NEW g \in Gens, LinkGone(g) PROVE TypeOK'
  BY <1>10, <1>11 DEF LinkGone
<1>12. CASE WriteToml
  BY <1>12, HeaderAssumption DEF WriteToml
<1>13. ASSUME NEW n \in Names, Prune(n) PROVE TypeOK'
  BY <1>13 DEF Prune
<1>14. CASE InstallBinary
  BY <1>14 DEF InstallBinary
<1>15. CASE BinaryWritten
  BY <1>15 DEF BinaryWritten
<1>16. CASE EnsureBootEntry
  BY <1>16 DEF EnsureBootEntry
<1>17. CASE Abort
  BY <1>10, <1>17 DEF Abort
<1>18. ASSUME NEW g \in Gens, NEW s \in Systems, AddGeneration(g, s) PROVE TypeOK'
  <2>1. DOMAIN profiles' \subseteq Gens /\ profiles' \in [DOMAIN profiles' -> Systems]
    BY <1>18 DEF AddGeneration
  <2>. QED BY <1>18, <2>1 DEF AddGeneration
<1>19. ASSUME NEW g \in Gens, DeleteGeneration(g) PROVE TypeOK'
  <2>1. DOMAIN profiles' \subseteq Gens /\ profiles' \in [DOMAIN profiles' -> Systems]
    BY <1>19 DEF DeleteGeneration
  <2>. QED BY <1>19, <2>1 DEF DeleteGeneration
<1>20. CASE UNCHANGED vars
  BY <1>20 DEF vars
<1>. QED BY <1>1, <1>2, <1>3, <1>5, <1>6, <1>7, <1>8, <1>9, <1>11, <1>12, <1>13, <1>14,
            <1>15, <1>16, <1>17, <1>18, <1>19, <1>20 DEF Next, Run

\* The parts of the invariant that mention the disk and the memory of the
\* run survive a step that changes neither nixos, toml, text nor copied, as
\* long as the new place of the process is one their conditions allow.
LEMMA Frame ==
    ASSUME IInv, UNCHANGED <<nixos, toml, text, copied>>, Pending' = Pending, Progress'
    PROVE  /\ BuiltByAddEntry(toml.entries)' /\ BuiltByAddEntry(text)'
           /\ FilesOf(toml.entries)' \subseteq DOMAIN nixos'
           /\ NamedAfterSource' /\ CopiedExact'
BY DEF IInv, BuiltByAddEntry, FilesOf, NamedAfterSource, CopiedExact

\* A process that starts or ends has an empty text and needs no file.
LEMMA FreshMemory ==
    ASSUME IInv, UNCHANGED <<nixos, toml>>, text' = <<>>, copied' = {}, pc' \in {"idle", "entry"}
    PROVE  /\ BuiltByAddEntry(toml.entries)' /\ BuiltByAddEntry(text)'
           /\ FilesOf(toml.entries)' \subseteq DOMAIN nixos'
           /\ NamedAfterSource' /\ CopiedExact' /\ Progress'
BY DEF IInv, BuiltByAddEntry, FilesOf, NamedAfterSource, CopiedExact, Pending, Progress

\* A file put in place, or found there, is counted and its entry added.
LEMMA CountedFile ==
    ASSUME IInv, pc \in {"copy", "rename"}, FileInPlace, UNCHANGED toml,
           DOMAIN nixos' = DOMAIN nixos \cup {Target}
    PROVE  /\ BuiltByAddEntry(text)' /\ CopiedExact' /\ Progress'
<1>. USE DEF IInv
<1>1. Bootable(current.system) /\ current \in Works /\ text \in Seq(Entries)
  BY DEF Progress, TypeOK
<1>2. CASE part = "kernel"
  <2>1. /\ copied' = copied \cup {CleanName[Kernel[current.system]]}
        /\ pc' = "copy" /\ part' = "initrd" /\ UNCHANGED <<text, current>>
    BY <1>2 DEF FileInPlace, Target, Source
  <2>. QED BY <1>1, <1>2, <2>1
              DEF BuiltByAddEntry, CopiedExact, Pending, Progress, FilesOf, Target, Source
<1>3. CASE part = "initrd"
  <2>1. /\ copied' = copied \cup {CleanName[Initrd[current.system]]}
        /\ pc' \in {"list", "next"} /\ text' = Append(text, EntryOf(current))
    BY <1>3 DEF FileInPlace, Target, Source, AfterEntry
  <2>2. FilesOf(text') = FilesOf(text) \cup
            {CleanName[Kernel[current.system]], CleanName[Initrd[current.system]]}
    BY <1>1, <2>1, EntryOfBootable, FilesOfAppend
  <2>3. copied = FilesOf(text) \cup {CleanName[Kernel[current.system]]}
    BY <1>3 DEF CopiedExact, Pending
  <2>4. BuiltByAddEntry(text')
    BY <1>1, <2>1, BuiltByAppend
  <2>. QED BY <1>3, <2>1, <2>2, <2>3, <2>4
              DEF BuiltByAddEntry, FilesOf, CopiedExact, Pending, Progress, Target, Source
<1>. QED BY <1>2, <1>3 DEF TypeOK

\* The invariant is inductive: one case per action.
LEMMA NextIInv == IInv /\ [Next]_vars => IInv'
<1>. SUFFICES ASSUME IInv, [Next]_vars PROVE IInv' OBVIOUS
<1>0. TypeOK' BY NextTypeOK
<1>. USE DEF IInv, disk
<1>1. ASSUME NEW s \in Systems, Start(s) PROVE IInv'
  BY <1>0, <1>1, FreshMemory DEF Start
<1>2. CASE SkipEntry
  <2>1. Pending' = Pending /\ Progress'
    BY <1>2 DEF SkipEntry, AfterEntry, Pending, Progress
  <2>. QED BY <1>0, <1>2, <2>1, Frame DEF SkipEntry
<1>3. CASE AddEntry
  <2>1. Pending' = Pending /\ Progress'
    BY <1>3 DEF AddEntry, Pending, Progress
  <2>. QED BY <1>0, <1>3, <2>1, Frame DEF AddEntry
<1>4. CASE AlreadyThere
  <2>1. BuiltByAddEntry(text)' /\ CopiedExact' /\ Progress'
    BY <1>4, CountedFile DEF AlreadyThere
  <2>. QED BY <1>0, <1>4, <2>1 DEF AlreadyThere, BuiltByAddEntry, FilesOf, NamedAfterSource
<1>5. CASE CopyToTmp
  <2>1. Pending' = Pending /\ Progress'
    BY <1>5 DEF CopyToTmp, Pending, Progress
  <2>. QED BY <1>0, <1>5, <2>1, Frame DEF CopyToTmp
<1>6. CASE RenameTmp
  <2>1. DOMAIN nixos' = DOMAIN nixos \cup {Target}
    BY <1>6 DEF RenameTmp
  <2>2. BuiltByAddEntry(text)' /\ CopiedExact' /\ Progress'
    BY <1>6, <2>1, CountedFile DEF RenameTmp
  <2>3. NamedAfterSource'
    BY <1>6 DEF RenameTmp, NamedAfterSource, Target
  <2>. QED BY <1>0, <1>6, <2>1, <2>2, <2>3 DEF RenameTmp, BuiltByAddEntry, FilesOf
<1>7. CASE ListGenerations
  <2>1. Pending' = Pending /\ Progress'
    BY <1>7 DEF ListGenerations, Pending, Progress
  <2>. QED BY <1>0, <1>7, <2>1, Frame DEF ListGenerations
<1>8. ASSUME NEW g \in Gens, NextGeneration(g) PROVE IInv'
  <2>1. Pending' = Pending /\ Progress'
    BY <1>8 DEF NextGeneration, Pending, Progress
  <2>. QED BY <1>0, <1>8, <2>1, Frame DEF NextGeneration
<1>9. ASSUME NEW g \in Gens, LinkGone(g) PROVE IInv'
  BY <1>0, <1>9, FreshMemory DEF LinkGone, Reset
<1>10. CASE WriteToml
  <2>1. toml'.entries = text /\ FilesOf(text) \subseteq DOMAIN nixos
    BY <1>10 DEF WriteToml, CopiedExact
  <2>2. CopiedExact' /\ Progress'
    BY <1>10, <2>1 DEF WriteToml, CopiedExact, Pending, Progress, FilesOf
  <2>. QED BY <1>0, <1>10, <2>1, <2>2 DEF WriteToml, BuiltByAddEntry, FilesOf, NamedAfterSource
<1>11. ASSUME NEW n \in Names, Prune(n) PROVE IInv'
  <2>1. /\ copied \subseteq DOMAIN nixos' /\ DOMAIN nixos' \subseteq DOMAIN nixos
        /\ \A m \in DOMAIN nixos' : nixos'[m] = nixos[m]
        /\ UNCHANGED <<toml, text, copied, pc, part, current>>
    BY <1>11 DEF Prune, CopiedExact, memory
  <2>2. FilesOf(toml.entries) \subseteq copied /\ toml.entries = text
    BY <1>11 DEF Prune, CopiedExact, Progress
  <2>3. CopiedExact' /\ Progress' /\ NamedAfterSource'
    BY <1>11, <2>1 DEF Prune, CopiedExact, Pending, Progress, FilesOf, NamedAfterSource
  <2>. QED BY <1>0, <2>1, <2>2, <2>3 DEF BuiltByAddEntry, FilesOf
<1>12. CASE InstallBinary
  <2>1. Pending' = Pending /\ Progress'
    BY <1>12 DEF InstallBinary, Pending, Progress
  <2>. QED BY <1>0, <1>12, <2>1, Frame DEF InstallBinary
<1>13. CASE BinaryWritten
  <2>1. Pending' = Pending /\ Progress'
    BY <1>13 DEF BinaryWritten, Pending, Progress
  <2>. QED BY <1>0, <1>13, <2>1, Frame DEF BinaryWritten
<1>14. CASE EnsureBootEntry
  <2>1. Pending' = Pending /\ Progress'
    BY <1>14 DEF EnsureBootEntry, Pending, Progress
  <2>. QED BY <1>0, <1>14, <2>1, Frame DEF EnsureBootEntry
<1>15. CASE Abort
  BY <1>0, <1>15, FreshMemory DEF Abort, Reset
<1>16. CASE UNCHANGED <<disk, memory>>
  <2>1. Pending' = Pending /\ Progress'
    BY <1>16 DEF memory, Pending, Progress
  <2>. QED BY <1>0, <1>16, <2>1, Frame DEF memory
<1>17. ASSUME NEW g \in Gens, NEW s \in Systems, AddGeneration(g, s) PROVE IInv'
  BY <1>16, <1>17 DEF AddGeneration
<1>18. ASSUME NEW g \in Gens, DeleteGeneration(g) PROVE IInv'
  BY <1>16, <1>18 DEF DeleteGeneration
<1>19. CASE UNCHANGED vars
  BY <1>16, <1>19 DEF vars
<1>. QED BY <1>1, <1>2, <1>3, <1>4, <1>5, <1>6, <1>7, <1>8, <1>9, <1>10, <1>11, <1>12,
            <1>13, <1>14, <1>15, <1>17, <1>18, <1>19 DEF Next, Run

\* A name determines the store file, so that what an entry names is the file
\* of its own system.
LEMMA IInvBootable == IInv => EntriesBootable
<1>. SUFFICES ASSUME IInv, NEW i \in DOMAIN toml.entries
              PROVE  LET e == toml.entries[i] IN
                     /\ {e.linux, e.initrd} \subseteq DOMAIN nixos
                     /\ nixos[e.linux] = Kernel[e.init]
                     /\ nixos[e.initrd] = Initrd[e.init]
  BY DEF EntriesBootable
<1>. DEFINE e == toml.entries[i]
<1>0. toml.entries \in Seq(Entries) /\ BuiltByAddEntry(toml.entries)
  BY DEF IInv, TypeOK
<1>a. e \in Entries
  BY <1>0
<1>1. e.init \in Systems /\ Bootable(e.init)
  BY <1>0, <1>a DEF BuiltByAddEntry, Entries
<1>2. Kernel[e.init] \in StoreFiles /\ Initrd[e.init] \in StoreFiles
  BY <1>1, FilesAssumption DEF Bootable
<1>3. {e.linux, e.initrd} \subseteq DOMAIN nixos
  BY DEF IInv, FilesOf
<1>4. e.linux = CleanName[Kernel[e.init]] /\ e.initrd = CleanName[Initrd[e.init]]
  BY <1>0 DEF BuiltByAddEntry
<1>5. \A n \in DOMAIN nixos : nixos[n] \in StoreFiles /\ CleanName[nixos[n]] = n
  BY DEF IInv, TypeOK, NamedAfterSource
<1>6. ASSUME NEW n \in DOMAIN nixos, NEW f \in StoreFiles, n = CleanName[f]
      PROVE  nixos[n] = f
  BY <1>5, <1>6, CleanNameAssumption
<1>7. nixos[e.linux] = Kernel[e.init] /\ nixos[e.initrd] = Initrd[e.init]
  BY <1>2, <1>3, <1>4, <1>6
<1>. QED BY <1>3, <1>7

\* At the end of a run `copied` is what the menu needs, and nothing else is left.
LEMMA IInvCompleted == IInv => CompletedRun
<1>. SUFFICES ASSUME IInv, pc = "done"
              PROVE  /\ toml.entries = text
                     /\ DOMAIN nixos = FilesOf(toml.entries)
                     /\ tmps = {}
                     /\ binary = "whole"
  BY DEF CompletedRun
<1>1. copied = FilesOf(text) /\ copied \subseteq DOMAIN nixos
  BY DEF IInv, CopiedExact, Pending
<1>. QED BY <1>1 DEF IInv, Progress

\* The inductive invariant holds throughout every behaviour of the installer.
THEOREM Invariance == Spec => []IInv
<1>. QED BY InitIInv, NextIInv, PTL DEF Spec

\* Type correctness: no step takes a variable out of its range.
THEOREM TypeCorrectness == Spec => []TypeOK
<1>1. IInv => TypeOK BY DEF IInv
<1>. QED BY <1>1, Invariance, PTL

\* Whenever a run is stopped, every entry of r-boot.toml has the kernel and the
\* initrd of its own system in boot/nixos.
THEOREM AlwaysBootable == Spec => []EntriesBootable
<1>1. IInv => EntriesBootable BY IInvBootable
<1>. QED BY <1>1, Invariance, PTL

\* A run that ends leaves on the ESP what its menu needs and nothing else.
THEOREM CompletedRunsAreClean == Spec => []CompletedRun
<1>1. IInv => CompletedRun BY IInvCompleted
<1>. QED BY <1>1, Invariance, PTL

-----------------------------------------------------------------------------
(***************************************************************************)
(* The order of the menu.                                                  *)
(***************************************************************************)
\* The positions of the generations in a list of entries.
GensIn(entries) == {i \in DOMAIN entries : entries[i].id # DefaultId}

\* The default can only come first; the generations go downwards.
Sorted(entries) ==
    /\ \A i \in DOMAIN entries : entries[i].id = DefaultId => i = 1
    /\ \A i, j \in GensIn(entries) : i < j => entries[i].id > entries[j].id

\* add_entry is at work, and on a generation rather than the default.
Working == pc \in {"entry", "copy", "rename"}
OnGeneration == Working /\ current.id # DefaultId

\* The generations in the text, the one worked on and those still listed
\* follow each other downwards, and together are no more than were listed.
OrderInv ==
    /\ Sorted(toml.entries) /\ Cardinality(GensIn(toml.entries)) <= NumGenerations
    /\ Sorted(text)
    /\ pc = "list" => GensIn(text) = {} /\ todo = {}
    /\ Working /\ ~OnGeneration => text = <<>> /\ todo = {}
    /\ \A g \in todo : \A i \in GensIn(text) : g < text[i].id
    /\ OnGeneration => /\ \A g \in todo : g < current.id
                       /\ \A i \in GensIn(text) : current.id < text[i].id
    /\ Cardinality(GensIn(text)) + Cardinality(todo) + (IF OnGeneration THEN 1 ELSE 0)
         <= NumGenerations

\* A set of numbers that is not empty has a least one.
LEMMA HasLeast ==
    ASSUME NEW S \in SUBSET Nat, S # {}
    PROVE  \E x \in S : \A y \in S : x <= y
<1>. DEFINE Less == {ss \in Nat \X Nat : ss[1] < ss[2]}
<1>1. IsWellFoundedOn(Less, Nat)
  BY NatLessThanWellFounded DEF OpToRel
<1>2. PICK x \in S : \A y \in S : ~(<<y, x>> \in Less)
  BY <1>1, WFMin
<1>3. ASSUME NEW y \in S PROVE x <= y
  <2>1. x \in Nat /\ y \in Nat
    OBVIOUS
  <2>2. <<y, x>> \in Less <=> y < x
    BY <2>1
  <2>. QED BY <1>2, <2>1, <2>2
<1>. QED BY <1>3

\* list_generations returns no more than its limit.
LEMMA NewestLimited ==
    ASSUME NEW present \in SUBSET Gens
    PROVE  /\ Newest(present, NumGenerations) \subseteq Gens
           /\ Cardinality(Newest(present, NumGenerations)) <= NumGenerations
<1>. DEFINE new == Newest(present, NumGenerations)
            above(g) == {h \in present : h > g}
<1>1. IsFiniteSet(present) /\ present \subseteq Nat
  BY GensAssumption, FS_Subset
<1>2. new \subseteq present /\ IsFiniteSet(new)
  <2>1. new \subseteq present
    BY DEF Newest
  <2>. QED BY <1>1, <2>1, FS_Subset
<1>3. CASE new = {}
  <2>1. Cardinality(new) = 0
    BY <1>3, FS_EmptySet
  <2>. QED BY <1>2, <2>1, LimitAssumption
<1>4. CASE new # {}
  <2>1. PICK least \in new : \A g \in new : least <= g
    BY <1>1, <1>2, <1>4, HasLeast
  <2>2. above(least) \subseteq present /\ Cardinality(above(least)) < NumGenerations
    BY DEF Newest
  <2>3. IsFiniteSet(above(least))
    BY <1>1, <2>2, FS_Subset
  <2>4. new \ {least} \subseteq above(least)
    <3>1. ASSUME NEW g \in new, g # least PROVE g \in present /\ g > least
      <4>1. g \in Nat /\ least \in Nat /\ least <= g /\ g \in present
        BY <1>1, <1>2, <2>1
      <4>. QED BY <3>1, <4>1
    <3>. QED BY <3>1
  <2>5. Cardinality(new \ {least}) <= Cardinality(above(least))
    BY <2>3, <2>4, FS_Subset
  <2>6. Cardinality(new \ {least}) = Cardinality(new) - 1
    BY <1>2, FS_RemoveElement
  <2>7. Cardinality(new) \in Nat /\ Cardinality(above(least)) \in Nat
    BY <1>2, <2>3, FS_CardinalityType
  <2>. HIDE DEF new, above
  <2>8. Cardinality(new) <= NumGenerations
    BY <2>2, <2>5, <2>6, <2>7, LimitAssumption
  <2>. QED BY <1>1, <1>2, <2>8 DEF new
<1>. QED BY <1>3, <1>4

\* The positions of generations in a list, and what a new entry adds.
LEMMA GensAreFinite ==
    ASSUME NEW es \in Seq(Entries)
    PROVE  IsFiniteSet(GensIn(es)) /\ Cardinality(GensIn(es)) \in Nat
<1>1. GensIn(es) \subseteq 1 .. Len(es) /\ Len(es) \in Int /\ 1 \in Int
  BY DEF GensIn
<1>2. IsFiniteSet(1 .. Len(es))
  <2>1. \A a, b \in Int : IsFiniteSet(a .. b)
    BY FS_Interval, Zenon
  <2>. QED BY <1>1, <2>1, Zenon
<1>. QED BY <1>1, <1>2, FS_Subset, FS_CardinalityType

\* An entry below the others leaves the list sorted.
LEMMA SortedAppend ==
    ASSUME NEW es \in Seq(Entries), NEW e \in Entries, Sorted(es),
           e.id = DefaultId => es = <<>>,
           e.id # DefaultId => \A i \in GensIn(es) : e.id < es[i].id
    PROVE  /\ Sorted(Append(es, e))
           /\ Cardinality(GensIn(Append(es, e)))
                = Cardinality(GensIn(es)) + (IF e.id = DefaultId THEN 0 ELSE 1)
           /\ \A i \in GensIn(Append(es, e)) :
                \/ i \in GensIn(es) /\ Append(es, e)[i] = es[i]
                \/ Append(es, e)[i] = e
<1>. DEFINE new == Append(es, e)
            n == Len(es) + 1
<1>1. /\ DOMAIN new = DOMAIN es \cup {n} /\ n \notin DOMAIN es
      /\ \A i \in DOMAIN es : new[i] = es[i] /\ i < n
      /\ new[n] = e
  OBVIOUS
<1>2. \A i \in DOMAIN es : i \in Nat /\ n \in Nat /\ es[i].id \in Ids
  <2>1. ASSUME NEW i \in DOMAIN es PROVE i \in Nat /\ n \in Nat
    OBVIOUS
  <2>2. ASSUME NEW i \in DOMAIN es PROVE es[i].id \in Ids
    <3>1. PICK entry \in Entries : entry = es[i]
      OBVIOUS
    <3>. QED BY <3>1 DEF Entries
  <2>. QED BY <2>1, <2>2
<1>3. DOMAIN es = {} => n = 1
  OBVIOUS
<1>. HIDE DEF new, n
<1>4. GensIn(new) = GensIn(es) \cup (IF e.id = DefaultId THEN {} ELSE {n})
  BY <1>1 DEF GensIn
<1>5. n \notin GensIn(es) /\ GensIn(es) \subseteq DOMAIN es
  BY <1>1 DEF GensIn
<1>6. Cardinality(GensIn(new)) = Cardinality(GensIn(es)) + (IF e.id = DefaultId THEN 0 ELSE 1)
  <2>1. IsFiniteSet(GensIn(es)) /\ Cardinality(GensIn(es)) \in Nat
    BY GensAreFinite
  <2>2. CASE e.id = DefaultId
    BY <1>4, <2>1, <2>2
  <2>3. CASE e.id # DefaultId
    <3>1. GensIn(new) = GensIn(es) \cup {n}
      BY <1>4, <2>3
    <3>2. Cardinality(GensIn(es) \cup {n}) = Cardinality(GensIn(es)) + 1
      BY <1>5, <2>1, FS_AddElement
    <3>. QED BY <2>3, <3>1, <3>2
  <2>. QED BY <2>2, <2>3
<1>7. \A i \in GensIn(new) : \/ i \in GensIn(es) /\ new[i] = es[i]
                             \/ i = n /\ new[i] = e /\ e.id # DefaultId
  BY <1>1, <1>4, <1>5
<1>8. Sorted(new)
  <2>1. ASSUME NEW i \in DOMAIN new, new[i].id = DefaultId PROVE i = 1
    <3>1. CASE i \in DOMAIN es
      BY <1>1, <2>1, <3>1 DEF Sorted
    <3>2. CASE i = n
      BY <1>1, <1>3, <2>1, <3>2
    <3>. QED BY <1>1, <3>1, <3>2
  <2>2. ASSUME NEW i \in GensIn(new), NEW j \in GensIn(new), i < j PROVE new[i].id > new[j].id
    <3>1. CASE i \in GensIn(es) /\ new[i] = es[i] /\ j \in GensIn(es) /\ new[j] = es[j]
      BY <2>2, <3>1 DEF Sorted
    <3>2. CASE i \in GensIn(es) /\ new[i] = es[i] /\ new[j] = e /\ e.id # DefaultId
      <4>1. e.id < es[i].id
        BY <3>2
      <4>2. e.id \in Nat /\ es[i].id \in Nat
        BY <1>2, <1>5, <3>2, GensAssumption DEF Entries, Ids, GensIn
      <4>. QED BY <3>2, <4>1, <4>2
    <3>3. i # n
      BY <1>1, <1>2, <1>5, <1>7, <2>2
    <3>. QED BY <1>7, <3>1, <3>2, <3>3
  <2>. QED BY <2>1, <2>2 DEF Sorted
<1>9. \A i \in GensIn(new) : \/ i \in GensIn(es) /\ new[i] = es[i]
                             \/ new[i] = e
  BY <1>7
<1>. QED BY <1>6, <1>8, <1>9 DEF new

\* add_entry has done the second file: the entry is written.
LEMMA FileInPlaceOrder ==
    ASSUME TypeOK, Bootable(current.system), OrderInv, pc \in {"copy", "rename"}, FileInPlace,
           toml' = toml
    PROVE  OrderInv'
<1>1. current' = current /\ todo' = todo /\ Working
  BY DEF FileInPlace, Working
<1>2. CASE part = "kernel"
  <2>1. pc' = "copy" /\ text' = text
    BY <1>2 DEF FileInPlace
  <2>2. OnGeneration' = OnGeneration /\ Working'
    BY <1>1, <2>1 DEF OnGeneration, Working
  <2>3. GensIn(text)' = GensIn(text)
    BY <2>1 DEF GensIn
  <2>. QED BY <1>1, <2>1, <2>2, <2>3 DEF OrderInv, Sorted, GensIn, Working, OnGeneration
<1>3. CASE part # "kernel"
  <2>. DEFINE e == EntryOf(current)
              new == Append(text, e)
  <2>1. pc' = AfterEntry /\ text' = new
    BY <1>3 DEF FileInPlace
  <2>2. ~Working' /\ pc' \in {"list", "next"} /\ (pc' = "list" <=> current.id = DefaultId)
    BY <2>1 DEF AfterEntry, Working
  <2>3. e \in Entries /\ e.id = current.id /\ text \in Seq(Entries)
    <3>1. current \in Works /\ text \in Seq(Entries)
      BY DEF TypeOK
    <3>. QED BY <3>1, EntryOfBootable DEF EntryOf
  <2>4. /\ e.id = DefaultId => text = <<>> /\ todo = {}
        /\ e.id # DefaultId => /\ OnGeneration
                               /\ \A i \in GensIn(text) : e.id < text[i].id
                               /\ \A g \in todo : g < e.id
    BY <1>1, <2>3 DEF OrderInv, OnGeneration
  <2>5. Sorted(text)
    BY DEF OrderInv
  <2>. HIDE DEF e
  <2>6. /\ Sorted(new)
        /\ Cardinality(GensIn(new)) = Cardinality(GensIn(text)) + (IF e.id = DefaultId THEN 0 ELSE 1)
        /\ \A i \in GensIn(new) : (i \in GensIn(text) /\ new[i] = text[i]) \/ new[i] = e
    BY <2>3, <2>4, <2>5, SortedAppend
  <2>. HIDE DEF new
  <2>7. Cardinality(GensIn(text)) \in Nat /\ Cardinality(todo) \in Nat
    <3>1. IsFiniteSet(todo)
      BY GensAssumption, FS_Subset DEF TypeOK
    <3>. QED BY <2>3, <3>1, GensAreFinite, FS_CardinalityType
  <2>8. Cardinality(GensIn(new)) + Cardinality(todo) <= NumGenerations
    <3>1. CASE e.id = DefaultId
      <4>1. Cardinality(GensIn(text)) + Cardinality(todo) + 0 <= NumGenerations
        BY <2>3, <3>1 DEF OrderInv, OnGeneration
      <4>. QED BY <2>6, <2>7, <3>1, <4>1, LimitAssumption
    <3>2. CASE e.id # DefaultId
      <4>1. Cardinality(GensIn(text)) + Cardinality(todo) + 1 <= NumGenerations
        BY <2>4, <3>2 DEF OrderInv
      <4>. QED BY <2>6, <2>7, <3>2, <4>1, LimitAssumption
    <3>. QED BY <3>1, <3>2
  <2>9. \A g \in todo : \A i \in GensIn(new) : g < new[i].id
    BY <2>4, <2>6 DEF OrderInv
  <2>10. pc' = "list" => GensIn(new) = {} /\ todo = {}
    <3>. SUFFICES ASSUME pc' = "list" PROVE GensIn(new) = {} /\ todo = {}
      OBVIOUS
    <3>1. e.id = DefaultId /\ text = <<>> /\ todo = {}
      BY <2>2, <2>3, <2>4
    <3>2. new = <<e>>
      BY <3>1 DEF new
    <3>. QED BY <3>1, <3>2 DEF GensIn
  <2>11. Sorted(toml.entries) /\ Cardinality(GensIn(toml.entries)) <= NumGenerations
    BY DEF OrderInv
  <2>12. ~OnGeneration' /\ text' = new /\ toml' = toml /\ todo' = todo
    BY <1>1, <2>1, <2>2 DEF OnGeneration, new
  <2>13. Cardinality(GensIn(new)) + Cardinality(todo) + 0 <= NumGenerations
    <3>1. Cardinality(GensIn(new)) \in Nat
      BY <2>6, <2>7
    <3>. QED BY <2>7, <2>8, <3>1
  <2>. QED BY <2>2, <2>6, <2>9, <2>10, <2>11, <2>12, <2>13 DEF OrderInv, GensIn, Sorted
<1>. QED BY <1>2, <1>3

\* Nothing of the order is disturbed by a step that keeps the text, the
\* list and the generation worked on, or drops them all.
LEMMA OrderFrame ==
    ASSUME OrderInv, UNCHANGED <<toml, text, todo>>, OnGeneration' = OnGeneration,
           OnGeneration => current' = current,
           pc' # "list", Working' => Working
    PROVE  OrderInv'
<1>1. GensIn(text)' = GensIn(text) /\ GensIn(toml.entries)' = GensIn(toml.entries)
  BY DEF GensIn
<1>2. Sorted(text)' /\ Sorted(toml.entries)'
  BY <1>1 DEF OrderInv, Sorted
<1>. QED BY <1>1, <1>2 DEF OrderInv

\* Nor by one after which no generation is worked on.
LEMMA OrderFresh ==
    ASSUME OrderInv, toml' = toml, text' = <<>>, todo' = {}, current'.id = DefaultId
    PROVE  OrderInv'
<1>1. GensIn(text)' = {} /\ Cardinality({}) = 0 /\ ~OnGeneration' /\ Sorted(text)'
  BY FS_EmptySet DEF GensIn, OnGeneration, Sorted
<1>2. GensIn(toml.entries)' = GensIn(toml.entries) /\ Sorted(toml.entries)'
  BY DEF GensIn, OrderInv, Sorted
<1>3. Cardinality(GensIn(toml.entries)) <= NumGenerations
  BY DEF OrderInv
<1>4. Cardinality({}) + Cardinality({}) + 0 <= NumGenerations
  BY <1>1, LimitAssumption
<1>. QED BY <1>1, <1>2, <1>3, <1>4 DEF OrderInv

\* No step disturbs the order: one case per action.
LEMMA NextOrder == IInv /\ OrderInv /\ [Next]_vars => OrderInv'
<1>. SUFFICES ASSUME IInv, OrderInv, [Next]_vars PROVE OrderInv' OBVIOUS
<1>0. TypeOK /\ Progress BY DEF IInv
<1>. USE DEF disk, memory
<1>1. ASSUME NEW s \in Systems, Start(s) PROVE OrderInv'
  BY <1>1, OrderFresh DEF Start
<1>2. CASE SkipEntry
  <2>1. CASE current.id = DefaultId
    <3>1. /\ text = <<>> /\ todo = {} /\ text' = text /\ todo' = todo
          /\ toml' = toml /\ current' = current
      BY <1>2, <2>1 DEF SkipEntry, OrderInv, Working, OnGeneration
    <3>2. current'.id = DefaultId
      BY <2>1, <3>1
    <3>. QED BY <3>1, <3>2, OrderFresh, Zenon
  <2>2. CASE current.id # DefaultId
    <3>1. pc' = "next" /\ UNCHANGED <<toml, text, todo>> /\ ~OnGeneration' /\ OnGeneration
      BY <1>2, <2>2 DEF SkipEntry, AfterEntry, OnGeneration, Working
    <3>2. GensIn(text)' = GensIn(text) /\ GensIn(toml.entries)' = GensIn(toml.entries)
      BY <3>1 DEF GensIn
    <3>3. Sorted(text)' /\ Sorted(toml.entries)'
      BY <3>1, <3>2 DEF OrderInv, Sorted
    <3>4. Cardinality(GensIn(text)) \in Nat /\ Cardinality(todo) \in Nat
      <4>1. IsFiniteSet(todo) /\ text \in Seq(Entries)
        BY <1>0, GensAssumption, FS_Subset DEF TypeOK
      <4>. QED BY <4>1, GensAreFinite, FS_CardinalityType
    <3>5. Cardinality(GensIn(text)) + Cardinality(todo) + 1 <= NumGenerations
      BY <3>1 DEF OrderInv
    <3>6. Cardinality(GensIn(text)) + Cardinality(todo) + 0 <= NumGenerations
      BY <3>4, <3>5, LimitAssumption
    <3>7. ~Working'
      BY <3>1 DEF Working
    <3>. QED BY <3>1, <3>2, <3>3, <3>6, <3>7 DEF OrderInv
  <2>. QED BY <2>1, <2>2
<1>3. CASE AddEntry
  BY <1>3, OrderFrame DEF AddEntry, OnGeneration, Working
<1>4. CASE AlreadyThere
  BY <1>0, <1>4, FileInPlaceOrder DEF AlreadyThere, Progress
<1>5. CASE CopyToTmp
  BY <1>5, OrderFrame DEF CopyToTmp, OnGeneration, Working
<1>6. CASE RenameTmp
  BY <1>0, <1>6, FileInPlaceOrder DEF RenameTmp, Progress
<1>7. CASE ListGenerations
  <2>1. GensIn(text) = {} /\ text' = text /\ toml' = toml /\ pc' = "next"
    BY <1>7 DEF ListGenerations, OrderInv
  <2>2. Cardinality(todo') <= NumGenerations /\ todo' \subseteq Gens
    <3>1. DOMAIN profiles \in SUBSET Gens
      BY <1>0 DEF TypeOK
    <3>2. todo' = Newest(DOMAIN profiles, NumGenerations)
      BY <1>7 DEF ListGenerations
    <3>. QED BY <3>1, <3>2, NewestLimited
  <2>3. ~Working' /\ ~OnGeneration'
    BY <2>1 DEF Working, OnGeneration
  <2>4. /\ GensIn(text)' = {} /\ GensIn(toml.entries)' = GensIn(toml.entries)
        /\ Sorted(text)' /\ Sorted(toml.entries)'
    BY <2>1 DEF GensIn, OrderInv, Sorted
  <2>5. Cardinality({}) = 0 /\ Cardinality(todo') \in Nat
    <3>1. IsFiniteSet(todo')
      BY <2>2, GensAssumption, FS_Subset
    <3>. QED BY <3>1, FS_EmptySet, FS_CardinalityType
  <2>6. 0 + Cardinality(todo') + 0 <= NumGenerations
    BY <2>2, <2>5, LimitAssumption
  <2>. QED BY <2>1, <2>3, <2>4, <2>5, <2>6 DEF OrderInv
<1>8. ASSUME NEW g \in Gens, NextGeneration(g) PROVE OrderInv'
  <2>1. /\ pc = "next" /\ pc' = "entry" /\ g \in todo /\ current'.id = g
        /\ todo' = todo \ {g} /\ UNCHANGED <<toml, text>>
        /\ \A h \in todo : h <= g
    BY <1>8 DEF NextGeneration
  <2>2. todo \subseteq Gens /\ text \in Seq(Entries) /\ IsFiniteSet(todo)
    BY <1>0, GensAssumption, FS_Subset DEF TypeOK
  <2>3. g # DefaultId /\ g \in Nat /\ \A h \in todo' : h < g
    BY <2>1, <2>2, GensAssumption
  <2>4. Working' /\ OnGeneration' /\ ~OnGeneration
    BY <2>1, <2>3 DEF Working, OnGeneration
  <2>5. /\ GensIn(text)' = GensIn(text) /\ GensIn(toml.entries)' = GensIn(toml.entries)
        /\ Sorted(text)' /\ Sorted(toml.entries)'
    BY <2>1 DEF GensIn, OrderInv, Sorted
  <2>6. Cardinality(todo') = Cardinality(todo) - 1 /\ Cardinality(todo) \in Nat
    <3>1. Cardinality(todo \ {g}) = Cardinality(todo) - 1
      BY <2>1, <2>2, FS_RemoveElement
    <3>. QED BY <2>1, <2>2, <3>1, FS_CardinalityType
  <2>7. Cardinality(GensIn(text)) + Cardinality(todo) + 0 <= NumGenerations
    BY <2>4 DEF OrderInv
  <2>8. Cardinality(GensIn(text)) + Cardinality(todo') + 1 <= NumGenerations
    <3>1. Cardinality(GensIn(text)) \in Nat
      BY <2>2, GensAreFinite
    <3>. QED BY <2>6, <2>7, <3>1, LimitAssumption
  <2>9. \A i \in GensIn(text) : /\ g < text[i].id
                               /\ \A h \in todo' : h < text[i].id
    BY <2>1 DEF OrderInv
  <2>10. text' = text /\ toml' = toml
    BY <2>1
  <2>. QED BY <2>1, <2>3, <2>4, <2>5, <2>8, <2>9, <2>10 DEF OrderInv
<1>9. ASSUME Reset, toml' = toml PROVE OrderInv'
  <2>1. current'.id = DefaultId
    BY <1>9 DEF Reset, NoWork
  <2>. QED BY <1>9, <2>1, OrderFresh DEF Reset
<1>10. ASSUME NEW g \in Gens, LinkGone(g) PROVE OrderInv'
  BY <1>9, <1>10 DEF LinkGone
<1>11. CASE WriteToml
  <2>1. /\ toml'.entries = text /\ text' = text /\ todo = {} /\ todo' = {}
        /\ ~Working' /\ ~OnGeneration' /\ ~OnGeneration /\ pc' = "prune"
    BY <1>11 DEF WriteToml, Working, OnGeneration
  <2>2. Cardinality({}) = 0 /\ Cardinality(GensIn(text)) \in Nat
    BY <1>0, FS_EmptySet, GensAreFinite DEF TypeOK
  <2>3. Cardinality(GensIn(text)) + 0 + 0 <= NumGenerations
    BY <2>1, <2>2 DEF OrderInv
  <2>4. /\ GensIn(text)' = GensIn(text) /\ GensIn(toml.entries)' = GensIn(text)
        /\ Sorted(text)' /\ Sorted(toml.entries)'
    BY <2>1 DEF GensIn, OrderInv, Sorted
  <2>5. Cardinality(GensIn(text)) <= NumGenerations
    BY <2>2, <2>3, LimitAssumption
  <2>. QED BY <2>1, <2>2, <2>3, <2>4, <2>5 DEF OrderInv
<1>12. ASSUME NEW n \in Names, Prune(n) PROVE OrderInv'
  BY <1>12, OrderFrame DEF Prune, OnGeneration, Working
<1>13. CASE InstallBinary
  BY <1>13, OrderFrame DEF InstallBinary, OnGeneration, Working
<1>14. CASE BinaryWritten
  BY <1>14, OrderFrame DEF BinaryWritten, OnGeneration, Working
<1>15. CASE EnsureBootEntry
  BY <1>15, OrderFrame DEF EnsureBootEntry, OnGeneration, Working
<1>16. CASE Abort
  BY <1>9, <1>16 DEF Abort
<1>17. CASE UNCHANGED <<disk, memory>>
  <2>1. /\ UNCHANGED <<pc, current, todo, text, toml>>
        /\ Working' = Working /\ OnGeneration' = OnGeneration
    BY <1>17 DEF Working, OnGeneration
  <2>2. /\ GensIn(text)' = GensIn(text) /\ GensIn(toml.entries)' = GensIn(toml.entries)
        /\ Sorted(text)' /\ Sorted(toml.entries)'
    BY <2>1 DEF GensIn, OrderInv, Sorted
  <2>. QED BY <2>1, <2>2 DEF OrderInv
<1>18. ASSUME NEW g \in Gens, NEW s \in Systems, AddGeneration(g, s) PROVE OrderInv'
  BY <1>17, <1>18 DEF AddGeneration
<1>19. ASSUME NEW g \in Gens, DeleteGeneration(g) PROVE OrderInv'
  BY <1>17, <1>19 DEF DeleteGeneration
<1>20. CASE UNCHANGED vars
  BY <1>17, <1>20 DEF vars
<1>. QED BY <1>1, <1>2, <1>3, <1>4, <1>5, <1>6, <1>7, <1>8, <1>10, <1>11, <1>12, <1>13,
            <1>14, <1>15, <1>16, <1>18, <1>19, <1>20 DEF Next, Run

\* Nothing is listed before the first run.
LEMMA InitOrder == Init => OrderInv
<1>. SUFFICES ASSUME Init PROVE OrderInv OBVIOUS
<1>1. GensIn(text) = {} /\ GensIn(toml.entries) = {} /\ todo = {} /\ Cardinality({}) = 0
  BY FS_EmptySet DEF Init, GensIn
<1>2. toml.entries = <<>> /\ text = <<>> /\ ~Working /\ pc = "idle"
  BY DEF Init, Working
<1>3. Sorted(text) /\ Sorted(toml.entries)
  BY <1>2 DEF Sorted, GensIn
<1>4. 0 <= NumGenerations /\ 0 + 0 + 0 <= NumGenerations
  BY LimitAssumption
<1>. QED BY <1>1, <1>2, <1>3, <1>4 DEF OrderInv, OnGeneration

\* The menu shows the default first and then the generations, the newest
\* first, and no more of them than -g allows, for any number of generations
\* and whatever happens to the links while a run reads them.
THEOREM MenuIsOrdered == Spec => []MenuOrder
<1>1. OrderInv => MenuOrder
  <2>. SUFFICES ASSUME OrderInv PROVE MenuOrder OBVIOUS
  <2>. DEFINE ids == [i \in DOMAIN toml.entries |-> toml.entries[i].id]
              gens == {i \in DOMAIN ids : ids[i] # DefaultId}
  <2>1. DOMAIN ids = DOMAIN toml.entries /\ \A i \in DOMAIN ids : ids[i] = toml.entries[i].id
    OBVIOUS
  <2>2. gens = GensIn(toml.entries)
    BY <2>1 DEF GensIn
  <2>3. \A i \in DOMAIN ids \ gens : i = 1
    BY <2>1 DEF OrderInv, Sorted
  <2>4. \A i, j \in gens : i < j => ids[i] > ids[j]
    BY <2>1, <2>2 DEF OrderInv, Sorted
  <2>5. Cardinality(gens) <= NumGenerations
    BY <2>2 DEF OrderInv
  <2>. QED BY <2>3, <2>4, <2>5 DEF MenuOrder
<1>. QED BY <1>1, InitOrder, Invariance, NextOrder, PTL DEF Spec

-----------------------------------------------------------------------------
(***************************************************************************)
(* The installer is a rebuild of EspSharing.  Every step leaves what is    *)
(* shared, and what is planned, as it is, or is one step of the rebuild.   *)
(***************************************************************************)
IdsOf(entries) == {entries[i].id : i \in DOMAIN entries}

\* A menu's files are those its entries need.
LEMMA FilesOfMenu ==
    ASSUME NEW es \in Seq(Entries)
    PROVE  Esp!FilesIn(MenuOf(es)) = FilesOf(es)
<1>1. DOMAIN MenuOf(es) = IdsOf(es)
  BY DEF MenuOf, IdsOf
<1>2. \A id \in IdsOf(es) : MenuOf(es)[id] =
        UNION {{es[i].linux, es[i].initrd} : i \in {j \in DOMAIN es : es[j].id = id}}
  BY DEF MenuOf, IdsOf
<1>3. ASSUME NEW f \in Esp!FilesIn(MenuOf(es)) PROVE f \in FilesOf(es)
  <2>1. PICK id \in IdsOf(es) : f \in MenuOf(es)[id]
    BY <1>1, <1>3 DEF Esp!FilesIn
  <2>2. PICK i \in DOMAIN es : f \in {es[i].linux, es[i].initrd}
    BY <1>2, <2>1
  <2>. QED BY <2>2 DEF FilesOf
<1>4. ASSUME NEW f \in FilesOf(es) PROVE f \in Esp!FilesIn(MenuOf(es))
  <2>1. PICK i \in DOMAIN es : f \in {es[i].linux, es[i].initrd}
    BY <1>4 DEF FilesOf
  <2>2. es[i].id \in IdsOf(es) /\ f \in MenuOf(es)[es[i].id]
    BY <1>2, <2>1 DEF IdsOf
  <2>. QED BY <1>1, <2>2 DEF Esp!FilesIn
<1>. QED BY <1>3, <1>4

\* An entry with a new id is one more in the menu.
LEMMA MenuOfAppend ==
    ASSUME NEW es \in Seq(Entries), NEW e \in Entries, e.id \notin IdsOf(es)
    PROVE  MenuOf(Append(es, e)) = Esp!Added(MenuOf(es), e.id, {e.linux, e.initrd})
<1>. DEFINE new == Append(es, e)
            n == Len(es) + 1
            Of(s, id) == UNION {{s[i].linux, s[i].initrd} : i \in {j \in DOMAIN s : s[j].id = id}}
<1>1. /\ DOMAIN new = DOMAIN es \cup {n} /\ n \notin DOMAIN es
      /\ \A i \in DOMAIN es : new[i] = es[i]
      /\ new[n] = e
  OBVIOUS
<1>. HIDE DEF new, n
<1>2. IdsOf(new) = IdsOf(es) \cup {e.id}
  BY <1>1 DEF IdsOf
<1>3. ASSUME NEW id \in IdsOf(es) PROVE Of(new, id) = Of(es, id)
  <2>1. {j \in DOMAIN new : new[j].id = id} = {j \in DOMAIN es : es[j].id = id}
    BY <1>1
  <2>2. \A i \in {j \in DOMAIN es : es[j].id = id} : new[i] = es[i]
    BY <1>1
  <2>. QED BY <2>1, <2>2
<1>4. Of(new, e.id) = {e.linux, e.initrd}
  <2>1. {j \in DOMAIN new : new[j].id = e.id} = {n}
    BY <1>1 DEF IdsOf
  <2>. QED BY <1>1, <2>1
<1>5. MenuOf(new) = [id \in IdsOf(new) |-> Of(new, id)]
  BY DEF MenuOf, IdsOf
<1>6. MenuOf(es) = [id \in IdsOf(es) |-> Of(es, id)]
  BY DEF MenuOf, IdsOf
<1>. HIDE DEF Of
<1>7. Esp!Added(MenuOf(es), e.id, {e.linux, e.initrd})
      = [id \in IdsOf(es) \cup {e.id} |-> IF id = e.id THEN {e.linux, e.initrd} ELSE Of(es, id)]
  BY <1>6 DEF Esp!Added
<1>. QED BY <1>2, <1>3, <1>4, <1>5, <1>7 DEF new

LEMMA MenuOfNothing == MenuOf(<<>>) = Esp!Blank.entries
BY DEF MenuOf, Esp!Blank

\* A step that leaves the shared files and the plan alone is none there.
LEMMA Stutters ==
    ASSUME DOMAIN nixos' = DOMAIN nixos, toml' = toml,
           Phase' = Phase, Planned' = Planned, Counted' = Counted
    PROVE  UNCHANGED Esp!vars
<1>1. SharedToml' = SharedToml
  BY DEF SharedToml
<1>. QED BY <1>1 DEF Esp!vars, Esp!builder, Esp!history

\* A generation is planned once: it is none of those in the text.
LEMMA FreshId ==
    ASSUME TypeOK, OrderInv, pc = "entry"
    PROVE  current.id \notin IdsOf(text)
<1>1. CASE current.id = DefaultId
  <2>1. text = <<>>
    BY <1>1 DEF OrderInv, Working, OnGeneration
  <2>. QED BY <2>1 DEF IdsOf
<1>2. CASE current.id # DefaultId
  <2>1. \A i \in GensIn(text) : current.id < text[i].id
    BY <1>2 DEF OrderInv, Working, OnGeneration
  <2>2. ASSUME NEW i \in DOMAIN text, text[i].id = current.id PROVE FALSE
    <3>1. i \in GensIn(text) /\ current.id \in Nat
      BY <1>2, <2>2, GensAssumption DEF GensIn, TypeOK, Works, Ids
    <3>. QED BY <2>1, <2>2, <3>1
  <2>. QED BY <2>2 DEF IdsOf
<1>. QED BY <1>1, <1>2

\* The other programs do not run.
LEMMA Alone ==
    /\ UNCHANGED [c \in {} |-> {}] /\ UNCHANGED [c \in {} |-> "same"]
    /\ Esp!Outdated("replaced") = [c \in {} |-> "same"]
BY DEF Esp!Outdated

\* What is planned, by where the run is.
LEMMA PlannedIs ==
    /\ Phase = "idle" => Planned = MenuOf(<<>>) /\ Counted = {}
    /\ Phase # "idle" => Counted = copied
    /\ pc \in {"copy", "rename"} => Phase = "copy" /\ Planned = MenuOf(Append(text, EntryOf(current)))
    /\ pc \in {"entry", "list", "next"} => Phase = "copy" /\ Planned = MenuOf(text)
    /\ pc = "prune" => Phase = "prune" /\ Planned = MenuOf(text)
    /\ pc \notin {"entry", "copy", "rename", "list", "next", "prune"} => Phase = "idle"
BY DEF Phase, Planned, Counted

\* Where a run ends, and its memory with it.
LEMMA Stopped ==
    ASSUME DOMAIN nixos' = DOMAIN nixos, toml' = toml, Phase' = "idle"
    PROVE  [Esp!Abort]_(Esp!vars)
<1>1. Planned' = MenuOf(<<>>) /\ Counted' = {}
  BY DEF Planned, Counted, Phase
<1>2. CASE Phase = "idle"
  BY <1>1, <1>2, PlannedIs, Stutters
<1>3. CASE Phase # "idle"
  <2>1. SharedToml' = SharedToml
    BY DEF SharedToml
  <2>. QED BY <1>1, <1>3, <2>1, MenuOfNothing DEF Esp!Abort, Esp!BuildEnds, Esp!history
<1>. QED BY <1>2, <1>3

\* A file that is there is counted, when it was not yet: one copy.
LEMMA Counts ==
    ASSUME IInv, OrderInv, pc \in {"copy", "rename"}, FileInPlace, toml' = toml,
           DOMAIN nixos' = DOMAIN nixos \cup {Target}
    PROVE  [Esp!Copy]_(Esp!vars)
<1>1. TypeOK /\ Bootable(current.system) /\ copied \subseteq DOMAIN nixos
  BY DEF IInv, Progress, CopiedExact
<1>2. /\ EntryOf(current) \in Entries /\ Append(text, EntryOf(current)) \in Seq(Entries)
      /\ text \in Seq(Entries)
      /\ Target \in {EntryOf(current).linux, EntryOf(current).initrd}
  <2>1. EntryOf(current) \in Entries /\ text \in Seq(Entries)
    BY <1>1, EntryOfBootable DEF TypeOK
  <2>2. Target \in {EntryOf(current).linux, EntryOf(current).initrd}
    BY <1>1 DEF EntryOf, Target, Source
  <2>. QED BY <2>1, <2>2
<1>3. Phase = "copy" /\ Planned = MenuOf(Append(text, EntryOf(current))) /\ Counted = copied
  BY PlannedIs
<1>4. Phase' = "copy" /\ Planned' = Planned /\ Counted' = copied \cup {Target}
  <2>1. /\ current' = current /\ copied' = copied \cup {Target}
        /\ \/ pc' = "copy" /\ text' = text
           \/ pc' \in {"list", "next"} /\ text' = Append(text, EntryOf(current))
    BY DEF FileInPlace, AfterEntry
  <2>2. EntryOf(current') = EntryOf(current)
    BY <2>1
  <2>. QED BY <1>3, <2>1, <2>2 DEF Phase, Planned, Counted
<1>5. Target \in Esp!FilesIn(Planned)
  <2>1. Esp!FilesIn(Planned) = FilesOf(text) \cup {EntryOf(current).linux, EntryOf(current).initrd}
    BY <1>2, <1>3, FilesOfMenu, FilesOfAppend
  <2>. QED BY <1>2, <2>1
<1>6. CASE Target \in copied
  <2>1. DOMAIN nixos' = DOMAIN nixos /\ Counted' = Counted
    BY <1>1, <1>3, <1>4, <1>6
  <2>. QED BY <1>3, <1>4, <2>1, Stutters
<1>7. CASE Target \notin copied
  <2>1. SharedToml' = SharedToml
    BY DEF SharedToml
  <2>. QED BY <1>3, <1>4, <1>5, <1>7, <2>1 DEF Esp!Copy
<1>. QED BY <1>6, <1>7

\* The next generation is planned: one more entry, of a system's own files.
LEMMA Plans ==
    ASSUME IInv, OrderInv, AddEntry
    PROVE  Esp!AddEntry
<1>1. TypeOK /\ pc = "entry" /\ pc' = "copy" /\ Bootable(current.system)
      /\ UNCHANGED <<nixos, toml, text, current, copied>>
  BY DEF IInv, AddEntry, disk
<1>2. text \in Seq(Entries) /\ EntryOf(current) \in Entries /\ current.id \notin IdsOf(text)
      /\ current.id \in Ids /\ EntryOf(current).id = current.id
  BY <1>1, EntryOfBootable, FreshId DEF TypeOK, EntryOf, Works
<1>3. Phase = "copy" /\ Planned = MenuOf(text) /\ Counted = copied
  BY <1>1, PlannedIs
<1>4. /\ Phase' = "copy" /\ Counted' = copied
      /\ Planned' = MenuOf(Append(text, EntryOf(current)))
  <2>1. EntryOf(current') = EntryOf(current)
    BY <1>1
  <2>. QED BY <1>1, <2>1 DEF Phase, Planned, Counted
<1>5. Esp!FilesIn(Planned) \subseteq Counted
  BY <1>1, <1>2, <1>3, FilesOfMenu DEF IInv, CopiedExact
<1>6. PICK files : files = {EntryOf(current).linux, EntryOf(current).initrd}
  OBVIOUS
<1>7. files \in Needs
  BY <1>1, <1>6 DEF Needs, EntryOf, TypeOK, Works
<1>8. Planned' = Esp!Added(Planned, current.id, files)
  BY <1>2, <1>3, <1>4, <1>6, MenuOfAppend
<1>9. current.id \in Ids \ DOMAIN Planned
  BY <1>2, <1>3 DEF MenuOf, IdsOf
<1>10. SharedToml' = SharedToml
  BY <1>1 DEF SharedToml
<1>. QED BY <1>1, <1>3, <1>4, <1>5, <1>7, <1>8, <1>9, <1>10 DEF Esp!AddEntry, Esp!history

\* The rename of r-boot.toml, when all that is planned is counted.
LEMMA Writes ==
    ASSUME IInv, WriteToml
    PROVE  Esp!Regenerate
<1>1. TypeOK /\ pc = "next" /\ pc' = "prune"
      /\ toml' = [header |-> GeneratedHeader, entries |-> text]
      /\ UNCHANGED <<nixos, text, copied>>
  BY DEF IInv, WriteToml
<1>2. Phase = "copy" /\ Planned = MenuOf(text) /\ Counted = copied
  BY <1>1, PlannedIs
<1>3. Phase' = "prune" /\ Planned' = MenuOf(text) /\ Counted' = copied
  BY <1>1 DEF Phase, Planned, Counted
<1>4. Counted = Esp!FilesIn(Planned)
  BY <1>1, <1>2, FilesOfMenu DEF IInv, CopiedExact, Pending, TypeOK
<1>5. SharedToml' = Esp!Generated(Planned)
  BY <1>1, <1>2 DEF SharedToml, Esp!Generated
<1>. QED BY <1>1, <1>2, <1>3, <1>4, <1>5, Alone DEF Esp!Regenerate

\* A file no entry needs is deleted, or a temporary one.
LEMMA Prunes ==
    ASSUME NEW n \in Names, Prune(n)
    PROVE  [Esp!Prune]_(Esp!vars)
<1>1. /\ pc = "prune" /\ UNCHANGED <<pc, text, copied, toml>>
      /\ \/ n \in DOMAIN nixos \ copied /\ DOMAIN nixos' = DOMAIN nixos \ {n}
         \/ nixos' = nixos
  BY DEF Prune, memory
<1>2. /\ Phase = "prune" /\ Phase' = Phase /\ Planned' = Planned
      /\ Counted = copied /\ Counted' = Counted
  BY <1>1 DEF Phase, Planned, Counted
<1>3. CASE nixos' = nixos
  BY <1>1, <1>2, <1>3, Stutters
<1>4. CASE n \in DOMAIN nixos \ copied /\ DOMAIN nixos' = DOMAIN nixos \ {n}
  <2>1. SharedToml' = SharedToml
    BY <1>1 DEF SharedToml
  <2>. QED BY <1>2, <1>4, <2>1 DEF Esp!Prune, Esp!builder, Esp!history
<1>. QED BY <1>1, <1>3, <1>4

\* A run begins; it has planned nothing yet.
LEMMA Begins ==
    ASSUME NEW s \in Systems, Start(s)
    PROVE  Esp!Begin
<1>1. /\ pc \in {"idle", "done"} /\ pc' = "entry" /\ text' = <<>> /\ copied' = {}
      /\ UNCHANGED <<nixos, toml>>
  BY DEF Start, Running, disk
<1>2. Phase = "idle" /\ Phase' = "copy" /\ Planned' = MenuOf(<<>>) /\ Counted' = {}
  BY <1>1 DEF Phase, Planned, Counted
<1>3. SharedToml' = SharedToml
  BY <1>1 DEF SharedToml
<1>. QED BY <1>1, <1>2, <1>3, Alone, MenuOfNothing DEF Esp!Begin, Esp!history

\* Pruning is over once all that is left is counted.
LEMMA Finishes ==
    ASSUME InstallBinary
    PROVE  Esp!EndBuild
<1>1. /\ pc = "prune" /\ pc' = "install" /\ DOMAIN nixos \subseteq copied
      /\ UNCHANGED <<nixos, toml>>
  BY DEF InstallBinary
<1>2. Phase = "prune" /\ Counted = copied
  BY <1>1, PlannedIs
<1>3. Phase' = "idle" /\ Planned' = MenuOf(<<>>) /\ Counted' = {}
  BY <1>1 DEF Phase, Planned, Counted
<1>4. SharedToml' = SharedToml
  BY <1>1 DEF SharedToml
<1>. QED BY <1>1, <1>2, <1>3, <1>4, MenuOfNothing DEF Esp!EndBuild, Esp!BuildEnds, Esp!history

\* Every step of the installer, and of the system around it: a case per action.
LEMMA StepOnEsp ==
    ASSUME IInv, OrderInv, [Next]_vars
    PROVE  [Esp!Next]_(Esp!vars)
<1>. USE DEF Esp!Next, Esp!Rebuild
<1>1. ASSUME NEW s \in Systems, Start(s) PROVE Esp!Next
  BY <1>1, Begins
<1>2. ASSUME UNCHANGED <<nixos, toml, text, current, copied>>,
             \/ pc \in {"entry", "list", "next"} /\ pc' \in {"entry", "list", "next"}
             \/ pc = "copy" /\ pc' = "rename"
             \/ pc' = pc
             \/ Phase = "idle" /\ Phase' = "idle"
      PROVE  UNCHANGED Esp!vars
  <2>1. Phase' = Phase
    BY <1>2 DEF Phase
  <2>2. EntryOf(current') = EntryOf(current)
    BY <1>2
  <2>3. Planned' = Planned /\ Counted' = Counted
    BY <1>2, <2>1, <2>2 DEF Planned, Counted, Phase
  <2>. QED BY <1>2, <2>1, <2>3, Stutters
<1>3. CASE SkipEntry
  BY <1>2, <1>3 DEF SkipEntry, AfterEntry, disk
<1>4. CASE AddEntry
  BY <1>4, Plans
<1>5. CASE AlreadyThere
  <2>1. DOMAIN nixos' = DOMAIN nixos \cup {Target} /\ toml' = toml
    BY <1>5 DEF AlreadyThere, disk
  <2>. QED BY <1>5, <2>1, Counts DEF AlreadyThere
<1>6. CASE CopyToTmp
  BY <1>2, <1>6 DEF CopyToTmp
<1>7. CASE RenameTmp
  BY <1>7, Counts DEF RenameTmp
<1>8. CASE ListGenerations
  BY <1>2, <1>8 DEF ListGenerations, disk
<1>9. ASSUME NEW g \in Gens, NextGeneration(g) PROVE UNCHANGED Esp!vars
  <2>1. /\ pc = "next" /\ pc' = "entry" /\ UNCHANGED <<nixos, toml, text, copied>>
    BY <1>9 DEF NextGeneration, disk
  <2>2. Phase' = Phase /\ Planned' = Planned /\ Counted' = Counted
    BY <2>1 DEF Phase, Planned, Counted
  <2>. QED BY <2>1, <2>2, Stutters
<1>10. ASSUME Reset, UNCHANGED <<nixos, toml>> PROVE [Esp!Next]_(Esp!vars)
  <2>1. Phase' = "idle"
    BY <1>10 DEF Reset, Phase
  <2>. QED BY <1>10, <2>1, Stopped
<1>11. ASSUME NEW g \in Gens, LinkGone(g) PROVE [Esp!Next]_(Esp!vars)
  BY <1>10, <1>11 DEF LinkGone, disk
<1>12. CASE WriteToml
  BY <1>12, Writes
<1>13. ASSUME NEW n \in Names, Prune(n) PROVE [Esp!Next]_(Esp!vars)
  BY <1>13, Prunes
<1>14. CASE InstallBinary
  BY <1>14, Finishes
<1>15. CASE BinaryWritten
  BY <1>2, <1>15 DEF BinaryWritten, Phase
<1>16. CASE EnsureBootEntry
  BY <1>2, <1>16 DEF EnsureBootEntry, Phase
<1>17. CASE Abort
  BY <1>10, <1>17 DEF Abort, disk
<1>18. CASE UNCHANGED <<disk, memory>>
  BY <1>2, <1>18 DEF disk, memory
<1>19. ASSUME NEW g \in Gens, NEW s \in Systems, AddGeneration(g, s) PROVE UNCHANGED Esp!vars
  BY <1>2, <1>19 DEF AddGeneration, disk, memory
<1>20. ASSUME NEW g \in Gens, DeleteGeneration(g) PROVE UNCHANGED Esp!vars
  BY <1>2, <1>20 DEF DeleteGeneration, disk, memory
<1>21. CASE UNCHANGED vars
  BY <1>2, <1>21 DEF vars, disk, memory
<1>. HIDE DEF Esp!Next, Esp!Rebuild
<1>. QED BY <1>1, <1>3, <1>4, <1>5, <1>6, <1>7, <1>8, <1>9, <1>11, <1>12, <1>13, <1>14,
            <1>15, <1>16, <1>17, <1>19, <1>20, <1>21 DEF Next, Run

\* Whatever run is stopped wherever, and whatever becomes of the generations
\* meanwhile: what the installer does to boot/nixos and r-boot.toml is a
\* rebuild of EspSharing.
THEOREM InstallerRebuilds == Spec => RebuildsTheEsp
<1>1. Init => Esp!Init
  <2>. SUFFICES ASSUME Init PROVE Esp!Init OBVIOUS
  <2>1. toml.entries = <<>> /\ toml.header = GeneratedHeader /\ pc = "idle" /\ DOMAIN nixos = {}
    BY DEF Init
  <2>2. Phase = "idle" /\ Planned = Esp!Blank.entries /\ Counted = {}
    BY <2>1, MenuOfNothing DEF Phase, Planned, Counted
  <2>3. SharedToml = Esp!Generated(Esp!Blank.entries)
    BY <2>1, MenuOfNothing DEF SharedToml, Esp!Generated
  <2>. QED BY <2>1, <2>2, <2>3 DEF Esp!Init
<1>. QED BY <1>1, InitIInv, InitOrder, NextIInv, NextOrder, StepOnEsp, PTL DEF Spec, RebuildsTheEsp, Esp!Spec

============================================================================
