-------------------------- MODULE ChainloadProofs ---------------------------
(***************************************************************************)
(* Whatever volumes there are, what is on them, and whichever come and go: *)
(* r-boot is never in its own list of bootloaders, and what is started is  *)
(* the one of the marked row, and there.                                   *)
(***************************************************************************)
EXTENDS Chainload, WellFoundedInduction, TLAPS

ChainloadSpec == ChainloadInit /\ [][ChainloadNext]_chainload

-----------------------------------------------------------------------------
(***************************************************************************)
(* FlattenSeq.                                                             *)
(***************************************************************************)
Less == OpToRel(<, Nat)

\* Induction, about a set of numbers.
LEMMA Induction ==
    ASSUME NEW N \in SUBSET Nat, 0 \in N, \A n \in N : n + 1 \in N
    PROVE  N = Nat
<1>1. SUFFICES ASSUME Nat \ N # {} PROVE FALSE
  OBVIOUS
<1>2. IsWellFoundedOn(Less, Nat)
  BY NatLessThanWellFounded DEF OpToRel, Less
<1>3. PICK m \in Nat \ N : \A y \in Nat \ N : ~(<<y, m>> \in Less)
  BY <1>1, <1>2, WFMin
<1>4. m # 0 /\ m - 1 \in Nat /\ <<m - 1, m>> \in Less
  BY <1>3 DEF OpToRel, Less
<1>5. m - 1 \in N
  BY <1>3, <1>4
<1>6. (m - 1) + 1 \in N
  BY <1>5
<1>. QED BY <1>3, <1>4, <1>6

Flattens(f, ss, n) == f = [i \in 1 .. n |-> IF i = 1 THEN ss[i] ELSE f[i - 1] \o ss[i]]

\* The function by which FlattenSeq is defined exists.
LEMMA FlattenExists == \A ss : \A n \in Nat : \E f : Flattens(f, ss, n)
<1>. SUFFICES ASSUME NEW ss PROVE \A n \in Nat : \E f : Flattens(f, ss, n)
  OBVIOUS
<1>. DEFINE N == {n \in Nat : \E f : Flattens(f, ss, n)}
<1>1. 0 \in N
  <2>1. Flattens([i \in 1 .. 0 |-> 0], ss, 0)
    BY DEF Flattens
  <2>. QED BY <2>1
<1>2. ASSUME NEW n \in N PROVE n + 1 \in N
  <2>1. PICK f : Flattens(f, ss, n)
    BY <1>2
  <2>. DEFINE g == [i \in 1 .. n + 1 |->
                      IF i = n + 1 THEN IF i = 1 THEN ss[i] ELSE f[n] \o ss[i] ELSE f[i]]
  <2>2. n \in Nat
    OBVIOUS
  <2>3. ASSUME NEW i \in 1 .. n + 1
        PROVE  g[i] = IF i = 1 THEN ss[i] ELSE g[i - 1] \o ss[i]
    <3>1. CASE i = n + 1
      BY <2>2, <3>1
    <3>2. CASE i # n + 1
      <4>1. i \in 1 .. n /\ g[i] = f[i] /\ (i # 1 => i - 1 \in 1 .. n /\ g[i - 1] = f[i - 1])
        BY <2>2, <3>2
      <4>2. f[i] = IF i = 1 THEN ss[i] ELSE f[i - 1] \o ss[i]
        BY <2>1, <4>1 DEF Flattens
      <4>. QED BY <4>1, <4>2
    <3>. QED BY <3>1, <3>2
  <2>4. g = [i \in 1 .. n + 1 |-> g[i]]
    OBVIOUS
  <2>. HIDE DEF g
  <2>5. Flattens(g, ss, n + 1)
    BY <2>3, <2>4 DEF Flattens
  <2>. QED BY <2>2, <2>5
<1>. HIDE DEF N
<1>3. N \in SUBSET Nat
  BY DEF N
<1>4. N = Nat
  BY <1>1, <1>2, <1>3, Induction
<1>. QED BY <1>4 DEF N

\* What is flattened has no other elements than its parts.
LEMMA FlattenElements ==
    ASSUME NEW S, NEW ss \in Seq(Seq(S))
    PROVE  FlattenSeq(ss) \in Seq(S)
<1>1. CASE Len(ss) = 0
  BY <1>1 DEF FlattenSeq
<1>2. CASE Len(ss) # 0
  <2>. DEFINE f == CHOOSE f : Flattens(f, ss, Len(ss))
  <2>1. Len(ss) \in Nat /\ \A i \in 1 .. Len(ss) : ss[i] \in Seq(S)
    OBVIOUS
  <2>2. Flattens(f, ss, Len(ss))
    BY <2>1, FlattenExists
  <2>3. FlattenSeq(ss) = f[Len(ss)]
    BY <1>2 DEF FlattenSeq, Flattens
  <2>. HIDE DEF f
  <2>. DEFINE N == {n \in Nat : n + 1 <= Len(ss) => f[n + 1] \in Seq(S)}
  <2>4. 0 \in N
    <3>1. Len(ss) >= 1 => f[1] = ss[1]
      BY <2>1, <2>2 DEF Flattens
    <3>. QED BY <2>1, <3>1
  <2>5. ASSUME NEW n \in N PROVE n + 1 \in N
    <3>1. n \in Nat
      OBVIOUS
    <3>. SUFFICES ASSUME n + 2 <= Len(ss) PROVE f[n + 2] \in Seq(S)
      BY <3>1
    <3>2. f[n + 2] = f[n + 1] \o ss[n + 2]
      <4>1. \A i \in 1 .. Len(ss) : f[i] = IF i = 1 THEN ss[i] ELSE f[i - 1] \o ss[i]
        BY <2>2 DEF Flattens
      <4>2. n + 2 \in 1 .. Len(ss) /\ n + 2 # 1 /\ (n + 2) - 1 = n + 1
        BY <2>1, <3>1
      <4>. QED BY <4>1, <4>2
    <3>3. f[n + 1] \in Seq(S) /\ ss[n + 2] \in Seq(S)
      BY <2>1, <3>1
    <3>. QED BY <3>2, <3>3
  <2>. HIDE DEF N
  <2>6. N \in SUBSET Nat
    BY DEF N
  <2>7. N = Nat
    BY <2>4, <2>5, <2>6, Induction
  <2>8. Len(ss) - 1 \in N
    BY <1>2, <2>1, <2>7
  <2>9. f[(Len(ss) - 1) + 1] \in Seq(S)
    BY <2>1, <2>8 DEF N
  <2>. QED BY <2>1, <2>3, <2>9
<1>. QED BY <1>1, <1>2

-----------------------------------------------------------------------------
(***************************************************************************)
(* The invariant.                                                          *)
(***************************************************************************)
Others == [device : ToSet(Volumes), path : DOMAIN Titles] \ {[device |-> Own, path |-> Fallback]}

\* Nothing of r-boot's is found, what is on the display is the list of what
\* was, with the selected one marked, and r-boot's own volume stays.
ChainloadInv ==
    /\ Volumes \in Seq(DOMAIN content)
    /\ found \in Seq(Others)
    /\ screen \in {"menu", "list", "notice", "started", "error"}
    /\ screen = "list" => selected \in 0 .. Len(found) - 1 /\ rows = List(found, selected)
    /\ Own \in attached /\ own_device \subseteq {Own}

\* r-boot's volume is either known, and its file left out, or not opened.
LEMMA ScanLeavesOwn ==
    ASSUME NEW volume \in ToSet(Volumes), NEW own, volume = Own => Own \in own
    PROVE  scan(volume, own) \in Seq(Others)
<1>. DEFINE b(i) == [device |-> volume, path |-> Known[i]]
            part(i) == IF Offered(volume, own, Known[i]) THEN <<b(i)>> ELSE <<>>
<1>1. Known \in Seq(DOMAIN Titles)
  BY VolumesAssumption
<1>2. ASSUME NEW i \in DOMAIN Known, Offered(volume, own, Known[i]) PROVE b(i) \in Others
  <2>1. Known[i] \in DOMAIN Titles
    BY <1>1
  <2>2. ~(volume = Own /\ Known[i] = Fallback)
    BY <1>2 DEF Offered
  <2>. QED BY <2>1, <2>2 DEF Others
<1>3. ASSUME NEW i \in DOMAIN Known PROVE part(i) \in Seq(Others)
  BY <1>2
<1>. HIDE DEF b, part
<1>4. [i \in DOMAIN Known |-> part(i)] \in Seq(Seq(Others))
  BY <1>1, <1>3
<1>5. FlattenSeq([i \in DOMAIN Known |-> part(i)]) \in Seq(Others)
  BY <1>4, FlattenElements
<1>. QED BY <1>5 DEF scan, part, b

LEMMA DiscoverLeavesOwn ==
    ASSUME NEW own, NEW opened, Own \notin opened, Volumes \in Seq(DOMAIN content)
    PROVE  discover(own, opened) \in Seq(Others)
<1>. DEFINE part(i) == IF Volumes[i] \in opened THEN scan(Volumes[i], own) ELSE <<>>
<1>1. ASSUME NEW i \in DOMAIN Volumes PROVE part(i) \in Seq(Others)
  <2>1. Volumes[i] \in ToSet(Volumes)
    BY DEF ToSet
  <2>2. Volumes[i] \in opened => scan(Volumes[i], own) \in Seq(Others)
    BY <2>1, ScanLeavesOwn
  <2>. QED BY <2>2
<1>. HIDE DEF part
<1>2. [i \in DOMAIN Volumes |-> part(i)] \in Seq(Seq(Others))
  BY <1>1
<1>3. FlattenSeq([i \in DOMAIN Volumes |-> part(i)]) \in Seq(Others)
  BY <1>2, FlattenElements
<1>4. (IF Own \in own THEN scan(Own, own) ELSE <<>>) \in Seq(Others)
  <2>1. Own \in own => scan(Own, own) \in Seq(Others)
    BY VolumesAssumption, ScanLeavesOwn
  <2>. QED BY <2>1
<1>5. \A s, t \in Seq(Others) : s \o t \in Seq(Others)
  OBVIOUS
<1>. QED BY <1>3, <1>4, <1>5 DEF discover, part

LEMMA InitChainloadInv == ChainloadInit => ChainloadInv
<1>. SUFFICES ASSUME ChainloadInit PROVE ChainloadInv
  OBVIOUS
<1>1. PICK c \in Contents : content = [c EXCEPT ![Own] = @ \cup {Fallback}]
  BY DEF ChainloadInit
<1>2. Volumes \in Seq(DOMAIN content)
  BY <1>1, VolumesAssumption
<1>3. Own \in attached /\ own_device \subseteq {Own}
  BY VolumesAssumption DEF ChainloadInit
<1>4. found \in Seq(Others)
  BY DEF ChainloadInit
<1>. QED BY <1>2, <1>3, <1>4 DEF ChainloadInit, ChainloadInv

LEMMA DiscoverKeepsInv ==
    ASSUME ChainloadInv, Discover
    PROVE  ChainloadInv'
<1>1. PICK opened \in SUBSET Openable : found' = discover(own_device', opened)
  BY DEF Discover
<1>2. Own \notin opened
  BY DEF Openable
<1>3. found' \in Seq(Others)
  <2>1. PICK own : own = own_device'
    OBVIOUS
  <2>. QED BY <1>1, <1>2, <2>1, DiscoverLeavesOwn DEF ChainloadInv
<1>4. found' # <<>> => Len(found') \in Nat /\ Len(found') > 0
  BY <1>3
<1>. QED BY <1>3, <1>4 DEF Discover, ChainloadInv, List

LEMMA MoveKeepsInv ==
    ASSUME ChainloadInv, MoveUp \/ MoveDown
    PROVE  ChainloadInv'
<1>1. screen = "list" /\ selected \in 0 .. Len(found) - 1 /\ Len(found) \in Nat
  BY DEF ChainloadInv, MoveUp, MoveDown, Move
<1>2. PICK n \in 0 .. Len(found) - 1 : Move(n)
  <2>1. CASE MoveUp
    <3>1. (IF selected = 0 THEN Len(found) - 1 ELSE selected - 1) \in 0 .. Len(found) - 1
      BY <1>1
    <3>. QED BY <2>1, <3>1 DEF MoveUp
  <2>2. CASE MoveDown
    <3>1. (selected + 1) % Len(found) \in 0 .. Len(found) - 1
      BY <1>1
    <3>. QED BY <2>2, <3>1 DEF MoveDown
  <2>. QED BY <2>1, <2>2
<1>. QED BY <1>1, <1>2 DEF Move, ChainloadInv, List

\* Every step keeps the invariant.
LEMMA ChainloadInvStep ==
    ASSUME ChainloadInv, [ChainloadNext]_chainload
    PROVE  ChainloadInv'
<1>1. CASE Discover
  BY <1>1, DiscoverKeepsInv
<1>2. CASE MoveUp \/ MoveDown
  BY <1>2, MoveKeepsInv
<1>3. CASE Dismiss
  BY <1>3 DEF Dismiss, ChainloadInv
<1>4. CASE Cancel
  BY <1>4 DEF Cancel, ChainloadInv
<1>5. CASE Start
  BY <1>5 DEF Start, ChainloadInv, List
<1>6. CASE Returned
  BY <1>6 DEF Returned, ChainloadInv
<1>7. ASSUME NEW volume \in ToSet(Volumes), Plug(volume) PROVE ChainloadInv'
  <2>1. DOMAIN content' = DOMAIN content
    BY <1>7 DEF Plug
  <2>. QED BY <1>7, <2>1 DEF Plug, ChainloadInv, List
<1>8. CASE UNCHANGED chainload
  BY <1>8 DEF chainload, ChainloadInv, List
<1>. QED BY <1>1, <1>2, <1>3, <1>4, <1>5, <1>6, <1>7, <1>8 DEF ChainloadNext

LEMMA ListsAreRight == ChainloadInv => OwnLeftOut /\ OneMarked
<1>. SUFFICES ASSUME ChainloadInv PROVE OwnLeftOut /\ OneMarked
  OBVIOUS
<1>1. OwnLeftOut
  <2>1. ASSUME NEW i \in DOMAIN found PROVE found[i] \in Others
    BY DEF ChainloadInv
  <2>. QED BY <2>1 DEF Others, OwnLeftOut
<1>2. ASSUME screen = "list"
      PROVE  \E i \in DOMAIN rows : {j \in DOMAIN rows : rows[j].marked} = {i}
  <2>. DEFINE i == selected + 1
  <2>1. rows = List(found, selected) /\ i \in 1 .. Len(found) /\ selected \in Int
        /\ DOMAIN found = 1 .. Len(found)
    BY <1>2 DEF ChainloadInv
  <2>2. i \in DOMAIN rows /\ \A j \in DOMAIN rows : rows[j].marked <=> j = i
    BY <2>1 DEF List
  <2>. QED BY <2>2
<1>. QED BY <1>1, <1>2 DEF OneMarked

\* Only Start starts anything: what it read, on the volume of the marked row.
LEMMA StartsWhatIsThere ==
    ASSUME ChainloadInv, [ChainloadNext]_chainload
    PROVE  StartedThere
<1>1. CASE Start
  <2>. SUFFICES ASSUME NEW b \in started' \ started PROVE
             /\ b.device \in attached /\ b.path \in content[b.device]
             /\ \A i \in DOMAIN rows : rows[i].marked => b = found[i] /\ rows[i].title = Titles[b.path]
    BY DEF StartedThere
  <2>1. /\ screen = "list" /\ rows = List(found, selected) /\ selected + 1 \in 1 .. Len(found)
        /\ selected \in Int /\ DOMAIN found = 1 .. Len(found)
    BY <1>1 DEF ChainloadInv, Start
  <2>2. found[selected + 1] \in Others
    BY <2>1 DEF ChainloadInv
  <2>. PICK c : c = found[selected + 1]
    OBVIOUS
  <2>3. PICK volume \in Source(c) :
           c.path \in content[volume] /\ started' = {[device |-> volume, path |-> c.path]}
    BY <1>1 DEF Start
  <2>4. volume = c.device /\ volume \in attached
    BY <2>3 DEF Source, Openable, ChainloadInv
  <2>5. b = [device |-> volume, path |-> c.path] /\ b = c
    BY <2>2, <2>3, <2>4 DEF Others
  <2>6. ASSUME NEW i \in DOMAIN rows, rows[i].marked
        PROVE  b = found[i] /\ rows[i].title = Titles[b.path]
    <3>1. i = selected + 1 /\ rows[i].title = Titles[found[i].path]
      BY <2>1, <2>6 DEF List
    <3>. QED BY <2>5, <3>1
  <2>. QED BY <2>3, <2>4, <2>5, <2>6
<1>2. CASE ~Start
  <2>1. started' \subseteq started
    BY <1>2 DEF ChainloadNext, Discover, Dismiss, MoveUp, MoveDown, Move, Cancel, Returned, Plug,
                chainload
  <2>. QED BY <2>1 DEF StartedThere
<1>. QED BY <1>1, <1>2

\* r-boot is not offered to itself, with and without an answer to where it came
\* from, and what is started is what the marked row stands for, and is there.
THEOREM OthersAreStarted == ChainloadSpec => OthersStarted
<1>1. ChainloadInv /\ [ChainloadNext]_chainload => ChainloadInv'
  BY ChainloadInvStep
<1>2. ChainloadInv /\ ChainloadInv' /\ [ChainloadNext]_chainload =>
        [OwnLeftOut' /\ OneMarked' /\ StartedThere]_chainload
  <2>1. (ChainloadInv => OwnLeftOut /\ OneMarked)'
    BY ListsAreRight, PTL
  <2>. SUFFICES ASSUME ChainloadInv, ChainloadInv', [ChainloadNext]_chainload
                PROVE  OwnLeftOut' /\ OneMarked' /\ StartedThere
    OBVIOUS
  <2>2. OwnLeftOut' /\ OneMarked'
    BY <2>1
  <2>3. StartedThere
    BY StartsWhatIsThere
  <2>. QED BY <2>2, <2>3
<1>3. ChainloadSpec => [][OwnLeftOut' /\ OneMarked' /\ StartedThere]_chainload
  BY <1>1, <1>2, InitChainloadInv, PTL DEF ChainloadSpec
<1>. QED BY <1>3 DEF OthersStarted
=============================================================================
