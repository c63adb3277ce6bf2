-------------------------- MODULE ConfigFileProofs --------------------------
(***************************************************************************)
(* What the readers of r-boot.toml make of what its writers wrote, for     *)
(* files of any length with any lines.  All readers see a file through the *)
(* lines with some key, With: the proofs are an algebra of it.             *)
(***************************************************************************)
EXTENDS ConfigFile, SequenceTheorems, WellFoundedInduction, TLAPS

-----------------------------------------------------------------------------
(***************************************************************************)
(* FlattenSeq.                                                             *)
(***************************************************************************)
Less == OpToRel(<, Nat)

\* Induction, about a set of numbers.
LEMMA Induction ==
    ASSUME NEW N \in SUBSET Nat, 0 \in N, \A n \in N : n + 1 \in N
    PROVE  N = Nat
<1>1. SUFFICES ASSUME Nat \ N # {} PROVE FALSE
  OBVIOUS
<1>2. IsWellFoundedOn(Less, Nat)
  BY NatLessThanWellFounded DEF OpToRel, Less
<1>3. PICK m \in Nat \ N : \A y \in Nat \ N : ~(<<y, m>> \in Less)
  BY <1>1, <1>2, WFMin
<1>4. m # 0 /\ m - 1 \in Nat /\ <<m - 1, m>> \in Less
  BY <1>3 DEF OpToRel, Less
<1>5. m - 1 \in N
  BY <1>3, <1>4
<1>6. (m - 1) + 1 \in N
  BY <1>5
<1>. QED BY <1>3, <1>4, <1>6

Flattens(f, ss, n) == f = [i \in 1 .. n |-> IF i = 1 THEN ss[i] ELSE f[i - 1] \o ss[i]]

\* The function by which FlattenSeq is defined exists.
LEMMA FlattenExists == \A ss : \A n \in Nat : \E f : Flattens(f, ss, n)
<1>. SUFFICES ASSUME NEW ss PROVE \A n \in Nat : \E f : Flattens(f, ss, n)
  OBVIOUS
<1>. DEFINE N == {n \in Nat : \E f : Flattens(f, ss, n)}
<1>1. 0 \in N
  <2>1. Flattens([i \in 1 .. 0 |-> 0], ss, 0)
    BY DEF Flattens
  <2>. QED BY <2>1
<1>2. ASSUME NEW n \in N PROVE n + 1 \in N
  <2>1. PICK f : Flattens(f, ss, n)
    BY <1>2
  <2>. DEFINE g == [i \in 1 .. n + 1 |->
                      IF i = n + 1 THEN IF i = 1 THEN ss[i] ELSE f[n] \o ss[i] ELSE f[i]]
  <2>2. n \in Nat
    OBVIOUS
  <2>3. ASSUME NEW i \in 1 .. n + 1
        PROVE  g[i] = IF i = 1 THEN ss[i] ELSE g[i - 1] \o ss[i]
    <3>1. CASE i = n + 1
      BY <2>2, <3>1
    <3>2. CASE i # n + 1
      <4>1. i \in 1 .. n /\ g[i] = f[i] /\ (i # 1 => i - 1 \in 1 .. n /\ g[i - 1] = f[i - 1])
        BY <2>2, <3>2
      <4>2. f[i] = IF i = 1 THEN ss[i] ELSE f[i - 1] \o ss[i]
        BY <2>1, <4>1 DEF Flattens
      <4>. QED BY <4>1, <4>2
    <3>. QED BY <3>1, <3>2
  <2>4. g = [i \in 1 .. n + 1 |-> g[i]]
    OBVIOUS
  <2>. HIDE DEF g
  <2>5. Flattens(g, ss, n + 1)
    BY <2>3, <2>4 DEF Flattens
  <2>. QED BY <2>2, <2>5
<1>. HIDE DEF N
<1>3. N \in SUBSET Nat
  BY DEF N
<1>4. N = Nat
  BY <1>1, <1>2, <1>3, Induction
<1>. QED BY <1>4 DEF N

\* What is flattened has no other elements than its parts.
LEMMA FlattenElements ==
    ASSUME NEW S, NEW ss \in Seq(Seq(S))
    PROVE  FlattenSeq(ss) \in Seq(S)
<1>1. CASE Len(ss) = 0
  BY <1>1 DEF FlattenSeq
<1>2. CASE Len(ss) # 0
  <2>. DEFINE f == CHOOSE f : Flattens(f, ss, Len(ss))
  <2>1. Len(ss) \in Nat /\ \A i \in 1 .. Len(ss) : ss[i] \in Seq(S)
    OBVIOUS
  <2>2. Flattens(f, ss, Len(ss))
    BY <2>1, FlattenExists
  <2>3. FlattenSeq(ss) = f[Len(ss)]
    BY <1>2 DEF FlattenSeq, Flattens
  <2>. HIDE DEF f
  <2>. DEFINE N == {n \in Nat : n + 1 <= Len(ss) => f[n + 1] \in Seq(S)}
  <2>4. 0 \in N
    <3>1. Len(ss) >= 1 => f[1] = ss[1]
      BY <2>1, <2>2 DEF Flattens
    <3>. QED BY <2>1, <3>1
  <2>5. ASSUME NEW n \in N PROVE n + 1 \in N
    <3>1. n \in Nat
      OBVIOUS
    <3>. SUFFICES ASSUME n + 2 <= Len(ss) PROVE f[n + 2] \in Seq(S)
      BY <3>1
    <3>2. f[n + 2] = f[n + 1] \o ss[n + 2]
      <4>1. \A i \in 1 .. Len(ss) : f[i] = IF i = 1 THEN ss[i] ELSE f[i - 1] \o ss[i]
        BY <2>2 DEF Flattens
      <4>2. n + 2 \in 1 .. Len(ss) /\ n + 2 # 1 /\ (n + 2) - 1 = n + 1
        BY <2>1, <3>1
      <4>. QED BY <4>1, <4>2
    <3>3. f[n + 1] \in Seq(S) /\ ss[n + 2] \in Seq(S)
      BY <2>1, <3>1
    <3>. QED BY <3>2, <3>3
  <2>. HIDE DEF N
  <2>6. N \in SUBSET Nat
    BY DEF N
  <2>7. N = Nat
    BY <2>4, <2>5, <2>6, Induction
  <2>8. Len(ss) - 1 \in N
    BY <1>2, <2>1, <2>7
  <2>9. f[(Len(ss) - 1) + 1] \in Seq(S)
    BY <2>1, <2>8 DEF N
  <2>. QED BY <2>1, <2>3, <2>9
<1>. QED BY <1>1, <1>2

\* Nothing flattens to nothing.
LEMMA FlattenEmpty == FlattenSeq(<<>>) = <<>>
BY DEF FlattenSeq

\* One part more.
LEMMA FlattenAppend ==
    ASSUME NEW S, NEW ss \in Seq(Seq(S)), NEW s \in Seq(S)
    PROVE  FlattenSeq(Append(ss, s)) = FlattenSeq(ss) \o s
<1>. DEFINE n == Len(ss)
            f == CHOOSE f : Flattens(f, ss, n)
            tt == Append(ss, s)
            g == CHOOSE g : Flattens(g, tt, Len(tt))
<1>1. n \in Nat /\ (n + 1) \in Nat /\ Len(tt) = n + 1 /\ tt[n + 1] = s
      /\ \A i \in 1 .. n : tt[i] = ss[i]
  OBVIOUS
<1>2. Flattens(f, ss, n) /\ Flattens(g, tt, n + 1)
  <2>1. Len(tt) \in Nat
    BY <1>1
  <2>2. Flattens(f, ss, n) /\ Flattens(g, tt, Len(tt))
    BY <1>1, <2>1, FlattenExists
  <2>. HIDE DEF g, f, tt, n
  <2>. QED BY <1>1, <2>2
<1>3. FlattenSeq(tt) = g[n + 1]
  <2>1. FlattenSeq(tt) = g[Len(tt)]
    <3>1. Len(tt) # 0
      BY <1>1
    <3>. HIDE DEF tt, n
    <3>. QED BY <3>1 DEF FlattenSeq, Flattens
  <2>. HIDE DEF g, tt, n
  <2>. QED BY <1>1, <2>1
<1>4. n # 0 => FlattenSeq(ss) = f[n]
  BY <1>1 DEF FlattenSeq, Flattens
<1>. HIDE DEF f, g, tt, n
<1>. DEFINE N == {k \in Nat : k + 1 <= n => g[k + 1] = f[k + 1]}
<1>5. /\ \A i \in 1 .. n : f[i] = IF i = 1 THEN ss[i] ELSE f[i - 1] \o ss[i]
      /\ \A i \in 1 .. n + 1 : g[i] = IF i = 1 THEN tt[i] ELSE g[i - 1] \o tt[i]
  BY <1>2 DEF Flattens
<1>6. 0 \in N
  BY <1>1, <1>5
<1>7. ASSUME NEW k \in N PROVE k + 1 \in N
  <2>1. k \in Nat
    OBVIOUS
  <2>. SUFFICES ASSUME k + 2 <= n PROVE g[k + 2] = f[k + 2]
    BY <2>1
  <2>2. k + 2 \in 1 .. n /\ k + 2 \in 1 .. n + 1 /\ k + 2 # 1 /\ (k + 2) - 1 = k + 1
    BY <1>1, <2>1
  <2>3. g[k + 1] = f[k + 1] /\ tt[k + 2] = ss[k + 2]
    BY <1>1, <2>2
  <2>4. g[k + 2] = g[k + 1] \o tt[k + 2] /\ f[k + 2] = f[k + 1] \o ss[k + 2]
    BY <1>5, <2>2
  <2>. QED BY <2>3, <2>4
<1>. HIDE DEF N
<1>8. N \in SUBSET Nat
  BY DEF N
<1>9. N = Nat
  BY <1>6, <1>7, <1>8, Induction
<1>10. n # 0 => g[n] = f[n]
  <2>1. n # 0 => n - 1 \in N /\ (n - 1) + 1 = n
    BY <1>1, <1>9
  <2>. QED BY <1>1, <2>1 DEF N
<1>11. CASE n = 0
  <2>1. ss = <<>> /\ g[n + 1] = s
    BY <1>1, <1>5, <1>11 DEF n
  <2>. QED BY <1>3, <2>1, FlattenEmpty DEF tt
<1>12. CASE n # 0
  <2>1. n + 1 \in 1 .. n + 1 /\ n + 1 # 1 /\ (n + 1) - 1 = n
    BY <1>1, <1>12
  <2>2. g[n + 1] = g[n] \o tt[n + 1]
    BY <1>5, <2>1
  <2>. QED BY <1>1, <1>3, <1>4, <1>10, <1>12, <2>2 DEF tt
<1>. QED BY <1>11, <1>12

-----------------------------------------------------------------------------
(***************************************************************************)
(* The lines with some key.                                                *)
(***************************************************************************)

\* All strings; the named ones are strings too, which no prover here knows.
AnyKey == STRING \cup {"id", "title", "kind", "linux", "kernel", "efi", "image", "initrd", "options",
                       "default", "timeout", "spinner", "logo", "fastboot", "other"}
AnyValue == (STRING \cup {"", "off", "text", "graphical", "next-boot", "on", "true", "false",
                          "nixos", "linux", "generated"}) \ {None}
AnyLine == [key : AnyKey, value : AnyValue]

Only(line, keys) == IF line.key \in keys THEN <<line>> ELSE <<>>

\* Only keeps a line or leaves nothing.
LEMMA OnlyIs == ASSUME NEW line \in AnyLine, NEW keys PROVE Only(line, keys) \in Seq(AnyLine)
BY DEF Only

\* A sequence that is not empty is one with a last element.
LEMMA LastApart ==
    ASSUME NEW S, NEW n \in Nat, NEW s \in Seq(S), Len(s) = n + 1
    PROVE  \E t \in Seq(S), x \in S : s = Append(t, x) /\ Len(t) = n
<1>. DEFINE t == [i \in 1 .. n |-> s[i]]
<1>1. t \in Seq(S) /\ Len(t) = n /\ s[n + 1] \in S
  OBVIOUS
<1>2. s = Append(t, s[n + 1])
  OBVIOUS
<1>. QED BY <1>1, <1>2

\* Induction, about a set of sequences.
LEMMA SeqInduction ==
    ASSUME NEW S, NEW P \in SUBSET Seq(S), <<>> \in P, \A s \in P, x \in S : Append(s, x) \in P
    PROVE  P = Seq(S)
<1>. DEFINE N == {n \in Nat : \A s \in Seq(S) : Len(s) = n => s \in P}
<1>1. 0 \in N
  <2>1. \A s \in Seq(S) : Len(s) = 0 => s = <<>>
    OBVIOUS
  <2>. QED BY <2>1
<1>2. ASSUME NEW n \in N PROVE n + 1 \in N
  <2>1. n \in Nat
    OBVIOUS
  <2>2. ASSUME NEW s \in Seq(S), Len(s) = n + 1 PROVE s \in P
    <3>1. PICK t \in Seq(S), x \in S : s = Append(t, x) /\ Len(t) = n
      BY <2>1, <2>2, LastApart
    <3>. QED BY <3>1
  <2>. QED BY <2>1, <2>2
<1>. HIDE DEF N
<1>3. N = Nat
  <2>1. N \in SUBSET Nat
    BY DEF N
  <2>. QED BY <1>1, <1>2, <2>1, Induction
<1>4. ASSUME NEW s \in Seq(S) PROVE s \in P
  <2>1. Len(s) \in N
    BY <1>3
  <2>. QED BY <2>1 DEF N
<1>. QED BY <1>4

\* Nothing has nothing with any keys.
LEMMA WithEmpty == \A keys : With(<<>>, keys) = <<>>
<1>1. \A keys : [i \in DOMAIN <<>> |-> Only(<<>>[i], keys)] = <<>>
  OBVIOUS
<1>. QED BY <1>1, FlattenEmpty DEF With, Only

\* With takes each line or leaves it, and keeps the order.
LEMMA WithParts ==
    ASSUME NEW lines \in Seq(AnyLine), NEW keys
    PROVE  /\ [i \in DOMAIN lines |-> Only(lines[i], keys)] \in Seq(Seq(AnyLine))
           /\ With(lines, keys) = FlattenSeq([i \in DOMAIN lines |-> Only(lines[i], keys)])
           /\ With(lines, keys) \in Seq(AnyLine)
<1>1. \A i \in DOMAIN lines : Only(lines[i], keys) \in Seq(AnyLine)
  BY OnlyIs
<1>2. [i \in DOMAIN lines |-> Only(lines[i], keys)] \in Seq(Seq(AnyLine))
  BY <1>1
<1>3. With(lines, keys) = FlattenSeq([i \in DOMAIN lines |-> Only(lines[i], keys)])
  BY DEF With, Only
<1>. QED BY <1>2, <1>3, FlattenElements

\* With of one line more.
LEMMA WithAppend ==
    ASSUME NEW lines \in Seq(AnyLine), NEW line \in AnyLine, NEW keys
    PROVE  With(Append(lines, line), keys) = With(lines, keys) \o Only(line, keys)
<1>. DEFINE parts == [i \in DOMAIN lines |-> Only(lines[i], keys)]
            longer == Append(lines, line)
<1>1. parts \in Seq(Seq(AnyLine)) /\ With(lines, keys) = FlattenSeq(parts)
  BY WithParts
<1>2. longer \in Seq(AnyLine)
  OBVIOUS
<1>3. With(longer, keys) = FlattenSeq([i \in DOMAIN longer |-> Only(longer[i], keys)])
  BY <1>2, WithParts
<1>4. Only(line, keys) \in Seq(AnyLine)
  BY OnlyIs
<1>5. [i \in DOMAIN longer |-> Only(longer[i], keys)] = Append(parts, Only(line, keys))
  OBVIOUS
<1>6. FlattenSeq(Append(parts, Only(line, keys))) = FlattenSeq(parts) \o Only(line, keys)
  BY <1>1, <1>4, FlattenAppend
<1>. QED BY <1>1, <1>3, <1>5, <1>6

\* Lines of two parts are those of one and those of the other.
LEMMA WithConcat ==
    ASSUME NEW a \in Seq(AnyLine), NEW keys
    PROVE  \A b \in Seq(AnyLine) : With(a \o b, keys) = With(a, keys) \o With(b, keys)
<1>. DEFINE P == {b \in Seq(AnyLine) : With(a \o b, keys) = With(a, keys) \o With(b, keys)}
<1>0. With(a, keys) \in Seq(AnyLine)
  BY WithParts
<1>1. <<>> \in P
  <2>1. a \o <<>> = a /\ With(a, keys) \o <<>> = With(a, keys) /\ <<>> \in Seq(AnyLine)
    BY <1>0
  <2>2. With(<<>>, keys) = <<>>
    BY WithEmpty
  <2>3. With(a \o <<>>, keys) = With(a, keys) \o With(<<>>, keys)
    BY <2>1, <2>2
  <2>. QED BY <2>1, <2>3
<1>2. ASSUME NEW c \in P, NEW x \in AnyLine PROVE Append(c, x) \in P
  <2>1. c \in Seq(AnyLine) /\ With(a \o c, keys) = With(a, keys) \o With(c, keys)
    OBVIOUS
  <2>2. a \o Append(c, x) = Append(a \o c, x) /\ a \o c \in Seq(AnyLine)
        /\ Append(c, x) \in Seq(AnyLine)
    BY <2>1
  <2>3. With(Append(a \o c, x), keys) = With(a \o c, keys) \o Only(x, keys)
    BY <2>2, WithAppend
  <2>4. With(Append(c, x), keys) = With(c, keys) \o Only(x, keys)
    BY <2>1, WithAppend
  <2>5. With(c, keys) \in Seq(AnyLine) /\ Only(x, keys) \in Seq(AnyLine)
    BY <2>1, WithParts, OnlyIs
  <2>6. (With(a, keys) \o With(c, keys)) \o Only(x, keys) = With(a, keys) \o (With(c, keys) \o Only(x, keys))
    BY <1>0, <2>5
  <2>. QED BY <2>1, <2>2, <2>3, <2>4, <2>6
<1>. HIDE DEF P
<1>3. P = Seq(AnyLine)
  <2>1. P \in SUBSET Seq(AnyLine)
    BY DEF P
  <2>. QED BY <1>1, <1>2, <2>1, SeqInduction
<1>. QED BY <1>3, Zenon DEF P

\* With of one line.
LEMMA WithOne ==
    ASSUME NEW line \in AnyLine, NEW keys
    PROVE  With(<<line>>, keys) = Only(line, keys)
<1>1. <<>> \in Seq(AnyLine) /\ <<line>> = Append(<<>>, line)
  OBVIOUS
<1>2. With(Append(<<>>, line), keys) = With(<<>>, keys) \o Only(line, keys)
  BY <1>1, WithAppend
<1>3. <<>> \o Only(line, keys) = Only(line, keys)
  BY OnlyIs
<1>. QED BY <1>1, <1>2, <1>3, WithEmpty

\* With of what Only kept.
LEMMA WithOnly ==
    ASSUME NEW line \in AnyLine, NEW keys, NEW others
    PROVE  With(Only(line, others), keys) = Only(line, keys \cap others)
<1>1. CASE line.key \in others
  <2>1. Only(line, others) = <<line>> /\ (line.key \in keys \cap others <=> line.key \in keys)
    BY <1>1 DEF Only
  <2>. QED BY <2>1, WithOne DEF Only
<1>2. CASE line.key \notin others
  <2>1. Only(line, others) = <<>> /\ line.key \notin keys \cap others
    BY <1>2 DEF Only
  <2>. QED BY <2>1, WithEmpty DEF Only
<1>. QED BY <1>1, <1>2

\* Picking twice is picking what both pick.
LEMMA WithWith ==
    ASSUME NEW keys, NEW others
    PROVE  \A lines \in Seq(AnyLine) : With(With(lines, others), keys) = With(lines, keys \cap others)
<1>. DEFINE P == {b \in Seq(AnyLine) : With(With(b, others), keys) = With(b, keys \cap others)}
<1>1. <<>> \in P
  BY WithEmpty
<1>2. ASSUME NEW c \in P, NEW x \in AnyLine PROVE Append(c, x) \in P
  <2>1. c \in Seq(AnyLine) /\ With(With(c, others), keys) = With(c, keys \cap others)
    BY Zenon
  <2>2. With(Append(c, x), others) = With(c, others) \o Only(x, others)
        /\ With(Append(c, x), keys \cap others) = With(c, keys \cap others) \o Only(x, keys \cap others)
    BY <2>1, WithAppend
  <2>3. With(c, others) \in Seq(AnyLine) /\ Only(x, others) \in Seq(AnyLine)
    BY <2>1, WithParts, OnlyIs
  <2>4. With(With(c, others) \o Only(x, others), keys)
          = With(With(c, others), keys) \o With(Only(x, others), keys)
    BY <2>3, WithConcat
  <2>5. With(Only(x, others), keys) = Only(x, keys \cap others)
    BY WithOnly
  <2>6. Append(c, x) \in Seq(AnyLine)
    BY <2>1
  <2>. QED BY <2>1, <2>2, <2>4, <2>5, <2>6
<1>. HIDE DEF P
<1>3. P = Seq(AnyLine)
  <2>1. P \in SUBSET Seq(AnyLine)
    BY DEF P
  <2>. QED BY <1>1, <1>2, <2>1, SeqInduction
<1>. QED BY <1>3, Zenon DEF P

\* No line has a key of no keys.
LEMMA WithNone == \A lines \in Seq(AnyLine) : With(lines, {}) = <<>>
<1>. DEFINE P == {b \in Seq(AnyLine) : With(b, {}) = <<>>}
<1>1. <<>> \in P
  BY WithEmpty
<1>2. ASSUME NEW c \in P, NEW x \in AnyLine PROVE Append(c, x) \in P
  <2>1. c \in Seq(AnyLine) /\ With(c, {}) = <<>> /\ Append(c, x) \in Seq(AnyLine)
    OBVIOUS
  <2>2. With(Append(c, x), {}) = With(c, {}) \o Only(x, {})
    BY <2>1, WithAppend
  <2>. QED BY <2>1, <2>2 DEF Only
<1>. HIDE DEF P
<1>3. P = Seq(AnyLine)
  <2>1. P \in SUBSET Seq(AnyLine)
    BY DEF P
  <2>. QED BY <1>1, <1>2, <2>1, SeqInduction
<1>. QED BY <1>3, Zenon DEF P

\* Without takes the lines with the other keys.
LEMMA WithoutIs ==
    ASSUME NEW lines \in Seq(AnyLine), NEW keys
    PROVE  /\ Without(lines, keys) = With(lines, AnyKey \ keys)
           /\ Without(lines, keys) \in Seq(AnyLine)
<1>1. \A i \in DOMAIN lines : (IF lines[i].key \in keys THEN <<>> ELSE <<lines[i]>>)
                               = Only(lines[i], AnyKey \ keys)
  <2>1. \A i \in DOMAIN lines : lines[i] \in AnyLine
    OBVIOUS
  <2>2. \A i \in DOMAIN lines : lines[i].key \in AnyKey
    BY <2>1 DEF AnyLine
  <2>. QED BY <2>2 DEF Only
<1>2. [i \in DOMAIN lines |-> IF lines[i].key \in keys THEN <<>> ELSE <<lines[i]>>]
        = [i \in DOMAIN lines |-> Only(lines[i], AnyKey \ keys)]
  BY <1>1
<1>. QED BY <1>2, WithParts DEF Without

\* Lines of other keys are not lost with some.
LEMMA WithWithout ==
    ASSUME NEW lines \in Seq(AnyLine), NEW keys \in SUBSET AnyKey, NEW others, keys \cap others = {}
    PROVE  With(Without(lines, others), keys) = With(lines, keys)
<1>1. keys \cap (AnyKey \ others) = keys
  OBVIOUS
<1>2. With(With(lines, AnyKey \ others), keys) = With(lines, keys \cap (AnyKey \ others))
  BY WithWith
<1>. QED BY <1>1, <1>2, WithoutIs

\* What was taken out is not there.
LEMMA WithoutNone ==
    ASSUME NEW lines \in Seq(AnyLine), NEW keys, NEW others, keys \subseteq others
    PROVE  With(Without(lines, others), keys) = <<>>
<1>1. keys \cap (AnyKey \ others) = {}
  OBVIOUS
<1>2. With(With(lines, AnyKey \ others), keys) = With(lines, keys \cap (AnyKey \ others))
  BY WithWith
<1>. QED BY <1>1, <1>2, WithoutIs, WithNone

\* Files whose lines agree, place by place, on some keys have the same ones.
LEMMA WithSame ==
    ASSUME NEW a \in Seq(AnyLine), NEW b \in Seq(AnyLine), NEW keys, NEW others, Len(a) = Len(b),
           \A i \in DOMAIN a : Only(a[i], keys) = Only(b[i], others)
    PROVE  With(a, keys) = With(b, others)
<1>1. DOMAIN a = DOMAIN b
  OBVIOUS
<1>2. [i \in DOMAIN a |-> Only(a[i], keys)] = [i \in DOMAIN b |-> Only(b[i], others)]
  BY <1>1
<1>. QED BY <1>2, WithParts

\* With, of each of several lists of lines.
LEMMA WithEach ==
    ASSUME NEW keys, NEW parts \in Seq(Seq(AnyLine))
    PROVE  [i \in DOMAIN parts |-> With(parts[i], keys)] \in Seq(Seq(AnyLine))
<1>. DEFINE W(part) == With(part, keys)
<1>1. ASSUME NEW i \in 1 .. Len(parts) PROVE W(parts[i]) \in Seq(AnyLine)
  <2>1. parts[i] \in Seq(AnyLine)
    OBVIOUS
  <2>. QED BY <2>1, WithParts
<1>2. DOMAIN parts = 1 .. Len(parts) /\ Len(parts) \in Nat
  OBVIOUS
<1>. HIDE DEF W
<1>3. [i \in 1 .. Len(parts) |-> W(parts[i])] \in Seq(Seq(AnyLine))
  BY <1>1, <1>2
<1>. QED BY <1>2, <1>3 DEF W

\* The lines picked from parts put together are the picked ones put together.
LEMMA WithFlatten ==
    ASSUME NEW keys
    PROVE  \A parts \in Seq(Seq(AnyLine)) :
             With(FlattenSeq(parts), keys) = FlattenSeq([i \in DOMAIN parts |-> With(parts[i], keys)])
<1>. DEFINE W(part) == With(part, keys)
            picked(parts) == [i \in DOMAIN parts |-> W(parts[i])]
            P == {q \in Seq(Seq(AnyLine)) : With(FlattenSeq(q), keys) = FlattenSeq(picked(q))}
<1>1. <<>> \in P
  <2>1. picked(<<>>) = <<>>
    OBVIOUS
  <2>. QED BY <2>1, FlattenEmpty, WithEmpty
<1>2. ASSUME NEW q \in P, NEW y \in Seq(AnyLine) PROVE Append(q, y) \in P
  <2>1. q \in Seq(Seq(AnyLine)) /\ With(FlattenSeq(q), keys) = FlattenSeq(picked(q))
    BY Zenon
  <2>2. FlattenSeq(Append(q, y)) = FlattenSeq(q) \o y /\ FlattenSeq(q) \in Seq(AnyLine)
    BY <2>1, FlattenAppend, FlattenElements
  <2>3. With(FlattenSeq(q) \o y, keys) = With(FlattenSeq(q), keys) \o With(y, keys)
    BY <2>2, WithConcat
  <2>4. picked(q) \in Seq(Seq(AnyLine)) /\ With(y, keys) \in Seq(AnyLine)
    BY <2>1, WithEach, WithParts
  <2>5. picked(Append(q, y)) = Append(picked(q), With(y, keys))
    <3>. HIDE DEF W
    <3>1. picked(Append(q, y)) = Append(picked(q), W(y))
      BY <2>1
    <3>. QED BY <3>1 DEF W
  <2>. HIDE DEF picked
  <2>6. FlattenSeq(Append(picked(q), With(y, keys))) = FlattenSeq(picked(q)) \o With(y, keys)
    BY <2>4, FlattenAppend
  <2>7. Append(q, y) \in Seq(Seq(AnyLine))
    BY <2>1
  <2>. QED BY <2>1, <2>2, <2>3, <2>5, <2>6, <2>7
<1>. HIDE DEF P
<1>3. P = Seq(Seq(AnyLine))
  <2>1. P \in SUBSET Seq(Seq(AnyLine))
    BY DEF P
  <2>. QED BY <1>1, <1>2, <2>1, SeqInduction
<1>. QED BY <1>3, Zenon DEF P

\* Lines of which none has some keys.
LEMMA WithNoSuch ==
    ASSUME NEW lines \in Seq(AnyLine), NEW keys, \A i \in DOMAIN lines : lines[i].key \notin keys
    PROVE  With(lines, keys) = <<>>
<1>1. \A i \in DOMAIN lines : Only(lines[i], keys) = Only(lines[i], {})
  BY DEF Only
<1>2. With(lines, keys) = With(lines, {})
  BY <1>1, WithSame
<1>. QED BY <1>2, WithNone

\* Something is left when one part has something.
LEMMA FlattenSome ==
    ASSUME NEW S
    PROVE  \A ss \in Seq(Seq(S)) : (\E i \in DOMAIN ss : ss[i] # <<>>) => FlattenSeq(ss) # <<>>
<1>. DEFINE Right(ss) == (\E i \in DOMAIN ss : ss[i] # <<>>) => FlattenSeq(ss) # <<>>
            P == {ss \in Seq(Seq(S)) : Right(ss)}
<1>1. <<>> \in P
  OBVIOUS
<1>2. ASSUME NEW q \in P, NEW y \in Seq(S) PROVE Append(q, y) \in P
  <2>1. q \in Seq(Seq(S)) /\ Right(q)
    BY Zenon
  <2>2. FlattenSeq(Append(q, y)) = FlattenSeq(q) \o y /\ FlattenSeq(q) \in Seq(S)
    BY <2>1, FlattenAppend, FlattenElements
  <2>3. ASSUME NEW i \in DOMAIN Append(q, y), Append(q, y)[i] # <<>>
        PROVE  FlattenSeq(Append(q, y)) # <<>>
    <3>1. CASE i \in DOMAIN q
      <4>1. q[i] # <<>>
        BY <2>1, <2>3, <3>1
      <4>2. FlattenSeq(q) # <<>>
        BY <2>1, <3>1, <4>1
      <4>3. FlattenSeq(q) \o y # <<>>
        BY <2>2, <4>2
      <4>. QED BY <2>2, <4>3
    <3>2. CASE i \notin DOMAIN q
      <4>1. y # <<>>
        BY <2>1, <2>3, <3>2
      <4>2. FlattenSeq(q) \o y # <<>>
        BY <2>2, <4>1
      <4>. QED BY <2>2, <4>2
    <3>. QED BY <3>1, <3>2
  <2>4. Append(q, y) \in Seq(Seq(S))
    BY <2>1
  <2>5. Right(Append(q, y))
    BY <2>3, Zenon
  <2>. QED BY <2>4, <2>5, Zenon
<1>. HIDE DEF P
<1>3. P = Seq(Seq(S))
  <2>1. P \in SUBSET Seq(Seq(S))
    BY DEF P
  <2>. QED BY <1>1, <1>2, <2>1, SeqInduction
<1>. QED BY <1>3, Zenon DEF P

-----------------------------------------------------------------------------
(***************************************************************************)
(* Files, and what the writers write.                                      *)
(***************************************************************************)
AnyFile == [header : Seq(AnyLine), blocks : Seq(Seq(AnyLine))]
Maybe == AnyValue \cup {None}

\* The values of the files are among those the edits write, and none is None.
LEMMA ValuesAre == Values \subseteq AnyValue /\ None \notin AnyValue
BY DEF Values, AnyValue

\* So are their lines,
LEMMA LinesAre == Lines \subseteq AnyLine
BY ValuesAre DEF Lines, AnyLine, AnyKey

\* and the files themselves.
LEMMA FilesAre == Files \subseteq AnyFile
BY LinesAre DEF Files, AnyFile

\* A key and a value make a line.
LEMMA LineIs ==
    ASSUME NEW key \in AnyKey, NEW value \in AnyValue
    PROVE  Line(key, value) \in AnyLine /\ <<Line(key, value)>> \in Seq(AnyLine)
BY DEF Line, AnyLine

\* A setting that may be missing makes a line or none.
LEMMA OptLineIs ==
    ASSUME NEW key \in AnyKey, NEW value \in Maybe
    PROVE  OptLine(key, value) \in Seq(AnyLine)
<1>1. CASE value = None
  BY <1>1 DEF OptLine
<1>2. CASE value # None
  BY <1>2, LineIs DEF OptLine, Maybe
<1>. QED BY <1>1, <1>2

\* Such a line is found under its key alone.
LEMMA OptLineWith ==
    ASSUME NEW key \in AnyKey, NEW value \in Maybe, NEW keys
    PROVE  With(OptLine(key, value), keys) = IF key \in keys THEN OptLine(key, value) ELSE <<>>
<1>1. CASE value = None
  BY <1>1, WithEmpty DEF OptLine
<1>2. CASE value # None
  <2>1. Line(key, value) \in AnyLine /\ Line(key, value).key = key
    BY <1>2, LineIs DEF Maybe, Line
  <2>2. With(<<Line(key, value)>>, keys) = Only(Line(key, value), keys)
    BY <2>1, WithOne
  <2>. QED BY <1>2, <2>1, <2>2 DEF OptLine, Only
<1>. QED BY <1>1, <1>2

\* LastValue finds a value or None.
LEMMA LastValueIs ==
    ASSUME NEW lines \in Seq(AnyLine), NEW keys
    PROVE  LastValue(lines, keys) \in Maybe
<1>. DEFINE found == With(lines, keys)
<1>1. found \in Seq(AnyLine)
  BY WithParts
<1>. HIDE DEF found
<1>2. found # <<>> => Last(found) \in AnyLine
  BY <1>1 DEF Last
<1>3. found # <<>> => Last(found).value \in AnyValue
  BY <1>2 DEF AnyLine
<1>. QED BY <1>3 DEF LastValue, found, Maybe

\* A key that is said once, or not at all, has that value.
LEMMA LastValueOf ==
    ASSUME NEW lines, NEW key, NEW value, With(lines, {key}) = OptLine(key, value)
    PROVE  LastValue(lines, {key}) = value
<1>1. CASE value = None
  BY <1>1 DEF LastValue, OptLine
<1>2. CASE value # None
  BY <1>2 DEF LastValue, OptLine, Last, Line
<1>. QED BY <1>1, <1>2

\* A key with one line, or none, has one valid value at most: the first is the
\* last.
LEMMA ValidOf ==
    ASSUME NEW lines, NEW key, NEW value, With(lines, {key}) = OptLine(key, value),
           NEW valid, None \notin valid, NEW default
    PROVE  /\ FirstValid(lines, key, valid, default) = IF value \in valid THEN value ELSE default
           /\ LastValid(lines, key, valid, default) = IF value \in valid THEN value ELSE default
<1>1. CASE value = None
  <2>. DEFINE found == With(lines, {key})
              I == {i \in 1 .. Len(found) : found[i].value \in valid}
  <2>1. found = <<>>
    BY <1>1 DEF OptLine
  <2>2. Len(found) = 0
    BY <2>1
  <2>. HIDE DEF found
  <2>3. I = {}
    BY <2>2
  <2>4. /\ FirstValid(lines, key, valid, default)
             = IF (IF I # {} THEN Min(I) ELSE 0) = 0 THEN default
               ELSE found[IF I # {} THEN Min(I) ELSE 0].value
        /\ LastValid(lines, key, valid, default)
             = IF (IF I # {} THEN Max(I) ELSE 0) = 0 THEN default
               ELSE found[IF I # {} THEN Max(I) ELSE 0].value
    BY DEF FirstValid, LastValid, SelectInSeq, SelectLastInSeq, found
  <2>. HIDE DEF I
  <2>. QED BY <1>1, <2>3, <2>4
<1>2. CASE value # None
  <2>. DEFINE found == With(lines, {key})
              I == {i \in 1 .. Len(found) : found[i].value \in valid}
  <2>1. found = <<Line(key, value)>>
    BY <1>2 DEF OptLine
  <2>2. Len(found) = 1 /\ found[1].value = value
    BY <2>1 DEF Line
  <2>. HIDE DEF found
  <2>3. I = IF value \in valid THEN {1} ELSE {}
    BY <2>2
  <2>4. Min({1}) = 1 /\ Max({1}) = 1
    BY DEF Min, Max
  <2>5. /\ FirstValid(lines, key, valid, default)
             = IF (IF I # {} THEN Min(I) ELSE 0) = 0 THEN default
               ELSE found[IF I # {} THEN Min(I) ELSE 0].value
        /\ LastValid(lines, key, valid, default)
             = IF (IF I # {} THEN Max(I) ELSE 0) = 0 THEN default
               ELSE found[IF I # {} THEN Max(I) ELSE 0].value
    BY DEF FirstValid, LastValid, SelectInSeq, SelectLastInSeq, found
  <2>. HIDE DEF I
  <2>. QED BY <2>2, <2>3, <2>4, <2>5
<1>. QED BY <1>1, <1>2

(***************************************************************************)
(* r-boot-cli.                                                             *)
(***************************************************************************)
CliEntries == [id : AnyValue, title : Maybe, kind : Maybe, linux : Maybe, efi : Maybe,
               image : Maybe, initrd : Seq(AnyLine), options : Maybe]
Configs == [default : Maybe, timeout : Maybe, spinner : Maybe, logo : Bools \cup {None},
            fastboot : Maybe, entries : Seq(CliEntries)]

\* r-boot-cli reads an entry from any block,
LEMMA CliEntryIs ==
    ASSUME NEW lines \in Seq(AnyLine)
    PROVE  CliEntry(lines) \in CliEntries
<1>1. \A keys : LastValue(lines, keys) \in Maybe
  BY LastValueIs
<1>2. OrElse(LastValue(lines, {"id"}), "") \in AnyValue
  <2>1. LastValue(lines, {"id"}) \in Maybe
    BY <1>1
  <2>2. "" \in AnyValue
    BY DEF AnyValue, None
  <2>. HIDE DEF None
  <2>. QED BY <2>1, <2>2 DEF OrElse, Maybe
<1>3. With(lines, {"initrd"}) \in Seq(AnyLine)
  BY WithParts
<1>. QED BY <1>1, <1>2, <1>3 DEF CliEntry, CliEntries

\* and a configuration from any file.
LEMMA ParseIs ==
    ASSUME NEW f \in AnyFile
    PROVE  Parse(f) \in Configs
<1>1. f.header \in Seq(AnyLine) /\ f.blocks \in Seq(Seq(AnyLine))
  BY DEF AnyFile
<1>2. \A keys : LastValue(f.header, keys) \in Maybe
  BY <1>1, LastValueIs
<1>3. Parsed(LastValue(f.header, {"timeout"}), U32) \in Maybe
  <2>1. LastValue(f.header, {"timeout"}) \in Maybe
    BY <1>2
  <2>. QED BY <2>1 DEF Parsed, Maybe
<1>4. Parsed(Unquoted(LastValue(f.header, {"logo"})), Bools) \in Bools \cup {None}
  BY DEF Parsed
<1>5. [i \in DOMAIN f.blocks |-> CliEntry(f.blocks[i])] \in Seq(CliEntries)
  <2>1. \A i \in DOMAIN f.blocks : CliEntry(f.blocks[i]) \in CliEntries
    BY <1>1, CliEntryIs
  <2>. PICK b : b = f.blocks
    OBVIOUS
  <2>. DEFINE parsed(i) == CliEntry(b[i])
  <2>2. b \in Seq(Seq(AnyLine)) /\ DOMAIN b = 1 .. Len(b) /\ Len(b) \in Nat
    BY <1>1
  <2>3. \A i \in 1 .. Len(b) : parsed(i) \in CliEntries
    BY <2>1, <2>2
  <2>. HIDE DEF parsed
  <2>4. [i \in 1 .. Len(b) |-> parsed(i)] \in Seq(CliEntries)
    BY <2>2, <2>3
  <2>. QED BY <2>2, <2>4 DEF parsed
<1>6. /\ LastValue(f.header, {"default"}) \in Maybe /\ LastValue(f.header, {"spinner"}) \in Maybe
      /\ LastValue(f.header, {"fastboot"}) \in Maybe
  BY <1>2
<1>. PICK d, t, s, l, m, e :
        /\ d = LastValue(f.header, {"default"}) /\ s = LastValue(f.header, {"spinner"})
        /\ m = LastValue(f.header, {"fastboot"}) /\ e = [i \in DOMAIN f.blocks |-> CliEntry(f.blocks[i])]
        /\ t = Parsed(LastValue(f.header, {"timeout"}), U32)
        /\ l = Parsed(Unquoted(LastValue(f.header, {"logo"})), Bools)
  OBVIOUS
<1>7. Parse(f) = [default |-> d, timeout |-> t, spinner |-> s, logo |-> l, fastboot |-> m, entries |-> e]
  BY DEF Parse
<1>. QED BY <1>3, <1>4, <1>5, <1>6, <1>7 DEF Configs

\* Lines after lines are lines.
LEMMA ConcatIs ==
    ASSUME NEW a \in Seq(AnyLine), NEW b \in Seq(AnyLine)
    PROVE  a \o b \in Seq(AnyLine)
OBVIOUS

\* r-boot-cli writes lines for an entry.
LEMMA RenderEntryIs ==
    ASSUME NEW e \in CliEntries
    PROVE  RenderEntry(e) \in Seq(AnyLine)
<1>1. /\ e.id \in AnyValue /\ e.title \in Maybe /\ e.kind \in Maybe /\ e.linux \in Maybe
      /\ e.efi \in Maybe /\ e.image \in Maybe /\ e.initrd \in Seq(AnyLine) /\ e.options \in Maybe
  BY DEF CliEntries
<1>2. {"id", "title", "kind", "linux", "efi", "image", "options"} \subseteq AnyKey
  BY DEF AnyKey
<1>3. <<Line("id", e.id)>> \in Seq(AnyLine)
  BY <1>1, <1>2, LineIs
<1>4. /\ OptLine("title", e.title) \in Seq(AnyLine) /\ OptLine("kind", e.kind) \in Seq(AnyLine)
      /\ OptLine("linux", e.linux) \in Seq(AnyLine) /\ OptLine("efi", e.efi) \in Seq(AnyLine)
      /\ OptLine("image", e.image) \in Seq(AnyLine) /\ OptLine("options", e.options) \in Seq(AnyLine)
  BY <1>1, <1>2, OptLineIs
<1>. QED BY <1>1, <1>3, <1>4, ConcatIs DEF RenderEntry

Splits(a, b, keys) == With(a \o b, keys) = With(a, keys) \o With(b, keys)

\* With distributes over concatenation.
LEMMA SplitsAll == \A keys : \A a, b \in Seq(AnyLine) : Splits(a, b, keys)
BY WithConcat DEF Splits

\* The header r-boot-cli writes says each setting once, or not at all.
LEMMA RenderSays ==
    ASSUME NEW c \in Configs
    PROVE  /\ Render(c).header \in Seq(AnyLine)
           /\ With(Render(c).header, {"default"}) = OptLine("default", c.default)
           /\ With(Render(c).header, {"timeout"}) = OptLine("timeout", c.timeout)
           /\ With(Render(c).header, {"spinner"}) = OptLine("spinner", c.spinner)
           /\ With(Render(c).header, {"logo"}) = OptLine("logo", c.logo)
           /\ With(Render(c).header, {"fastboot"}) = OptLine("fastboot", c.fastboot)
<1>. PICK p, d, t, s, l, f :
        /\ p = <<Line("other", "generated")>>
        /\ d = OptLine("default", c.default) /\ t = OptLine("timeout", c.timeout)
        /\ s = OptLine("spinner", c.spinner) /\ l = OptLine("logo", c.logo)
        /\ f = OptLine("fastboot", c.fastboot)
  OBVIOUS
<1>1. /\ c.default \in Maybe /\ c.timeout \in Maybe /\ c.spinner \in Maybe /\ c.logo \in Maybe
      /\ c.fastboot \in Maybe
  <2>1. Bools \subseteq AnyValue
    BY DEF Bools, AnyValue, None
  <2>. QED BY <2>1 DEF Configs, Maybe
<1>2. {"other", "default", "timeout", "spinner", "logo", "fastboot"} \subseteq AnyKey
      /\ "generated" \in AnyValue
  BY DEF AnyKey, AnyValue, None
<1>3. /\ p \in Seq(AnyLine) /\ d \in Seq(AnyLine) /\ t \in Seq(AnyLine)
      /\ s \in Seq(AnyLine) /\ l \in Seq(AnyLine) /\ f \in Seq(AnyLine)
  BY <1>1, <1>2, LineIs, OptLineIs
<1>4. Render(c).header = ((((p \o d) \o t) \o s) \o l) \o f
  BY DEF Render
<1>5. /\ p \o d \in Seq(AnyLine) /\ (p \o d) \o t \in Seq(AnyLine)
      /\ ((p \o d) \o t) \o s \in Seq(AnyLine) /\ (((p \o d) \o t) \o s) \o l \in Seq(AnyLine)
      /\ ((((p \o d) \o t) \o s) \o l) \o f \in Seq(AnyLine)
  BY <1>3, ConcatIs
<1>6. ASSUME NEW keys
      PROVE  With(Render(c).header, keys)
               = ((((With(p, keys) \o With(d, keys)) \o With(t, keys)) \o With(s, keys))
                  \o With(l, keys)) \o With(f, keys)
  <2>. PICK q1, q2, q3, q4 : q1 = p \o d /\ q2 = q1 \o t /\ q3 = q2 \o s /\ q4 = q3 \o l
    OBVIOUS
  <2>1. q1 \in Seq(AnyLine) /\ q2 \in Seq(AnyLine) /\ q3 \in Seq(AnyLine) /\ q4 \in Seq(AnyLine)
    BY <1>5
  <2>2. Splits(p, d, keys) /\ Splits(q1, t, keys) /\ Splits(q2, s, keys) /\ Splits(q3, l, keys)
        /\ Splits(q4, f, keys)
    BY <1>3, <2>1, SplitsAll
  <2>3. With(q1, keys) = With(p, keys) \o With(d, keys)
    BY <2>2, Zenon DEF Splits
  <2>4. With(q2, keys) = With(q1, keys) \o With(t, keys)
    BY <2>2, Zenon DEF Splits
  <2>5. With(q3, keys) = With(q2, keys) \o With(s, keys)
    BY <2>2, Zenon DEF Splits
  <2>6. With(q4, keys) = With(q3, keys) \o With(l, keys)
    BY <2>2, Zenon DEF Splits
  <2>7. With(q4 \o f, keys) = With(q4, keys) \o With(f, keys)
    BY <2>2, Zenon DEF Splits
  <2>8. Render(c).header = q4 \o f
    BY <1>4, Zenon
  <2>9. With(Render(c).header, keys) = With(q4, keys) \o With(f, keys)
    BY <2>7, <2>8, Zenon
  <2>10. With(Render(c).header, keys) = (With(q3, keys) \o With(l, keys)) \o With(f, keys)
    BY <2>6, <2>9, Zenon
  <2>11. With(Render(c).header, keys) = ((With(q2, keys) \o With(s, keys)) \o With(l, keys)) \o With(f, keys)
    BY <2>5, <2>10, Zenon
  <2>12. With(Render(c).header, keys)
           = (((With(q1, keys) \o With(t, keys)) \o With(s, keys)) \o With(l, keys)) \o With(f, keys)
    BY <2>4, <2>11, Zenon
  <2>. QED BY <2>3, <2>12, Zenon
<1>7. ASSUME NEW keys
      PROVE  /\ With(p, keys) = IF "other" \in keys THEN p ELSE <<>>
             /\ With(d, keys) = IF "default" \in keys THEN d ELSE <<>>
             /\ With(t, keys) = IF "timeout" \in keys THEN t ELSE <<>>
             /\ With(s, keys) = IF "spinner" \in keys THEN s ELSE <<>>
             /\ With(l, keys) = IF "logo" \in keys THEN l ELSE <<>>
             /\ With(f, keys) = IF "fastboot" \in keys THEN f ELSE <<>>
  <2>1. With(p, keys) = IF "other" \in keys THEN p ELSE <<>>
    <3>1. Line("other", "generated") \in AnyLine
      BY <1>2, LineIs
    <3>2. With(<<Line("other", "generated")>>, keys) = Only(Line("other", "generated"), keys)
      BY <3>1, WithOne
    <3>. QED BY <3>2 DEF Only, Line
  <2>. QED BY <1>1, <1>2, <2>1, OptLineWith
<1>8. \A q \in Seq(AnyLine) : <<>> \o q = q /\ q \o <<>> = q
  OBVIOUS
<1>9. With(Render(c).header, {"default"}) = d
  <2>. DEFINE keys == {"default"}
  <2>1. With(p, keys) = <<>> /\ With(d, keys) = d /\ With(t, keys) = <<>> /\ With(s, keys) = <<>> /\ With(l, keys) = <<>> /\ With(f, keys) = <<>>
    BY <1>7
  <2>2. With(Render(c).header, keys)
          = ((((With(p, keys) \o With(d, keys)) \o With(t, keys)) \o With(s, keys))
             \o With(l, keys)) \o With(f, keys)
    BY <1>6
  <2>. HIDE DEF keys
  <2>3. With(Render(c).header, keys) = d
    BY <1>3, <1>8, <2>1, <2>2
  <2>. QED BY <2>3 DEF keys
<1>10. With(Render(c).header, {"timeout"}) = t
  <2>. DEFINE keys == {"timeout"}
  <2>1. With(p, keys) = <<>> /\ With(d, keys) = <<>> /\ With(t, keys) = t /\ With(s, keys) = <<>> /\ With(l, keys) = <<>> /\ With(f, keys) = <<>>
    BY <1>7
  <2>2. With(Render(c).header, keys)
          = ((((With(p, keys) \o With(d, keys)) \o With(t, keys)) \o With(s, keys))
             \o With(l, keys)) \o With(f, keys)
    BY <1>6
  <2>. HIDE DEF keys
  <2>3. With(Render(c).header, keys) = t
    BY <1>3, <1>8, <2>1, <2>2
  <2>. QED BY <2>3 DEF keys
<1>11. With(Render(c).header, {"spinner"}) = s
  <2>. DEFINE keys == {"spinner"}
  <2>1. With(p, keys) = <<>> /\ With(d, keys) = <<>> /\ With(t, keys) = <<>> /\ With(s, keys) = s /\ With(l, keys) = <<>> /\ With(f, keys) = <<>>
    BY <1>7
  <2>2. With(Render(c).header, keys)
          = ((((With(p, keys) \o With(d, keys)) \o With(t, keys)) \o With(s, keys))
             \o With(l, keys)) \o With(f, keys)
    BY <1>6
  <2>. HIDE DEF keys
  <2>3. With(Render(c).header, keys) = s
    BY <1>3, <1>8, <2>1, <2>2
  <2>. QED BY <2>3 DEF keys
<1>12. With(Render(c).header, {"logo"}) = l
  <2>. DEFINE keys == {"logo"}
  <2>1. With(p, keys) = <<>> /\ With(d, keys) = <<>> /\ With(t, keys) = <<>> /\ With(s, keys) = <<>> /\ With(l, keys) = l /\ With(f, keys) = <<>>
    BY <1>7
  <2>2. With(Render(c).header, keys)
          = ((((With(p, keys) \o With(d, keys)) \o With(t, keys)) \o With(s, keys))
             \o With(l, keys)) \o With(f, keys)
    BY <1>6
  <2>. HIDE DEF keys
  <2>3. With(Render(c).header, keys) = l
    BY <1>3, <1>8, <2>1, <2>2
  <2>. QED BY <2>3 DEF keys
<1>13. With(Render(c).header, {"fastboot"}) = f
  <2>. DEFINE keys == {"fastboot"}
  <2>1. With(p, keys) = <<>> /\ With(d, keys) = <<>> /\ With(t, keys) = <<>> /\ With(s, keys) = <<>> /\ With(l, keys) = <<>> /\ With(f, keys) = f
    BY <1>7
  <2>2. With(Render(c).header, keys)
          = ((((With(p, keys) \o With(d, keys)) \o With(t, keys)) \o With(s, keys))
             \o With(l, keys)) \o With(f, keys)
    BY <1>6
  <2>. HIDE DEF keys
  <2>3. With(Render(c).header, keys) = f
    BY <1>3, <1>8, <2>1, <2>2
  <2>. QED BY <2>3 DEF keys
<1>. QED BY <1>4, <1>5, <1>9, <1>10, <1>11, <1>12, <1>13

\* What r-boot-cli writes is a file.
LEMMA RenderIs ==
    ASSUME NEW c \in Configs
    PROVE  Render(c) \in AnyFile
<1>1. c.entries \in Seq(CliEntries)
  BY DEF Configs
<1>2. \A i \in DOMAIN c.entries : RenderEntry(c.entries[i]) \in Seq(AnyLine)
  BY <1>1, RenderEntryIs
<1>3. [i \in DOMAIN c.entries |-> RenderEntry(c.entries[i])] \in Seq(Seq(AnyLine))
  BY <1>1, <1>2
<1>4. Render(c).header \in Seq(AnyLine)
  BY RenderSays
<1>. QED BY <1>3, <1>4 DEF Render, AnyFile
-----------------------------------------------------------------------------
(***************************************************************************)
(* The boot menu's writers.                                                *)
(***************************************************************************)
Off(line) == IF line.key = "fastboot" THEN Line("fastboot", "off") ELSE line

\* Taking the fast boot back leaves the other lines.
LEMMA FastbootOffIs ==
    ASSUME NEW f \in AnyFile
    PROVE  /\ FastbootOff(f) \in AnyFile
           /\ FastbootOff(f).blocks = f.blocks
           /\ \A keys : "fastboot" \notin keys => With(FastbootOff(f).header, keys) = With(f.header, keys)
           /\ EarlyFastboot(FastbootOff(f)) = "off"
<1>. PICK h, g : h = f.header /\ g = FastbootOff(f).header
  OBVIOUS
<1>1. h \in Seq(AnyLine) /\ f.blocks \in Seq(Seq(AnyLine)) /\ DOMAIN f = {"header", "blocks"}
  BY DEF AnyFile
<1>2. g = [i \in DOMAIN h |-> Off(h[i])]
  BY <1>1 DEF FastbootOff, Off
<1>3. Line("fastboot", "off") \in AnyLine
  BY LineIs DEF AnyKey, AnyValue, None
<1>4. \A i \in DOMAIN h : Off(h[i]) \in AnyLine
  BY <1>1, <1>3 DEF Off
<1>5. g \in Seq(AnyLine) /\ DOMAIN g = DOMAIN h /\ Len(g) = Len(h)
  <2>. DEFINE new(i) == Off(h[i])
  <2>1. \A i \in DOMAIN h : new(i) \in AnyLine
    BY <1>4
  <2>. HIDE DEF new
  <2>2. [i \in DOMAIN h |-> new(i)] \in Seq(AnyLine)
        /\ Len([i \in DOMAIN h |-> new(i)]) = Len(h)
    BY <1>1, <2>1
  <2>. QED BY <1>2, <2>2 DEF new
<1>6. FastbootOff(f) \in AnyFile /\ FastbootOff(f).blocks = f.blocks
  <2>1. FastbootOff(f) = [f EXCEPT !.header = g]
    BY <1>1, <1>2 DEF FastbootOff, Off
  <2>. QED BY <1>1, <1>5, <2>1 DEF AnyFile
<1>7. ASSUME NEW keys, "fastboot" \notin keys PROVE With(g, keys) = With(h, keys)
  <2>1. ASSUME NEW i \in DOMAIN g PROVE Only(g[i], keys) = Only(h[i], keys)
    <3>1. g[i] = Off(h[i])
      BY <1>2, <1>5
    <3>. QED BY <1>7, <3>1 DEF Off, Only, Line
  <2>. QED BY <1>1, <1>5, <2>1, WithSame
<1>8. FirstValid(g, "fastboot", FastbootModes, "off") = "off"
  <2>. DEFINE S == {Line("fastboot", "off")}
              parts == [i \in DOMAIN g |-> Only(g[i], {"fastboot"})]
  <2>1. ASSUME NEW i \in DOMAIN g PROVE Only(g[i], {"fastboot"}) \in Seq(S)
    <3>1. g[i] = Off(h[i])
      BY <1>2, <1>5
    <3>2. Only(g[i], {"fastboot"}) \in {<<>>, <<Line("fastboot", "off")>>}
      BY <3>1 DEF Off, Only, Line
    <3>3. <<>> \in Seq(S) /\ <<Line("fastboot", "off")>> \in Seq(S)
      OBVIOUS
    <3>. QED BY <3>2, <3>3
  <2>2. parts \in Seq(Seq(S))
    <3>. HIDE DEF S
    <3>. DEFINE only(i) == Only(g[i], {"fastboot"})
    <3>1. \A i \in DOMAIN g : only(i) \in Seq(S)
      BY <2>1
    <3>. HIDE DEF only
    <3>2. [i \in DOMAIN g |-> only(i)] \in Seq(Seq(S))
      BY <1>5, <3>1
    <3>. QED BY <3>2 DEF only
  <2>3. With(g, {"fastboot"}) = FlattenSeq(parts)
    BY <1>5, WithParts
  <2>. HIDE DEF parts
  <2>4. FlattenSeq(parts) \in Seq(S)
    <3>. HIDE DEF S
    <3>. QED BY <2>2, FlattenElements
  <2>5. PICK found : found = With(g, {"fastboot"})
    OBVIOUS
  <2>6. found \in Seq(S)
    BY <2>3, <2>4, <2>5
  <2>7. \A i \in 1 .. Len(found) : found[i].value = "off"
    BY <2>6 DEF Line
  <2>8. Len(found) \in Nat
    BY <2>6
  <2>9. PICK i : i = SelectInSeq(found, LAMBDA l : l.value \in FastbootModes)
    OBVIOUS
  <2>10. i = 0 \/ i \in 1 .. Len(found)
    <3>1. "off" \in FastbootModes
      BY DEF FastbootModes
    <3>2. {k \in 1 .. Len(found) : found[k].value \in FastbootModes} = 1 .. Len(found)
      BY <2>7, <3>1
    <3>3. i = IF 1 .. Len(found) # {} THEN Min(1 .. Len(found)) ELSE 0
      BY <2>9, <3>2 DEF SelectInSeq
    <3>4. Len(found) >= 1 => Min(1 .. Len(found)) = 1
      BY <2>8 DEF Min
    <3>. QED BY <2>8, <3>3, <3>4
  <2>11. FirstValid(g, "fastboot", FastbootModes, "off") = IF i = 0 THEN "off" ELSE found[i].value
    BY <2>5, <2>9 DEF FirstValid
  <2>. QED BY <2>7, <2>10, <2>11
<1>. QED BY <1>6, <1>7, <1>8 DEF EarlyFastboot

\* The copy append_entry makes of a line.
Copy(lines, image, line) ==
    LET new == IF image = None THEN <<>> ELSE <<Line("image", image)>>
    IN  CASE line.key = "image"                        -> new
          [] line.key = "id" /\ ~Has(lines, "image")   -> <<line>> \o new
          [] OTHER                                     -> <<line>>

Selected(lines, id) == \E i \in DOMAIN lines : lines[i] = Line("id", id)

\* append_entry leaves a line that is no image alone, and puts the image where
\* it says.
LEMMA CopyIs ==
    ASSUME NEW lines, NEW image \in Images \cup {None}, NEW line \in AnyLine
    PROVE  /\ Copy(lines, image, line) \in Seq(AnyLine)
           /\ \A keys : "image" \notin keys => With(Copy(lines, image, line), keys) = Only(line, keys)
           /\ With(Copy(lines, image, line), {"image"})
                = IF line.key = "image" \/ (line.key = "id" /\ ~Has(lines, "image"))
                  THEN OptLine("image", image) ELSE <<>>
<1>. PICK new : new = OptLine("image", image)
  OBVIOUS
<1>1. image \in Maybe /\ "image" \in AnyKey
  BY DEF Images, Maybe, AnyValue, AnyKey, None
<1>2. new \in Seq(AnyLine)
  BY <1>1, OptLineIs
<1>3. \A keys : With(new, keys) = IF "image" \in keys THEN new ELSE <<>>
  BY <1>1, OptLineWith
<1>4. \A keys : With(<<line>>, keys) = Only(line, keys)
  BY WithOne
<1>5. <<line>> \in Seq(AnyLine) /\ <<line>> \o <<>> = <<line>> /\ <<>> \o new = new
  BY <1>2
<1>6. CASE line.key = "image"
  <2>1. Copy(lines, image, line) = new
    BY <1>6 DEF Copy, OptLine
  <2>. QED BY <1>2, <1>3, <1>6, <2>1 DEF Only
<1>7. CASE line.key = "id" /\ ~Has(lines, "image")
  <2>1. Copy(lines, image, line) = <<line>> \o new
    BY <1>7 DEF Copy, OptLine
  <2>2. \A keys : Splits(<<line>>, new, keys)
    BY <1>2, <1>5, SplitsAll
  <2>3. \A keys : With(<<line>> \o new, keys) = Only(line, keys) \o With(new, keys)
    BY <1>4, <2>2, Zenon DEF Splits
  <2>4. ASSUME NEW keys, "image" \notin keys PROVE With(<<line>> \o new, keys) = Only(line, keys)
    <3>1. With(new, keys) = <<>> /\ Only(line, keys) \o <<>> = Only(line, keys)
      BY <1>3, <2>4, OnlyIs
    <3>2. With(<<line>> \o new, keys) = Only(line, keys) \o With(new, keys)
      BY <2>3
    <3>. QED BY <3>1, <3>2
  <2>5. With(<<line>> \o new, {"image"}) = new
    <3>1. Only(line, {"image"}) = <<>> /\ With(new, {"image"}) = new
      BY <1>3, <1>7 DEF Only
    <3>2. With(<<line>> \o new, {"image"}) = Only(line, {"image"}) \o With(new, {"image"})
      BY <2>3
    <3>. QED BY <1>5, <3>1, <3>2
  <2>6. <<line>> \o new \in Seq(AnyLine)
    BY <1>2, <1>5
  <2>. QED BY <1>7, <2>1, <2>4, <2>5, <2>6
<1>8. CASE ~(line.key = "image" \/ (line.key = "id" /\ ~Has(lines, "image")))
  <2>1. Copy(lines, image, line) = <<line>>
    BY <1>8 DEF Copy
  <2>. QED BY <1>4, <1>5, <1>8, <2>1 DEF Only
<1>. QED BY <1>6, <1>7, <1>8

\* In a block without the id nothing changes; in one with it, the image does.
LEMMA AppendIs ==
    ASSUME NEW lines \in Seq(AnyLine), NEW id, NEW image \in Images \cup {None}
    PROVE  /\ AppendEntry(lines, id, image) \in Seq(AnyLine)
           /\ \A keys : "image" \notin keys =>
                With(AppendEntry(lines, id, image), keys) = With(lines, keys)
           /\ LastValue(AppendEntry(lines, id, image), {"image"})
                = IF Selected(lines, id) THEN image ELSE LastValue(lines, {"image"})
<1>. DEFINE C(i) == Copy(lines, image, lines[i])
            parts == [i \in DOMAIN lines |-> C(i)]
<1>1. /\ ~Selected(lines, id) => AppendEntry(lines, id, image) = lines
      /\ Selected(lines, id) => AppendEntry(lines, id, image) = FlattenSeq(parts)
  BY DEF AppendEntry, Copy, Selected
<1>2. DOMAIN lines = 1 .. Len(lines) /\ Len(lines) \in Nat
  OBVIOUS
<1>3. ASSUME NEW i \in DOMAIN lines
      PROVE  /\ C(i) \in Seq(AnyLine)
             /\ \A keys : "image" \notin keys => With(C(i), keys) = Only(lines[i], keys)
             /\ With(C(i), {"image"})
                  = IF lines[i].key = "image" \/ (lines[i].key = "id" /\ ~Has(lines, "image"))
                    THEN OptLine("image", image) ELSE <<>>
  <2>1. lines[i] \in AnyLine
    OBVIOUS
  <2>. QED BY <2>1, CopyIs
<1>4. parts \in Seq(Seq(AnyLine)) /\ Len(parts) = Len(lines) /\ DOMAIN parts = DOMAIN lines
  <2>. HIDE DEF C
  <2>. QED BY <1>2, <1>3
<1>5. \A i \in DOMAIN lines : parts[i] = C(i)
  OBVIOUS
<1>. HIDE DEF parts
<1>6. FlattenSeq(parts) \in Seq(AnyLine)
  BY <1>4, FlattenElements
<1>7. ASSUME NEW keys, "image" \notin keys PROVE With(FlattenSeq(parts), keys) = With(lines, keys)
  <2>1. \A i \in DOMAIN lines : With(parts[i], keys) = Only(lines[i], keys)
    BY <1>3, <1>5, <1>7
  <2>2. [i \in DOMAIN parts |-> With(parts[i], keys)] = [i \in DOMAIN lines |-> Only(lines[i], keys)]
    BY <1>4, <2>1
  <2>. QED BY <1>4, <2>2, WithFlatten, WithParts
<1>8. CASE ~Selected(lines, id)
  BY <1>1, <1>8
<1>9. CASE Selected(lines, id)
  <2>. PICK new : new = OptLine("image", image)
    OBVIOUS
  <2>. DEFINE S == IF image = None THEN {} ELSE {Line("image", image)}
              D(i) == With(parts[i], {"image"})
              found == [i \in DOMAIN parts |-> D(i)]
  <2>1. image = None => new = <<>>
    BY DEF OptLine
  <2>2. image # None => new = <<Line("image", image)>>
    BY DEF OptLine
  <2>3. new \in Seq(S)
    <3>1. CASE image = None
      <4>1. <<>> \in Seq({})
        OBVIOUS
      <4>. QED BY <2>1, <3>1, <4>1
    <3>2. CASE image # None
      <4>. PICK x : x = Line("image", image)
        OBVIOUS
      <4>1. <<x>> \in Seq({x})
        OBVIOUS
      <4>2. new = <<x>> /\ S = {x}
        BY <2>2, <3>2
      <4>. QED BY <4>1, <4>2
    <3>. QED BY <3>1, <3>2
  <2>4. ASSUME NEW i \in DOMAIN parts
        PROVE  D(i) = IF lines[i].key = "image" \/ (lines[i].key = "id" /\ ~Has(lines, "image"))
                      THEN new ELSE <<>>
    BY <1>3, <1>4, <1>5
  <2>5. ASSUME NEW i \in DOMAIN parts PROVE D(i) \in Seq(S)
    <3>. HIDE DEF S, D
    <3>1. <<>> \in Seq(S)
      OBVIOUS
    <3>. QED BY <2>3, <2>4, <3>1
  <2>6. found \in Seq(Seq(S)) /\ DOMAIN found = DOMAIN parts /\ \A i \in DOMAIN parts : found[i] = D(i)
    <3>. HIDE DEF S, D
    <3>. QED BY <1>2, <1>4, <2>5
  <2>7. \E i \in DOMAIN parts : D(i) = new
    <3>1. CASE Has(lines, "image")
      BY <1>4, <2>4, <3>1 DEF Has
    <3>2. CASE ~Has(lines, "image")
      <4>1. PICK i \in DOMAIN lines : lines[i] = Line("id", id)
        BY <1>9 DEF Selected
      <4>2. lines[i].key = "id"
        BY <4>1 DEF Line
      <4>. QED BY <1>4, <2>4, <3>2, <4>2
    <3>. QED BY <3>1, <3>2
  <2>8. With(FlattenSeq(parts), {"image"}) = FlattenSeq(found)
    BY <1>4, WithFlatten
  <2>9. FlattenSeq(found) \in Seq(S)
    <3>. HIDE DEF found, S
    <3>. QED BY <2>6, FlattenElements
  <2>10. new # <<>> => FlattenSeq(found) # <<>>
    <3>. HIDE DEF found, S, D
    <3>. QED BY <2>6, <2>7, FlattenSome
  <2>11. PICK w : w = FlattenSeq(found)
    OBVIOUS
  <2>12. LastValue(FlattenSeq(parts), {"image"}) = IF w = <<>> THEN None ELSE Last(w).value
    BY <2>8, <2>11 DEF LastValue
  <2>13. w \in Seq(S) /\ (new # <<>> => w # <<>>)
    BY <2>9, <2>10, <2>11
  <2>. HIDE DEF found, D
  <2>14. CASE image = None
    <3>1. S = {}
      BY <2>14
    <3>2. w = <<>>
      BY <2>13, <3>1
    <3>. QED BY <1>1, <1>6, <1>7, <1>9, <2>12, <2>14, <3>2
  <2>15. CASE image # None
    <3>1. S = {Line("image", image)} /\ new # <<>>
      BY <2>2, <2>15
    <3>2. w # <<>> /\ w \in Seq({Line("image", image)})
      BY <2>13, <3>1
    <3>3. Last(w) = Line("image", image)
      BY <3>2 DEF Last
    <3>4. Last(w).value = image
      BY <3>3 DEF Line
    <3>. QED BY <1>1, <1>6, <1>7, <1>9, <2>12, <3>2, <3>4
  <2>. QED BY <2>14, <2>15
<1>. QED BY <1>8, <1>9

\* The header as the menu saves it says what is on the screen, once, and the
\* rest as before.
LEMMA PersistedIs ==
    ASSUME NEW f \in AnyFile, NEW timeout \in AnyValue, NEW spinner \in AnyValue,
           NEW logo \in AnyValue, NEW id, NEW image \in Images \cup {None},
           NEW g, g = Persisted(f, timeout, spinner, logo, id, image)
    PROVE  /\ g \in AnyFile
           /\ With(g.header, {"timeout"}) = <<Line("timeout", timeout)>>
           /\ With(g.header, {"spinner"}) = <<Line("spinner", spinner)>>
           /\ With(g.header, {"logo"}) = <<Line("logo", logo)>>
           /\ With(g.header, {"default"}) = With(f.header, {"default"})
           /\ With(g.header, {"fastboot"}) = With(f.header, {"fastboot"})
           /\ g.blocks = [i \in DOMAIN f.blocks |-> AppendEntry(f.blocks[i], id, image)]
<1>. PICK t, s, l, r : /\ t = <<Line("timeout", timeout)>> /\ s = <<Line("spinner", spinner)>>
                       /\ l = <<Line("logo", logo)>>
                       /\ r = Without(f.header, {"timeout", "spinner", "logo"})
  OBVIOUS
<1>1. f.header \in Seq(AnyLine) /\ f.blocks \in Seq(Seq(AnyLine))
  BY DEF AnyFile
<1>2. {"timeout", "spinner", "logo", "default", "fastboot"} \subseteq AnyKey
  BY DEF AnyKey
<1>3. t \in Seq(AnyLine) /\ s \in Seq(AnyLine) /\ l \in Seq(AnyLine) /\ r \in Seq(AnyLine)
  BY <1>1, <1>2, LineIs, WithoutIs
<1>. PICK q1, q2 : q1 = t \o s /\ q2 = q1 \o l
  OBVIOUS
<1>4. q1 \in Seq(AnyLine) /\ q2 \in Seq(AnyLine) /\ q2 \o r \in Seq(AnyLine)
  BY <1>3
<1>5. g.header = q2 \o r
  <2>1. <<Line("timeout", timeout), Line("spinner", spinner), Line("logo", logo)>> = q2
    OBVIOUS
  <2>. QED BY <2>1 DEF Persisted
<1>6. ASSUME NEW keys
      PROVE  With(g.header, keys) = ((With(t, keys) \o With(s, keys)) \o With(l, keys)) \o With(r, keys)
  <2>1. Splits(t, s, keys) /\ Splits(q1, l, keys) /\ Splits(q2, r, keys)
    BY <1>3, <1>4, SplitsAll
  <2>. QED BY <1>5, <2>1 DEF Splits
<1>7. ASSUME NEW keys
      PROVE  /\ With(t, keys) = IF "timeout" \in keys THEN t ELSE <<>>
             /\ With(s, keys) = IF "spinner" \in keys THEN s ELSE <<>>
             /\ With(l, keys) = IF "logo" \in keys THEN l ELSE <<>>
  <2>1. ASSUME NEW key \in AnyKey, NEW value \in AnyValue
        PROVE  With(<<Line(key, value)>>, keys) = IF key \in keys THEN <<Line(key, value)>> ELSE <<>>
    <3>1. Line(key, value) \in AnyLine
      BY LineIs
    <3>2. With(<<Line(key, value)>>, keys) = Only(Line(key, value), keys)
      BY <3>1, WithOne
    <3>. QED BY <3>2 DEF Only, Line
  <2>. QED BY <1>2, <2>1
<1>8. \A q \in Seq(AnyLine) : <<>> \o q = q /\ q \o <<>> = q
  OBVIOUS
<1>9. With(g.header, {"timeout"}) = t
  <2>. DEFINE keys == {"timeout"}
  <2>1. With(t, keys) = t /\ With(s, keys) = <<>> /\ With(l, keys) = <<>> /\ With(r, keys) = <<>>
    <3>1. keys \subseteq {"timeout", "spinner", "logo"}
      OBVIOUS
    <3>. QED BY <1>1, <1>7, <3>1, WithoutNone
  <2>2. With(g.header, keys) = ((With(t, keys) \o With(s, keys)) \o With(l, keys)) \o With(r, keys)
    BY <1>6
  <2>. HIDE DEF keys
  <2>3. With(g.header, keys) = t
    BY <1>3, <1>8, <2>1, <2>2
  <2>. QED BY <2>3 DEF keys
<1>10. With(g.header, {"spinner"}) = s
  <2>. DEFINE keys == {"spinner"}
  <2>1. With(t, keys) = <<>> /\ With(s, keys) = s /\ With(l, keys) = <<>> /\ With(r, keys) = <<>>
    <3>1. keys \subseteq {"timeout", "spinner", "logo"}
      OBVIOUS
    <3>. QED BY <1>1, <1>7, <3>1, WithoutNone
  <2>2. With(g.header, keys) = ((With(t, keys) \o With(s, keys)) \o With(l, keys)) \o With(r, keys)
    BY <1>6
  <2>. HIDE DEF keys
  <2>3. With(g.header, keys) = s
    BY <1>3, <1>8, <2>1, <2>2
  <2>. QED BY <2>3 DEF keys
<1>11. With(g.header, {"logo"}) = l
  <2>. DEFINE keys == {"logo"}
  <2>1. With(t, keys) = <<>> /\ With(s, keys) = <<>> /\ With(l, keys) = l /\ With(r, keys) = <<>>
    <3>1. keys \subseteq {"timeout", "spinner", "logo"}
      OBVIOUS
    <3>. QED BY <1>1, <1>7, <3>1, WithoutNone
  <2>2. With(g.header, keys) = ((With(t, keys) \o With(s, keys)) \o With(l, keys)) \o With(r, keys)
    BY <1>6
  <2>. HIDE DEF keys
  <2>3. With(g.header, keys) = l
    BY <1>3, <1>8, <2>1, <2>2
  <2>. QED BY <2>3 DEF keys
<1>12. With(g.header, {"default"}) = With(f.header, {"default"})
  <2>. DEFINE keys == {"default"}
  <2>1. With(t, keys) = <<>> /\ With(s, keys) = <<>> /\ With(l, keys) = <<>>
    BY <1>7
  <2>2. With(r, keys) = With(f.header, keys) /\ With(r, keys) \in Seq(AnyLine)
    <3>1. keys \in SUBSET AnyKey /\ keys \cap {"timeout", "spinner", "logo"} = {}
      BY <1>2
    <3>. QED BY <1>1, <1>3, <3>1, WithWithout, WithParts
  <2>3. With(g.header, keys) = ((With(t, keys) \o With(s, keys)) \o With(l, keys)) \o With(r, keys)
    BY <1>6
  <2>. HIDE DEF keys
  <2>4. <<>> \o <<>> = <<>> /\ <<>> \in Seq(AnyLine)
    OBVIOUS
  <2>5. With(g.header, keys) = With(f.header, keys)
    BY <1>8, <2>1, <2>2, <2>3, <2>4
  <2>. QED BY <2>5 DEF keys
<1>13. With(g.header, {"fastboot"}) = With(f.header, {"fastboot"})
  <2>. DEFINE keys == {"fastboot"}
  <2>1. With(t, keys) = <<>> /\ With(s, keys) = <<>> /\ With(l, keys) = <<>>
    BY <1>7
  <2>2. With(r, keys) = With(f.header, keys) /\ With(r, keys) \in Seq(AnyLine)
    <3>1. keys \in SUBSET AnyKey /\ keys \cap {"timeout", "spinner", "logo"} = {}
      BY <1>2
    <3>. QED BY <1>1, <1>3, <3>1, WithWithout, WithParts
  <2>3. With(g.header, keys) = ((With(t, keys) \o With(s, keys)) \o With(l, keys)) \o With(r, keys)
    BY <1>6
  <2>. HIDE DEF keys
  <2>4. <<>> \o <<>> = <<>> /\ <<>> \in Seq(AnyLine)
    OBVIOUS
  <2>5. With(g.header, keys) = With(f.header, keys)
    BY <1>8, <2>1, <2>2, <2>3, <2>4
  <2>. QED BY <2>5 DEF keys
<1>14. g.blocks = [i \in DOMAIN f.blocks |-> AppendEntry(f.blocks[i], id, image)]
  BY DEF Persisted
<1>15. g.blocks \in Seq(Seq(AnyLine))
  <2>. PICK b : b = f.blocks
    OBVIOUS
  <2>. DEFINE new(i) == AppendEntry(b[i], id, image)
  <2>1. b \in Seq(Seq(AnyLine)) /\ DOMAIN b = 1 .. Len(b) /\ Len(b) \in Nat
    BY <1>1
  <2>2. ASSUME NEW i \in 1 .. Len(b) PROVE new(i) \in Seq(AnyLine)
    <3>1. b[i] \in Seq(AnyLine)
      BY <2>1
    <3>. QED BY <3>1, AppendIs
  <2>. HIDE DEF new
  <2>3. [i \in 1 .. Len(b) |-> new(i)] \in Seq(Seq(AnyLine))
    BY <2>1, <2>2
  <2>. QED BY <1>14, <2>1, <2>3 DEF new
<1>16. g \in AnyFile
  <2>1. g = [header |-> g.header, blocks |-> g.blocks]
    BY DEF Persisted
  <2>. QED BY <1>4, <1>5, <1>15, <2>1 DEF AnyFile
<1>. QED BY <1>9, <1>10, <1>11, <1>12, <1>13, <1>14, <1>16

-----------------------------------------------------------------------------
(***************************************************************************)
(* The type invariant, and the readers of two phases.                      *)
(***************************************************************************)
\* A set of numbers has a least one, and Min chooses it.
LEMMA LeastIs ==
    ASSUME NEW I \in SUBSET Nat, I # {}
    PROVE  Min(I) \in I /\ \A i \in I : Min(I) <= i
<1>1. PICK m \in I : \A i \in I : m <= i
  <2>1. IsWellFoundedOn(Less, Nat)
    BY NatLessThanWellFounded DEF OpToRel, Less
  <2>2. PICK m \in I : \A y \in I : ~(<<y, m>> \in Less)
    BY <2>1, WFMin
  <2>3. ASSUME NEW y \in I, y < m PROVE FALSE
    <3>1. <<y, m>> \in Less
      BY <2>3 DEF OpToRel, Less
    <3>. QED BY <2>2, <3>1
  <2>. QED BY <2>2, <2>3
<1>. QED BY <1>1 DEF Min

\* What remove leaves are entries.
LEMMA RemovedIs ==
    ASSUME NEW c \in Configs, NEW id
    PROVE  Removed(c, id) \in Configs
<1>. PICK e : e = c.entries
  OBVIOUS
<1>. DEFINE I == {k \in 1 .. Len(e) : e[k].id = id}
            i == SelectInSeq(c.entries, LAMBDA x : x.id = id)
<1>1. e \in Seq(CliEntries) /\ Len(e) \in Nat
  BY DEF Configs
<1>2. i = IF I # {} THEN Min(I) ELSE 0
  BY DEF SelectInSeq
<1>3. I # {} => Min(I) \in I
  <2>1. I \in SUBSET Nat
    BY <1>1
  <2>. HIDE DEF I
  <2>. QED BY <2>1, LeastIs
<1>4. i \in 0 .. Len(e)
  <2>. HIDE DEF i
  <2>. QED BY <1>1, <1>2, <1>3
<1>5. Removed(c, id) = [c EXCEPT !.entries = RemoveAt(e, i), !.default = IF c.default = id THEN None ELSE c.default]
  BY DEF Removed
<1>. HIDE DEF i, I
<1>6. RemoveAt(e, i) \in Seq(CliEntries)
  <2>1. SubSeq(e, 1, i - 1) \in Seq(CliEntries) /\ SubSeq(e, i + 1, Len(e)) \in Seq(CliEntries)
    BY <1>1, <1>4
  <2>. QED BY <2>1 DEF RemoveAt
<1>7. (IF c.default = id THEN None ELSE c.default) \in Maybe
  BY DEF Configs, Maybe
<1>. QED BY <1>5, <1>6, <1>7 DEF Configs

\* A set command writes a configuration.
LEMMA SetIs ==
    ASSUME NEW c \in Configs, NEW key, NEW value,
           \/ key \in {"timeout", "spinner", "fastboot", "default"} /\ value \in Maybe
           \/ key = "logo" /\ value \in Bools
    PROVE  [c EXCEPT ![key] = value] \in Configs
<1>1. CASE key = "timeout"
  BY <1>1 DEF Configs
<1>2. CASE key = "spinner"
  BY <1>2 DEF Configs
<1>3. CASE key = "fastboot"
  BY <1>3 DEF Configs
<1>4. CASE key = "default"
  BY <1>4 DEF Configs
<1>5. CASE key = "logo" /\ value \in Bools
  BY <1>5 DEF Configs
<1>. QED BY <1>1, <1>2, <1>3, <1>4, <1>5

\* The header says spinner and logo once, or not at all, and the logo bare.
Said(f) == \E v \in Maybe, w \in Bools \cup {None} :
              /\ With(f.header, {"spinner"}) = OptLine("spinner", v)
              /\ With(f.header, {"logo"}) = OptLine("logo", w)

\* The early readers and the menu read such a header alike.
LEMMA SaidAgree ==
    ASSUME NEW f, Said(f)
    PROVE  EarlySpinner(f) = MenuOf(f).spinner /\ EarlyLogo(f) = MenuOf(f).logo
<1>. PICK v \in Maybe, w \in Bools \cup {None} :
        /\ With(f.header, {"spinner"}) = OptLine("spinner", v)
        /\ With(f.header, {"logo"}) = OptLine("logo", w)
  BY DEF Said
<1>1. None \notin SpinnerModes /\ None \notin Bools \cup QuotedBools
  BY DEF None, SpinnerModes, Bools, QuotedBools
<1>2. EarlySpinner(f) = MenuOf(f).spinner
  <2>1. FirstValid(f.header, "spinner", SpinnerModes, "graphical")
          = LastValid(f.header, "spinner", SpinnerModes, "graphical")
    BY <1>1, ValidOf
  <2>. QED BY <2>1 DEF EarlySpinner, MenuOf
<1>3. LastValid(f.header, "logo", Bools \cup QuotedBools, "true") = IF w \in Bools \cup QuotedBools THEN w ELSE "true"
  BY <1>1, ValidOf
<1>4. MenuOf(f).logo = Unquoted(IF w \in Bools \cup QuotedBools THEN w ELSE "true")
  BY <1>3 DEF MenuOf
<1>5. CASE w = None
  <2>1. With(f.header, {"logo"}) = <<>>
    BY <1>5 DEF OptLine
  <2>2. EarlyLogo(f) = "true"
    BY <2>1 DEF EarlyLogo
  <2>. QED BY <1>1, <1>2, <1>4, <1>5, <2>2 DEF Unquoted
<1>6. CASE w \in Bools
  <2>1. With(f.header, {"logo"}) = <<Line("logo", w)>>
    BY <1>1, <1>6 DEF OptLine
  <2>2. EarlyLogo(f) = OrElse(Parsed(w, Bools), "true")
    BY <2>1 DEF EarlyLogo, Line
  <2>3. EarlyLogo(f) = w
    BY <1>1, <1>6, <2>2 DEF OrElse, Parsed
  <2>4. Unquoted(w) = w
    BY <1>6 DEF Bools, Unquoted
  <2>. QED BY <1>2, <1>4, <1>6, <2>3, <2>4
<1>. QED BY <1>5, <1>6

\* r-boot-cli writes such a header,
LEMMA RenderSaid == ASSUME NEW c \in Configs PROVE Said(Render(c))
<1>1. c.spinner \in Maybe /\ c.logo \in Bools \cup {None}
  BY DEF Configs
<1>. QED BY <1>1, RenderSays DEF Said

\* What is on the configuration screen can be written.
LEMMA ScreensAre ==
    ASSUME NEW screen \in Screens
    PROVE  /\ screen.timeout \in U64 /\ screen.timeout \in AnyValue
           /\ screen.spinner \in SpinnerModes /\ screen.spinner \in AnyValue
           /\ screen.logo \in Bools /\ screen.logo \in AnyValue
           /\ screen.image \in Images \cup {None}
<1>1. /\ screen.timeout \in Timeouts /\ screen.spinner \in SpinnerModes
      /\ screen.logo \in {"true", "false"} /\ screen.image \in Images \cup {None}
  BY DEF Screens
<1>2. SpinnerModes \subseteq AnyValue /\ {"true", "false"} \subseteq AnyValue
  BY DEF SpinnerModes, AnyValue, None
<1>. QED BY <1>1, <1>2, EditsAssumption, ValuesAre DEF Bools

Saves(f, screen, id, g) ==
    g = Persisted(f, screen.timeout, screen.spinner, screen.logo, id, screen.image)

SavedAs(f, screen, id, g) ==
    /\ g \in AnyFile
    /\ With(g.header, {"timeout"}) = OptLine("timeout", screen.timeout)
    /\ With(g.header, {"spinner"}) = OptLine("spinner", screen.spinner)
    /\ With(g.header, {"logo"}) = OptLine("logo", screen.logo)
    /\ With(g.header, {"default"}) = With(f.header, {"default"})
    /\ With(g.header, {"fastboot"}) = With(f.header, {"fastboot"})
    /\ g.blocks = [i \in DOMAIN f.blocks |-> AppendEntry(f.blocks[i], id, screen.image)]

\* What persist_settings keeps and changes.
LEMMA SavedIs ==
    ASSUME NEW f \in AnyFile, NEW screen \in Screens, NEW id, NEW g, Saves(f, screen, id, g)
    PROVE  SavedAs(f, screen, id, g)
<1>. PICK t, s, l, m : t = screen.timeout /\ s = screen.spinner /\ l = screen.logo /\ m = screen.image
  OBVIOUS
<1>1. t \in AnyValue /\ s \in AnyValue /\ l \in AnyValue /\ m \in Images \cup {None}
  BY ScreensAre
<1>2. g = Persisted(f, t, s, l, id, m)
  BY DEF Saves
<1>3. /\ g \in AnyFile
      /\ With(g.header, {"timeout"}) = <<Line("timeout", t)>>
      /\ With(g.header, {"spinner"}) = <<Line("spinner", s)>>
      /\ With(g.header, {"logo"}) = <<Line("logo", l)>>
      /\ With(g.header, {"default"}) = With(f.header, {"default"})
      /\ With(g.header, {"fastboot"}) = With(f.header, {"fastboot"})
      /\ g.blocks = [i \in DOMAIN f.blocks |-> AppendEntry(f.blocks[i], id, m)]
  BY <1>1, <1>2, PersistedIs
<1>4. t # None /\ s # None /\ l # None
  BY <1>1, ValuesAre
<1>. QED BY <1>3, <1>4 DEF OptLine, SavedAs

\* and so does the menu.
LEMMA PersistedSaid ==
    ASSUME NEW f \in AnyFile, NEW screen \in Screens, NEW id, NEW g, Saves(f, screen, id, g)
    PROVE  Said(g)
<1>1. With(g.header, {"spinner"}) = OptLine("spinner", screen.spinner)
      /\ With(g.header, {"logo"}) = OptLine("logo", screen.logo)
  <2>1. SavedAs(f, screen, id, g)
    BY SavedIs
  <2>. QED BY <2>1 DEF SavedAs
<1>2. screen.spinner \in Maybe /\ screen.logo \in Bools \cup {None}
  BY ScreensAre DEF Maybe
<1>. QED BY <1>1, <1>2 DEF Said

\* Each action, with what it names.
Settable(key) == CASE key = "timeout"  -> Timeouts \cap U32
                   [] key = "spinner"  -> SpinnerModes
                   [] key = "logo"     -> {"true", "false"}
                   [] key = "fastboot" -> FastbootModes

\* A set command has a value that its key can have.
LEMMA SettableIs ==
    ASSUME NEW key \in {"timeout", "spinner", "logo", "fastboot"}, NEW value \in Settable(key), NEW c \in Configs
    PROVE  value \in AnyValue /\ [c EXCEPT ![key] = value] \in Configs
<1>1. /\ Timeouts \cap U32 \subseteq AnyValue /\ SpinnerModes \subseteq AnyValue
      /\ {"true", "false"} \subseteq AnyValue /\ FastbootModes \subseteq AnyValue
  <2>1. Timeouts \cap U32 \subseteq AnyValue
    BY EditsAssumption, ValuesAre
  <2>. QED BY <2>1 DEF SpinnerModes, FastbootModes, AnyValue, None
<1>2. value \in AnyValue
  BY <1>1 DEF Settable
<1>3. key = "logo" => value \in Bools
  BY DEF Settable, Bools
<1>4. value \in Maybe
  BY <1>2 DEF Maybe
<1>. QED BY <1>2, <1>3, <1>4, SetIs

\* What an edit makes of the file.
Edited(f, e, g) ==
    \/ e.op = "save" /\ \E i \in DOMAIN MenuOf(f).entries :
         /\ e.entry = i /\ e.screen \in Screens
         /\ Saves(f, e.screen, MenuOf(f).entries[i].id, g)
    \/ e.op = "used" /\ EarlyFastboot(f) = "next-boot" /\ g = FastbootOff(f)
    \/ e.op = "set" /\ \E key \in {"timeout", "spinner", "logo", "fastboot"} : \E value \in Settable(key) :
         e.key = key /\ e.value = value /\ g = Render([Parse(f) EXCEPT ![key] = value])
    \/ e.op = "set-default" /\ \E id \in EntryIds :
         /\ e.value = id /\ \E i \in DOMAIN f.blocks : CliEntry(f.blocks[i]).id = id
         /\ g = Render([Parse(f) EXCEPT !.default = id])
    \/ e.op = "remove" /\ \E id \in EntryIds :
         /\ e.value = id /\ \E i \in DOMAIN f.blocks : CliEntry(f.blocks[i]).id = id
         /\ g = Render(Removed(Parse(f), id))

\* Every step is one of the edits.
LEMMA NextEdits == Next => Edited(file, edit', file')
<1>1. ASSUME NEW i \in DOMAIN Menu.entries, MenuSave(i) PROVE Edited(file, edit', file')
  <2>1. PICK screen \in Screens :
          /\ Edit("save", "", "", i, screen)
          /\ Saves(file, screen, MenuOf(file).entries[i].id, file')
    BY <1>1 DEF MenuSave, Saves, Menu
  <2>2. edit'.op = "save" /\ edit'.entry = i /\ edit'.screen = screen
    BY <2>1 DEF Edit
  <2>. QED BY <2>1, <2>2 DEF Edited, Menu
<1>2. ASSUME NextBootUsed PROVE Edited(file, edit', file')
  BY <1>2 DEF NextBootUsed, Edit, Edited
<1>3. ASSUME NEW key \in {"timeout", "spinner", "logo", "fastboot"}, NEW value \in Settable(key), CliSet(key, value)
      PROVE  Edited(file, edit', file')
  BY <1>3 DEF CliSet, Edit, Edited
<1>4. ASSUME NEW id \in EntryIds, CliSetDefault(id) PROVE Edited(file, edit', file')
  BY <1>4 DEF CliSetDefault, Known, Edit, Edited
<1>5. ASSUME NEW id \in EntryIds, CliRemove(id) PROVE Edited(file, edit', file')
  BY <1>5 DEF CliRemove, Known, Edit, Edited
<1>. QED BY <1>1, <1>2, <1>3, <1>4, <1>5 DEF Next, Settable

\* A file that was last saved by the menu or r-boot-cli is Said.
AgreeInv ==
    /\ file \in AnyFile
    /\ edit.op \in {"save", "set", "set-default", "remove"} => Said(file)

\* Every edit leaves a file, and all but the automatic one a header that is
\* read alike.
LEMMA EditedSaid ==
    ASSUME NEW f \in AnyFile, NEW e, NEW g, Edited(f, e, g)
    PROVE  g \in AnyFile /\ (e.op # "used" => Said(g))
<1>1. Parse(f) \in Configs
  BY ParseIs
<1>2. CASE e.op = "save"
  <2>1. PICK i : e.screen \in Screens /\ Saves(f, e.screen, MenuOf(f).entries[i].id, g)
    BY <1>2 DEF Edited
  <2>2. Said(g)
    BY <2>1, PersistedSaid
  <2>3. g \in AnyFile
    BY <2>1, SavedIs DEF SavedAs
  <2>. QED BY <2>2, <2>3
<1>3. CASE e.op = "used"
  BY <1>3, FastbootOffIs DEF Edited
<1>4. CASE e.op = "set"
  <2>1. PICK key \in {"timeout", "spinner", "logo", "fastboot"} : \E value \in Settable(key) :
          g = Render([Parse(f) EXCEPT ![key] = value])
    BY <1>4 DEF Edited
  <2>. PICK value \in Settable(key) : g = Render([Parse(f) EXCEPT ![key] = value])
    BY <2>1
  <2>2. [Parse(f) EXCEPT ![key] = value] \in Configs
    BY <1>1, <2>1, SettableIs
  <2>. QED BY <2>1, <2>2, RenderIs, RenderSaid
<1>5. CASE e.op = "set-default"
  <2>1. PICK id \in EntryIds : g = Render([Parse(f) EXCEPT !.default = id])
    BY <1>5 DEF Edited
  <2>2. id \in Maybe
    BY EditsAssumption, ValuesAre DEF Maybe
  <2>3. [Parse(f) EXCEPT !.default = id] \in Configs
    BY <1>1, <2>2, SetIs
  <2>. QED BY <2>1, <2>3, RenderIs, RenderSaid
<1>6. CASE e.op = "remove"
  <2>1. PICK id \in EntryIds : g = Render(Removed(Parse(f), id))
    BY <1>6 DEF Edited
  <2>2. Removed(Parse(f), id) \in Configs
    BY <1>1, RemovedIs
  <2>. QED BY <2>1, <2>2, RenderIs, RenderSaid
<1>. QED BY <1>2, <1>3, <1>4, <1>5, <1>6 DEF Edited

\* The invariant holds at first,
LEMMA AgreeInvInit == Init => AgreeInv
<1>. SUFFICES ASSUME Init PROVE AgreeInv
  OBVIOUS
<1>1. PICK life \in Lives : file = life.file
  BY DEF Init
<1>2. file \in AnyFile
  BY <1>1, EditsAssumption, FilesAre
<1>3. edit.op = "none"
  BY DEF Init
<1>. QED BY <1>2, <1>3 DEF AgreeInv

\* every step keeps it,
LEMMA AgreeInvNext == AgreeInv /\ [Next]_vars => AgreeInv'
<1>. SUFFICES ASSUME AgreeInv, [Next]_vars PROVE AgreeInv'
  OBVIOUS
<1>1. CASE Next
  <2>1. Edited(file, edit', file')
    BY <1>1, NextEdits
  <2>2. file' \in AnyFile /\ (edit'.op # "used" => Said(file'))
    <3>. PICK f, e, g : f = file /\ e = edit' /\ g = file'
      OBVIOUS
    <3>1. g \in AnyFile /\ (e.op # "used" => Said(g))
      BY <2>1, EditedSaid DEF AgreeInv
    <3>. QED BY <3>1
  <2>. QED BY <2>2 DEF AgreeInv
<1>2. CASE UNCHANGED vars
  BY <1>2 DEF vars, AgreeInv, Said
<1>. QED BY <1>1, <1>2

\* and so it holds for ever.
LEMMA Reach == Spec => []AgreeInv
BY AgreeInvInit, AgreeInvNext, PTL DEF Spec

\* For every file and every history of edits: once the menu or r-boot-cli has
\* saved the file, the readers that run before the menu is loaded read the
\* spinner and the logo that the menu reads.
THEOREM ReadersAgree == Spec => []EarlyReadersAgree
<1>1. AgreeInv => EarlyReadersAgree
  BY SaidAgree DEF AgreeInv, EarlyReadersAgree, Menu
<1>. QED BY <1>1, Reach, PTL

-----------------------------------------------------------------------------
(***************************************************************************)
(* A next-boot fast boot.                                                  *)
(***************************************************************************)

\* What the menu is depends on these lines of the header alone.
LEMMA MenuFrom ==
    ASSUME NEW f, NEW g, g.blocks = f.blocks,
           \A key \in {"default", "timeout", "spinner", "logo"} :
             With(g.header, {key}) = With(f.header, {key})
    PROVE  MenuOf(g) = MenuOf(f)
<1>1. /\ LastValue(g.header, {"timeout"}) = LastValue(f.header, {"timeout"})
      /\ LastValue(g.header, {"default"}) = LastValue(f.header, {"default"})
      /\ \A valid, default : /\ LastValid(g.header, "spinner", valid, default) = LastValid(f.header, "spinner", valid, default)
                             /\ LastValid(g.header, "logo", valid, default) = LastValid(f.header, "logo", valid, default)
  BY DEF LastValue, LastValid
<1>. QED BY <1>1 DEF MenuOf

\* disable_next_boot_fastboot turns fast boot off and changes nothing else.
LEMMA UsedOnce ==
    ASSUME NEW f \in AnyFile, NEW g, g = FastbootOff(f)
    PROVE  /\ EarlyFastboot(g) = "off"
           /\ Without(g.header, {"fastboot"}) = Without(f.header, {"fastboot"})
           /\ MenuOf(g) = MenuOf(f)
<1>1. /\ g \in AnyFile /\ g.blocks = f.blocks /\ EarlyFastboot(g) = "off"
      /\ \A keys : "fastboot" \notin keys => With(g.header, keys) = With(f.header, keys)
  BY FastbootOffIs
<1>2. With(g.header, AnyKey \ {"fastboot"}) = With(f.header, AnyKey \ {"fastboot"})
  BY <1>1
<1>3. g.header \in Seq(AnyLine) /\ f.header \in Seq(AnyLine)
  BY <1>1 DEF AnyFile
<1>4. Without(g.header, {"fastboot"}) = Without(f.header, {"fastboot"})
  BY <1>2, <1>3, WithoutIs
<1>5. \A key \in {"default", "timeout", "spinner", "logo"} : With(g.header, {key}) = With(f.header, {key})
  BY <1>1
<1>6. MenuOf(g) = MenuOf(f)
  BY <1>1, <1>5, MenuFrom
<1>. QED BY <1>1, <1>4, <1>6

\* For every file and every history of edits: a next-boot fast boot takes
\* itself back, and leaves the menu and the other lines of the header alone.
THEOREM NextBootIsOnce == Spec => NextBootOnce
<1>1. AgreeInv /\ [Next]_vars =>
        [edit'.op = "used" =>
           \E written \in {file'} :
             /\ EarlyFastboot(written) = "off"
             /\ Without(written.header, {"fastboot"}) = Without(file.header, {"fastboot"})
             /\ MenuOf(written) = Menu]_vars
  <2>. SUFFICES ASSUME AgreeInv, [Next]_vars, vars' # vars, edit'.op = "used"
                PROVE  /\ EarlyFastboot(file') = "off"
                       /\ Without(file'.header, {"fastboot"}) = Without(file.header, {"fastboot"})
                       /\ MenuOf(file') = Menu
    OBVIOUS
  <2>1. Edited(file, edit', file')
    BY NextEdits
  <2>. PICK f, g : f = file /\ g = file'
    OBVIOUS
  <2>2. f \in AnyFile /\ g = FastbootOff(f)
    BY <2>1 DEF Edited, AgreeInv
  <2>3. /\ EarlyFastboot(g) = "off"
        /\ Without(g.header, {"fastboot"}) = Without(f.header, {"fastboot"})
        /\ MenuOf(g) = MenuOf(f)
    BY <2>2, UsedOnce
  <2>. QED BY <2>3 DEF Menu
<1>. QED BY <1>1, Reach, PTL DEF Spec, NextBootOnce

-----------------------------------------------------------------------------
(***************************************************************************)
(* Saving from the menu.                                                   *)
(***************************************************************************)

\* What the blocks in a set become, in their order.
Picked(blocks, E, F) ==
    FlattenSeq([i \in DOMAIN blocks |-> IF blocks[i] \in E THEN <<F[blocks[i]]>> ELSE <<>>])
Same == [b \in Seq(AnyLine) |-> b]
Results(F) == {F[b] : b \in Seq(AnyLine)}
Mapped(q, F) == [n \in DOMAIN q |-> F[q[n]]]

\* Picked, of one block more.
LEMMA PickedAppend ==
    ASSUME NEW E, NEW F, NEW blocks \in Seq(Seq(AnyLine)), NEW b \in Seq(AnyLine)
    PROVE  /\ Picked(Append(blocks, b), E, F)
                = Picked(blocks, E, F) \o (IF b \in E THEN <<F[b]>> ELSE <<>>)
           /\ Picked(blocks, E, F) \in Seq(Results(F))
<1>. DEFINE part(x) == IF x \in E THEN <<F[x]>> ELSE <<>>
            parts == [i \in DOMAIN blocks |-> part(blocks[i])]
            longer == Append(blocks, b)
            T == Results(F)
<1>1. ASSUME NEW x \in Seq(AnyLine) PROVE part(x) \in Seq(T)
  <2>1. F[x] \in T
    BY DEF Results
  <2>. HIDE DEF T
  <2>2. <<F[x]>> \in Seq(T) /\ <<>> \in Seq(T)
    BY <2>1
  <2>. QED BY <2>2
<1>2. DOMAIN blocks = 1 .. Len(blocks) /\ Len(blocks) \in Nat
      /\ \A i \in 1 .. Len(blocks) : blocks[i] \in Seq(AnyLine)
  OBVIOUS
<1>3. Picked(blocks, E, F) = FlattenSeq(parts)
      /\ Picked(longer, E, F) = FlattenSeq([i \in DOMAIN longer |-> part(longer[i])])
  BY DEF Picked
<1>. HIDE DEF part, T
<1>4. parts \in Seq(Seq(T))
  BY <1>1, <1>2
<1>5. [i \in DOMAIN longer |-> part(longer[i])] = Append(parts, part(b))
  OBVIOUS
<1>. HIDE DEF parts, longer
<1>6. FlattenSeq(Append(parts, part(b))) = FlattenSeq(parts) \o part(b)
  BY <1>1, <1>4, FlattenAppend
<1>7. FlattenSeq(parts) \in Seq(T)
  BY <1>4, FlattenElements
<1>. QED BY <1>3, <1>5, <1>6, <1>7 DEF part, longer, T

\* Picking blocks and then changing each is picking changed blocks.
LEMMA PickedIs ==
    ASSUME NEW E, NEW F
    PROVE  \A blocks \in Seq(Seq(AnyLine)) :
             Picked(blocks, E, F) = Mapped(Picked(blocks, E, Same), F)
<1>. DEFINE Right(blocks) == Picked(blocks, E, F) = Mapped(Picked(blocks, E, Same), F)
            P == {blocks \in Seq(Seq(AnyLine)) : Right(blocks)}
<1>1. <<>> \in P
  <2>1. ASSUME NEW G PROVE Picked(<<>>, E, G) = <<>>
    <3>1. [i \in DOMAIN <<>> |-> IF <<>>[i] \in E THEN <<G[<<>>[i]]>> ELSE <<>>] = <<>>
      OBVIOUS
    <3>. QED BY <3>1, FlattenEmpty DEF Picked
  <2>2. Picked(<<>>, E, F) = <<>> /\ Picked(<<>>, E, Same) = <<>>
    BY <2>1
  <2>3. Mapped(<<>>, F) = <<>>
    BY DEF Mapped
  <2>4. Right(<<>>)
    BY <2>2, <2>3
  <2>. HIDE DEF Right
  <2>. QED BY <2>4
<1>2. ASSUME NEW c \in P, NEW b \in Seq(AnyLine) PROVE Append(c, b) \in P
  <2>1. c \in Seq(Seq(AnyLine)) /\ Right(c)
    BY Zenon
  <2>2. PICK p, q, p1, q1 : /\ p = Picked(c, E, F) /\ q = Picked(c, E, Same)
                            /\ p1 = Picked(Append(c, b), E, F) /\ q1 = Picked(Append(c, b), E, Same)
    OBVIOUS
  <2>3. /\ p1 = p \o (IF b \in E THEN <<F[b]>> ELSE <<>>)
        /\ q1 = q \o (IF b \in E THEN <<Same[b]>> ELSE <<>>)
        /\ p \in Seq(Results(F)) /\ q \in Seq(Results(Same))
    <3>1. c \in Seq(Seq(AnyLine))
      BY <2>1
    <3>2. ASSUME NEW G
          PROVE  /\ Picked(Append(c, b), E, G) = Picked(c, E, G) \o (IF b \in E THEN <<G[b]>> ELSE <<>>)
                 /\ Picked(c, E, G) \in Seq(Results(G))
      BY <3>1, PickedAppend, Zenon
    <3>. QED BY <2>2, <3>2
  <2>4. p = [n \in DOMAIN q |-> F[q[n]]]
    BY <2>1, <2>2 DEF Mapped
  <2>5. PICK T, S : p \in Seq(T) /\ q \in Seq(S)
    BY <2>3
  <2>6. CASE b \in E
    <3>1. q1 = Append(q, b)
      <4>1. Same[b] = b
        BY DEF Same
      <4>. QED BY <2>3, <2>5, <2>6, <4>1
    <3>2. p1 = Append(p, F[b])
      BY <2>3, <2>5, <2>6
    <3>3. Append(p, F[b]) = [n \in DOMAIN Append(q, b) |-> F[Append(q, b)[n]]]
      BY <2>4, <2>5
    <3>4. Right(Append(c, b))
      BY <2>2, <3>1, <3>2, <3>3 DEF Mapped
    <3>. QED BY <2>1, <3>4
  <2>7. CASE b \notin E
    <3>1. q1 = q /\ p1 = p
      BY <2>3, <2>5, <2>7
    <3>2. Right(Append(c, b))
      BY <2>2, <2>4, <3>1 DEF Mapped
    <3>. QED BY <2>1, <3>2
  <2>. QED BY <2>6, <2>7
<1>. HIDE DEF P
<1>3. P = Seq(Seq(AnyLine))
  <2>1. P \in SUBSET Seq(Seq(AnyLine))
    BY DEF P
  <2>. QED BY <1>1, <1>2, <2>1, SeqInduction
<1>. QED BY <1>3, Zenon DEF P

\* The blocks of the menu, in their order.
Shown == {b \in Seq(AnyLine) : IsEntry(b)}
Kept(blocks) == Picked(blocks, Shown, Same)

\* The menu's entries are those of the blocks it keeps, in their order.
LEMMA KeptIs ==
    ASSUME NEW blocks \in Seq(Seq(AnyLine))
    PROVE  /\ Kept(blocks) \in Seq(Seq(AnyLine))
           /\ Kept(blocks) = FlattenSeq([i \in DOMAIN blocks |->
                                IF IsEntry(blocks[i]) THEN <<blocks[i]>> ELSE <<>>])
           /\ EntriesOf(blocks) = [n \in DOMAIN Kept(blocks) |-> EntryOf(Kept(blocks)[n])]
<1>. DEFINE F == [b \in Seq(AnyLine) |-> EntryOf(b)]
<1>1. \A i \in DOMAIN blocks : blocks[i] \in Seq(AnyLine)
  OBVIOUS
<1>2. Kept(blocks) = FlattenSeq([i \in DOMAIN blocks |-> IF IsEntry(blocks[i]) THEN <<blocks[i]>> ELSE <<>>])
  <2>1. \A i \in DOMAIN blocks : /\ blocks[i] \in Shown <=> IsEntry(blocks[i])
                                 /\ Same[blocks[i]] = blocks[i]
    BY <1>1 DEF Shown, Same
  <2>2. [i \in DOMAIN blocks |-> IF blocks[i] \in Shown THEN <<Same[blocks[i]]>> ELSE <<>>]
          = [i \in DOMAIN blocks |-> IF IsEntry(blocks[i]) THEN <<blocks[i]>> ELSE <<>>]
    BY <2>1, Zenon
  <2>. QED BY <2>2, Zenon DEF Kept, Picked
<1>3. Kept(blocks) \in Seq(Seq(AnyLine))
  <2>1. Kept(blocks) \in Seq(Results(Same))
    <3>1. <<>> \in Seq(AnyLine)
      OBVIOUS
    <3>. QED BY <3>1, PickedAppend DEF Kept
  <2>2. Results(Same) = Seq(AnyLine)
    BY DEF Same, Results
  <2>. QED BY <2>1, <2>2
<1>4. EntriesOf(blocks) = Picked(blocks, Shown, F)
  <2>1. \A i \in DOMAIN blocks : /\ blocks[i] \in Shown <=> IsEntry(blocks[i])
                                 /\ F[blocks[i]] = EntryOf(blocks[i])
    BY <1>1 DEF Shown
  <2>. HIDE DEF F
  <2>2. [i \in DOMAIN blocks |-> IF blocks[i] \in Shown THEN <<F[blocks[i]]>> ELSE <<>>]
          = [i \in DOMAIN blocks |-> IF IsEntry(blocks[i]) THEN <<EntryOf(blocks[i])>> ELSE <<>>]
    BY <2>1, Zenon
  <2>. QED BY <2>2, Zenon DEF EntriesOf, Picked
<1>5. Picked(blocks, Shown, F) = Mapped(Kept(blocks), F)
  <2>. HIDE DEF F
  <2>. QED BY PickedIs DEF Kept
<1>6. \A n \in DOMAIN Kept(blocks) : F[Kept(blocks)[n]] = EntryOf(Kept(blocks)[n])
  <2>. PICK k : k = Kept(blocks)
    OBVIOUS
  <2>1. \A n \in DOMAIN k : k[n] \in Seq(AnyLine)
    BY <1>3
  <2>. QED BY <2>1
<1>. HIDE DEF F
<1>7. Mapped(Kept(blocks), F) = [n \in DOMAIN Kept(blocks) |-> EntryOf(Kept(blocks)[n])]
  BY <1>6 DEF Mapped
<1>. QED BY <1>2, <1>3, <1>4, <1>5, <1>7

\* append_entry changes nothing the menu reads of a block but the image, and
\* that in a block with the id alone.
LEMMA EntrySaved ==
    ASSUME NEW lines \in Seq(AnyLine), NEW id, NEW image \in Images \cup {None},
           NEW new, new = AppendEntry(lines, id, image)
    PROVE  /\ IsEntry(new) <=> IsEntry(lines)
           /\ EntryOf(new) = IF Selected(lines, id) THEN [EntryOf(lines) EXCEPT !.image = image]
                             ELSE EntryOf(lines)
<1>1. \A keys : "image" \notin keys => With(new, keys) = With(lines, keys)
  BY AppendIs
<1>2. /\ With(new, {"id"}) = With(lines, {"id"}) /\ With(new, {"title"}) = With(lines, {"title"})
      /\ With(new, {"linux", "kernel", "efi"}) = With(lines, {"linux", "kernel", "efi"})
      /\ With(new, {"kind", "efi"}) = With(lines, {"kind", "efi"})
      /\ With(new, {"initrd"}) = With(lines, {"initrd"}) /\ With(new, {"options"}) = With(lines, {"options"})
  BY <1>1
<1>3. /\ LastValue(new, {"id"}) = LastValue(lines, {"id"})
      /\ LastValue(new, {"title"}) = LastValue(lines, {"title"})
      /\ RawKernel(new) = RawKernel(lines) /\ RawKind(new) = RawKind(lines)
      /\ LastValue(new, {"options"}) = LastValue(lines, {"options"})
  BY <1>2 DEF LastValue, RawKernel, RawKind
<1>4. LastValue(new, {"image"}) = IF Selected(lines, id) THEN image ELSE LastValue(lines, {"image"})
  BY AppendIs
<1>5. Parsed(image, Images) = image
  BY DEF Parsed
<1>6. IsEntry(new) <=> IsEntry(lines)
  BY <1>3 DEF IsEntry
<1>7. CASE Selected(lines, id)
  BY <1>2, <1>3, <1>4, <1>5, <1>6, <1>7 DEF EntryOf
<1>8. CASE ~Selected(lines, id)
  BY <1>2, <1>3, <1>4, <1>6, <1>8 DEF EntryOf
<1>. QED BY <1>7, <1>8

\* The entries after a save are those before, with the image of each block
\* that has the id.
Appended(blocks, id, image, new) == new = [i \in DOMAIN blocks |-> AppendEntry(blocks[i], id, image)]
Changed(kept, id, image, entries) ==
    entries = [n \in DOMAIN kept |->
        IF Selected(kept[n], id) THEN [EntryOf(kept[n]) EXCEPT !.image = image] ELSE EntryOf(kept[n])]

\* So it is for all the blocks together.
LEMMA EntriesSaved ==
    ASSUME NEW blocks \in Seq(Seq(AnyLine)), NEW id, NEW image \in Images \cup {None},
           NEW new, Appended(blocks, id, image, new)
    PROVE  Changed(Kept(blocks), id, image, EntriesOf(new))
<1>. DEFINE After(b) == IF Selected(b, id) THEN [EntryOf(b) EXCEPT !.image = image] ELSE EntryOf(b)
            F == [b \in Seq(AnyLine) |-> After(b)]
<1>1. \A i \in DOMAIN blocks : blocks[i] \in Seq(AnyLine)
  OBVIOUS
<1>2. DOMAIN new = DOMAIN blocks /\ \A i \in DOMAIN blocks : new[i] = AppendEntry(blocks[i], id, image)
  BY DEF Appended
<1>3. ASSUME NEW i \in DOMAIN blocks
      PROVE  (IF IsEntry(new[i]) THEN <<EntryOf(new[i])>> ELSE <<>>)
               = IF blocks[i] \in Shown THEN <<F[blocks[i]]>> ELSE <<>>
  <2>1. (IsEntry(new[i]) <=> IsEntry(blocks[i])) /\ EntryOf(new[i]) = After(blocks[i])
    BY <1>1, <1>2, EntrySaved
  <2>2. (blocks[i] \in Shown <=> IsEntry(blocks[i])) /\ F[blocks[i]] = After(blocks[i])
    BY <1>1 DEF Shown
  <2>. HIDE DEF F, After
  <2>. QED BY <2>1, <2>2
<1>4. EntriesOf(new) = Picked(blocks, Shown, F)
  <2>. HIDE DEF F
  <2>1. [i \in DOMAIN new |-> IF IsEntry(new[i]) THEN <<EntryOf(new[i])>> ELSE <<>>]
          = [i \in DOMAIN blocks |-> IF blocks[i] \in Shown THEN <<F[blocks[i]]>> ELSE <<>>]
    BY <1>2, <1>3
  <2>. QED BY <2>1, Zenon DEF EntriesOf, Picked
<1>5. Picked(blocks, Shown, F) = Mapped(Kept(blocks), F)
  <2>. HIDE DEF F
  <2>. QED BY PickedIs DEF Kept
<1>6. \A n \in DOMAIN Kept(blocks) : F[Kept(blocks)[n]] = After(Kept(blocks)[n])
  <2>. PICK k : k = Kept(blocks)
    OBVIOUS
  <2>1. \A n \in DOMAIN k : k[n] \in Seq(AnyLine)
    <3>1. k \in Seq(Seq(AnyLine))
      BY KeptIs
    <3>. QED BY <3>1
  <2>. HIDE DEF After
  <2>. QED BY <2>1
<1>. HIDE DEF F, After
<1>7. Mapped(Kept(blocks), F) = [n \in DOMAIN Kept(blocks) |-> After(Kept(blocks)[n])]
  BY <1>6 DEF Mapped
<1>. QED BY <1>4, <1>5, <1>7 DEF After, Changed

IndexIn(entries, default) ==
    LET i == SelectInSeq(entries, LAMBDA e : IsDefault(e, default))
    IN  IF default = None \/ i = 0 THEN 1 ELSE i

\* Lists of entries that differ in images alone.
Alike(p, q) ==
    /\ Len(q) = Len(p) /\ (q = <<>> <=> p = <<>>)
    /\ \A i \in 1 .. Len(p) :
         /\ q[i].id = p[i].id /\ q[i].title = p[i].title
         /\ [q[i] EXCEPT !.image = None] = [p[i] EXCEPT !.image = None]

\* They boot the same entry unattended.
LEMMA UnattendedSame ==
    ASSUME NEW a, NEW b, NEW S, a.entries \in Seq(S), Alike(a.entries, b.entries), b.default = a.default
    PROVE  Unattended(b) = Unattended(a)
<1>. PICK s, t, d : s = a.entries /\ t = b.entries /\ d = a.default
  OBVIOUS
<1>. DEFINE I == {i \in 1 .. Len(s) : IsDefault(s[i], d)}
            J == {i \in 1 .. Len(t) : IsDefault(t[i], d)}
            least == IF I # {} THEN Min(I) ELSE 0
<1>0. b.default = d /\ b.entries = t /\ a.default = d /\ a.entries = s
  OBVIOUS
<1>1. s \in Seq(S) /\ Len(s) \in Nat /\ Len(t) = Len(s)
      /\ (t = <<>> <=> s = <<>>)
      /\ \A i \in 1 .. Len(s) : /\ t[i].id = s[i].id /\ t[i].title = s[i].title
                                /\ [t[i] EXCEPT !.image = None] = [s[i] EXCEPT !.image = None]
  BY DEF Alike
<1>2. I = J
  BY <1>1 DEF IsDefault
<1>3. DefaultIndex(a) = IF d = None \/ least = 0 THEN 1 ELSE least
  BY DEF DefaultIndex, SelectInSeq
<1>4. DefaultIndex(b) = IF d = None \/ least = 0 THEN 1 ELSE least
  <2>1. IndexIn(t, d) = IF d = None \/ (IF J # {} THEN Min(J) ELSE 0) = 0 THEN 1
                        ELSE IF J # {} THEN Min(J) ELSE 0
    BY DEF IndexIn, SelectInSeq
  <2>2. DefaultIndex(b) = IndexIn(b.entries, b.default)
    BY DEF DefaultIndex, IndexIn
  <2>. HIDE DEF I, J
  <2>. QED BY <1>0, <1>2, <2>1, <2>2
<1>5. least = 0 \/ least \in 1 .. Len(s)
  <2>1. I \in SUBSET Nat /\ I \subseteq 1 .. Len(s)
    BY <1>1
  <2>. HIDE DEF I
  <2>. QED BY <2>1, LeastIs
<1>. HIDE DEF least
<1>6. s # <<>> => Len(s) >= 1
  BY <1>1
<1>7. s # <<>> => DefaultIndex(a) \in 1 .. Len(s) /\ DefaultIndex(b) = DefaultIndex(a)
  BY <1>1, <1>3, <1>4, <1>5, <1>6
<1>. QED BY <1>0, <1>1, <1>7 DEF Unattended

\* The menu reads the settings that were saved, and the default and fast boot
\* of before.
LEMMA SavedMenu ==
    ASSUME NEW f \in AnyFile, NEW screen \in Screens, NEW id, NEW g, Saves(f, screen, id, g)
    PROVE  /\ MenuOf(g).timeout = screen.timeout /\ MenuOf(g).spinner = screen.spinner
           /\ MenuOf(g).logo = screen.logo /\ MenuOf(g).default = MenuOf(f).default
           /\ EarlyFastboot(g) = EarlyFastboot(f)
<1>1. /\ g \in AnyFile
      /\ With(g.header, {"timeout"}) = OptLine("timeout", screen.timeout)
      /\ With(g.header, {"spinner"}) = OptLine("spinner", screen.spinner)
      /\ With(g.header, {"logo"}) = OptLine("logo", screen.logo)
      /\ With(g.header, {"default"}) = With(f.header, {"default"})
      /\ With(g.header, {"fastboot"}) = With(f.header, {"fastboot"})
  <2>1. SavedAs(f, screen, id, g)
    BY SavedIs
  <2>. QED BY <2>1 DEF SavedAs
<1>2. /\ screen.timeout \in U64 /\ screen.timeout \in AnyValue
      /\ screen.spinner \in SpinnerModes /\ screen.logo \in Bools
  BY ScreensAre
<1>3. None \notin SpinnerModes /\ None \notin Bools \cup QuotedBools /\ screen.timeout # None
  BY <1>2, ValuesAre DEF None, SpinnerModes, Bools, QuotedBools
<1>4. MenuOf(g).timeout = screen.timeout
  <2>1. LastValue(g.header, {"timeout"}) = screen.timeout
    BY <1>1, LastValueOf
  <2>. QED BY <1>2, <1>3, <2>1 DEF MenuOf, Parsed, OrElse
<1>5. MenuOf(g).spinner = screen.spinner
  <2>1. LastValid(g.header, "spinner", SpinnerModes, "graphical") = screen.spinner
    BY <1>1, <1>2, <1>3, ValidOf, SMTT(30)
  <2>. QED BY <2>1 DEF MenuOf
<1>6. MenuOf(g).logo = screen.logo
  <2>1. LastValid(g.header, "logo", Bools \cup QuotedBools, "true") = screen.logo
    BY <1>1, <1>2, <1>3, ValidOf
  <2>2. Unquoted(screen.logo) = screen.logo
    BY <1>2 DEF Unquoted, Bools
  <2>. QED BY <2>1, <2>2 DEF MenuOf
<1>7. MenuOf(g).default = MenuOf(f).default
  BY <1>1 DEF MenuOf, LastValue
<1>8. EarlyFastboot(g) = EarlyFastboot(f)
  BY <1>1 DEF EarlyFastboot, FirstValid
<1>. QED BY <1>4, <1>5, <1>6, <1>7, <1>8

EntryFields == {"id", "title", "kind", "kernel", "initrds", "options", "image"}
AreEntries(seq) == \E S : seq \in Seq(S) /\ \A x \in S : DOMAIN x = EntryFields

Means(f, id, meant) == meant = {i \in DOMAIN Kept(f.blocks) : Selected(Kept(f.blocks)[i], id)}

\* Entry by entry, with the entries of other boot loaders behind.
LEMMA SavedEntries ==
    ASSUME NEW f \in AnyFile, NEW screen \in Screens, NEW id, NEW g, Saves(f, screen, id, g),
           NEW meant, Means(f, id, meant)
    PROVE  /\ MenuOf(g).entries = [i \in DOMAIN MenuOf(f).entries |->
                IF i \in meant THEN [MenuOf(f).entries[i] EXCEPT !.image = screen.image]
                ELSE MenuOf(f).entries[i]]
           /\ AreEntries(MenuOf(f).entries)
<1>. PICK k, m : k = Kept(f.blocks) /\ m = screen.image
  OBVIOUS
<1>1. f.blocks \in Seq(Seq(AnyLine)) /\ m \in Images \cup {None}
  BY ScreensAre DEF AnyFile
<1>2. k \in Seq(Seq(AnyLine)) /\ EntriesOf(f.blocks) = [n \in DOMAIN k |-> EntryOf(k[n])]
  BY <1>1, KeptIs
<1>3. EntriesOf(g.blocks) = [n \in DOMAIN k |-> IF Selected(k[n], id)
                               THEN [EntryOf(k[n]) EXCEPT !.image = m] ELSE EntryOf(k[n])]
  <2>1. SavedAs(f, screen, id, g)
    BY SavedIs
  <2>2. g.blocks = [i \in DOMAIN f.blocks |-> AppendEntry(f.blocks[i], id, m)]
    BY <2>1 DEF SavedAs
  <2>3. Changed(k, id, m, EntriesOf(g.blocks))
    BY <1>1, <2>2, EntriesSaved DEF Appended
  <2>. QED BY <2>3 DEF Changed
<1>. PICK a, b, o : a = EntriesOf(f.blocks) /\ b = EntriesOf(g.blocks) /\ o = OtherEntries
  OBVIOUS
<1>. DEFINE S == {a[n] : n \in DOMAIN a} \cup {b[n] : n \in DOMAIN b} \cup Others
<1>4. DOMAIN a = DOMAIN k /\ DOMAIN b = DOMAIN k /\ DOMAIN k = 1 .. Len(k) /\ Len(k) \in Nat
  BY <1>2, <1>3
<1>5. \A n \in DOMAIN k : b[n] = IF n \in meant THEN [a[n] EXCEPT !.image = m] ELSE a[n]
  BY <1>2, <1>3 DEF Means
<1>6. a \in Seq(S) /\ b \in Seq(S) /\ o \in Seq(S)
  <2>1. \A n \in 1 .. Len(k) : a[n] \in S /\ b[n] \in S
    BY <1>4
  <2>2. Others \subseteq S
    OBVIOUS
  <2>3. a = [n \in 1 .. Len(k) |-> a[n]] /\ b = [n \in 1 .. Len(k) |-> b[n]]
    BY <1>2, <1>3, <1>4
  <2>4. o \in Seq(Others)
    BY EditsAssumption
  <2>. HIDE DEF S
  <2>5. a \in Seq(S) /\ b \in Seq(S)
    BY <1>4, <2>1, <2>3
  <2>6. o \in Seq(S)
    BY <2>2, <2>4
  <2>. QED BY <2>5, <2>6
<1>13. \A x \in S : DOMAIN x = EntryFields
  <2>1. \A n \in DOMAIN k : DOMAIN a[n] = EntryFields
    BY <1>2 DEF EntryOf, EntryFields
  <2>2. \A n \in DOMAIN k : DOMAIN b[n] = EntryFields
    BY <1>5, <2>1
  <2>3. \A x \in Others : DOMAIN x = EntryFields
    BY DEF Others, EntryFields
  <2>. QED BY <1>4, <2>1, <2>2, <2>3
<1>7. MenuOf(f).entries = a \o o /\ MenuOf(g).entries = b \o o
  BY DEF MenuOf
<1>8. meant \subseteq DOMAIN k
  BY DEF Means
<1>9. Len(a) = Len(k) /\ Len(b) = Len(k)
  BY <1>4, <1>6
<1>. HIDE DEF S
<1>. PICK p, q : p = a \o o /\ q = b \o o
  OBVIOUS
<1>10. p \in Seq(S) /\ q \in Seq(S) /\ Len(p) = Len(k) + Len(o) /\ Len(q) = Len(k) + Len(o)
       /\ Len(o) \in Nat
  <2>1. p \in Seq(S) /\ Len(p) = Len(a) + Len(o)
    BY <1>6
  <2>2. q \in Seq(S) /\ Len(q) = Len(b) + Len(o)
    BY <1>6
  <2>3. Len(o) \in Nat
    BY <1>6
  <2>. QED BY <1>9, <2>1, <2>2, <2>3
<1>11. ASSUME NEW i \in 1 .. Len(p)
       PROVE  q[i] = IF i \in meant THEN [p[i] EXCEPT !.image = m] ELSE p[i]
  <2>1. CASE i \in DOMAIN k
    <3>1. p[i] = a[i] /\ q[i] = b[i]
      BY <1>4, <1>6, <1>9, <2>1
    <3>. QED BY <1>5, <2>1, <3>1
  <2>2. CASE i \notin DOMAIN k
    <3>1. p[i] = o[i - Len(k)] /\ q[i] = o[i - Len(k)]
      BY <1>4, <1>6, <1>9, <1>10, <2>2
    <3>. QED BY <1>8, <2>2, <3>1
  <2>. QED BY <2>1, <2>2
<1>12. q = [i \in DOMAIN p |-> IF i \in meant THEN [p[i] EXCEPT !.image = m] ELSE p[i]]
  <2>1. DOMAIN p = 1 .. Len(p) /\ DOMAIN q = 1 .. Len(p)
    BY <1>10
  <2>2. q = [i \in 1 .. Len(p) |-> q[i]]
    BY <1>10, <2>1
  <2>. QED BY <1>11, <2>1, <2>2
<1>. QED BY <1>7, <1>10, <1>12, <1>13 DEF AreEntries

Exactly(f, g, screen, meant, old, new) ==
    /\ <<new.timeout, new.spinner, new.logo>> = <<screen.timeout, screen.spinner, screen.logo>>
    /\ new.entries = [i \in DOMAIN old.entries |->
         IF i \in meant THEN [old.entries[i] EXCEPT !.image = screen.image] ELSE old.entries[i]]
    /\ Unattended(new) = Unattended(old)
    /\ EarlyFastboot(g) = EarlyFastboot(f)

\* Saving changes what was on the screen and nothing else.
LEMMA SavedExactly ==
    ASSUME NEW f \in AnyFile, NEW screen \in Screens, NEW id, NEW g, Saves(f, screen, id, g),
           NEW meant, Means(f, id, meant), NEW old, old = MenuOf(f), NEW new, new = MenuOf(g)
    PROVE  Exactly(f, g, screen, meant, old, new)
<1>1. /\ new.timeout = screen.timeout /\ new.spinner = screen.spinner /\ new.logo = screen.logo
      /\ new.default = old.default /\ EarlyFastboot(g) = EarlyFastboot(f)
  BY SavedMenu
<1>2. /\ new.entries = [i \in DOMAIN old.entries |->
           IF i \in meant THEN [old.entries[i] EXCEPT !.image = screen.image] ELSE old.entries[i]]
      /\ AreEntries(old.entries)
  BY SavedEntries
<1>3. Unattended(new) = Unattended(old)
  <2>. PICK S : old.entries \in Seq(S) /\ \A x \in S : DOMAIN x = EntryFields
    BY <1>2 DEF AreEntries
  <2>. PICK p, q, m : p = old.entries /\ q = new.entries /\ m = screen.image
    OBVIOUS
  <2>1. p \in Seq(S) /\ q = [i \in DOMAIN p |-> IF i \in meant THEN [p[i] EXCEPT !.image = m] ELSE p[i]]
    BY <1>2
  <2>2. DOMAIN p = 1 .. Len(p) /\ Len(p) \in Nat
    BY <2>1
  <2>3. DOMAIN q = 1 .. Len(p) /\ Len(q) = Len(p) /\ (q = <<>> <=> p = <<>>)
    <3>1. DOMAIN q = 1 .. Len(p)
      BY <2>1, <2>2
    <3>2. Len(q) = Len(p)
      BY <2>1, <2>2
    <3>3. q \in Seq({q[i] : i \in 1 .. Len(p)})
      <4>1. q = [i \in 1 .. Len(p) |-> q[i]]
        BY <2>1, <2>2
      <4>. QED BY <2>2, <4>1
    <3>. QED BY <2>1, <3>1, <3>2, <3>3
  <2>4. ASSUME NEW i \in 1 .. Len(p)
        PROVE  /\ q[i].id = p[i].id /\ q[i].title = p[i].title
               /\ [q[i] EXCEPT !.image = None] = [p[i] EXCEPT !.image = None]
    <3>1. q[i] = IF i \in meant THEN [p[i] EXCEPT !.image = m] ELSE p[i]
      BY <2>1, <2>2
    <3>. PICK x, y : x = p[i] /\ y = q[i]
      OBVIOUS
    <3>2. (y = [x EXCEPT !.image = m] \/ y = x) /\ DOMAIN x = EntryFields
      BY <2>1, <2>2, <3>1
    <3>3. y.id = x.id /\ y.title = x.title /\ [y EXCEPT !.image = None] = [x EXCEPT !.image = None]
      BY <3>2 DEF EntryFields
    <3>. QED BY <3>3
  <2>5. Alike(p, q)
    BY <2>3, <2>4 DEF Alike
  <2>. QED BY <1>1, <2>1, <2>5, UnattendedSame
<1>. QED BY <1>1, <1>2, <1>3 DEF Exactly

\* For every file and every history of edits: saving from the menu changes the
\* settings on the screen, the image of the entries with the selected id, and
\* nothing else that the next boot reads.
THEOREM MenuSaveIsExact == Spec => MenuSaveExact
<1>. DEFINE Exact ==
              \E written \in {file'} : \E old \in {Menu}, new \in {MenuOf(written)} :
              \E meant \in {Identified(old.entries[edit'.entry].id)} :
                LET screen == edit'.screen
                    Saved(e, i) == IF i \in meant THEN [e EXCEPT !.image = screen.image] ELSE e
                IN  /\ <<new.timeout, new.spinner, new.logo>>
                            = <<screen.timeout, screen.spinner, screen.logo>>
                    /\ new.entries = [i \in DOMAIN old.entries |-> Saved(old.entries[i], i)]
                    /\ Unattended(new) = Unattended(old)
                    /\ EarlyFastboot(written) = EarlyFastboot(file)
<1>1. AgreeInv /\ [Next]_vars => [edit'.op = "save" => Exact]_vars
  <2>. SUFFICES ASSUME AgreeInv, [Next]_vars, vars' # vars, edit'.op = "save" PROVE Exact
    OBVIOUS
  <2>1. Edited(file, edit', file')
    BY NextEdits
  <2>. PICK f, e, g : f = file /\ e = edit' /\ g = file'
    OBVIOUS
  <2>. PICK i \in DOMAIN MenuOf(f).entries :
         e.entry = i /\ e.screen \in Screens /\ Saves(f, e.screen, MenuOf(f).entries[i].id, g)
    BY <2>1 DEF Edited
  <2>. PICK screen, id, meant, old, new :
         /\ screen = e.screen /\ id = MenuOf(f).entries[i].id /\ old = MenuOf(f) /\ new = MenuOf(g)
         /\ Means(f, id, meant)
    BY DEF Means
  <2>2. f \in AnyFile /\ f.blocks \in Seq(Seq(AnyLine))
    BY DEF AgreeInv, AnyFile
  <2>3. Identified(id) = meant
    <3>1. Kept(f.blocks) = FlattenSeq([n \in DOMAIN f.blocks |->
                              IF IsEntry(f.blocks[n]) THEN <<f.blocks[n]>> ELSE <<>>])
      BY <2>2, KeptIs
    <3>. QED BY <3>1 DEF Identified, Selected, Means
  <2>4. screen \in Screens /\ Saves(f, screen, id, g)
    OBVIOUS
  <2>5. Exactly(f, g, screen, meant, old, new)
    BY <2>2, <2>4, SavedExactly
  <2>6. old = Menu /\ new = MenuOf(file') /\ Identified(old.entries[edit'.entry].id) = meant
    BY <2>3 DEF Menu
  <2>. QED BY <2>5, <2>6 DEF Exactly
<1>. QED BY <1>1, Reach, PTL DEF Spec, MenuSaveExact

-----------------------------------------------------------------------------
(***************************************************************************)
(* r-boot-cli reads a file and writes it again.                            *)
(***************************************************************************)
\* The elements of a sequence with one more.
LEMMA AppendAt ==
    ASSUME NEW S, NEW c \in Seq(S), NEW x \in S
    PROVE  /\ Append(c, x) \in Seq(S) /\ DOMAIN Append(c, x) = 1 .. Len(c) + 1 /\ Len(c) \in Nat
           /\ DOMAIN c = 1 .. Len(c) /\ Append(c, x)[Len(c) + 1] = x
           /\ \A i \in 1 .. Len(c) : Append(c, x)[i] = c[i]
OBVIOUS

\* The last of one is that one.
LEMMA LastOne == \A x : <<x>> # <<>> /\ Last(<<x>>) = x
BY DEF Last

\* A key that is there once, or not at all.
LEMMA OnceWith ==
    ASSUME NEW key, key # "initrd"
    PROVE  \A lines \in Seq(AnyLine) : Once(lines) =>
             With(lines, {key}) = OptLine(key, LastValue(lines, {key}))
<1>. DEFINE Right(c) == Once(c) => With(c, {key}) = OptLine(key, LastValue(c, {key}))
            P == {c \in Seq(AnyLine) : Right(c)}
<1>1. <<>> \in P
  <2>1. With(<<>>, {key}) = <<>>
    BY WithEmpty
  <2>2. Right(<<>>)
    BY <2>1 DEF LastValue, OptLine
  <2>. HIDE DEF Right
  <2>. QED BY <2>2
<1>2. ASSUME NEW c \in P, NEW x \in AnyLine PROVE Append(c, x) \in P
  <2>1. c \in Seq(AnyLine) /\ Right(c)
    BY Zenon
  <2>. PICK l : l = Append(c, x)
    OBVIOUS
  <2>2. /\ l \in Seq(AnyLine) /\ DOMAIN l = 1 .. Len(c) + 1 /\ Len(c) \in Nat /\ DOMAIN c = 1 .. Len(c)
        /\ l[Len(c) + 1] = x /\ \A i \in 1 .. Len(c) : l[i] = c[i]
    BY <2>1, AppendAt
  <2>3. With(l, {key}) = With(c, {key}) \o Only(x, {key}) /\ With(c, {key}) \in Seq(AnyLine)
    BY <2>1, WithAppend, WithParts
  <2>. PICK w : w = With(c, {key})
    OBVIOUS
  <2>6. w \o <<>> = w /\ <<>> \o <<x>> = <<x>>
    BY <2>3
  <2>4. ASSUME Once(l) PROVE With(l, {key}) = OptLine(key, LastValue(l, {key}))
    <3>1. Once(c)
      BY <2>2, <2>4 DEF Once
    <3>2. CASE x.key # key
      <4>1. With(l, {key}) = With(c, {key})
        <5>1. Only(x, {key}) = <<>>
          BY <3>2 DEF Only
        <5>2. With(l, {key}) = w \o <<>>
          BY <2>3, <5>1
        <5>. QED BY <2>6, <5>2
      <4>2. LastValue(l, {key}) = LastValue(c, {key})
        BY <4>1 DEF LastValue
      <4>. QED BY <2>1, <3>1, <4>1, <4>2
    <3>3. CASE x.key = key
      <4>1. ASSUME NEW i \in DOMAIN c PROVE c[i].key \notin {key}
        BY <2>2, <2>4, <3>3 DEF Once
      <4>2. With(c, {key}) = <<>>
        BY <2>1, <4>1, WithNoSuch
      <4>3. With(l, {key}) = <<x>>
        <5>1. Only(x, {key}) = <<x>>
          BY <3>3 DEF Only
        <5>2. With(l, {key}) = <<>> \o <<x>>
          <6>. PICK o : o = Only(x, {key})
            OBVIOUS
          <6>. QED BY <2>3, <4>2, <5>1
        <5>. QED BY <2>6, <5>2
      <4>4. LastValue(l, {key}) = x.value
        <5>. PICK z : z = With(l, {key})
          OBVIOUS
        <5>1. z # <<>> /\ Last(z) = x
          BY <4>3, LastOne
        <5>. QED BY <5>1 DEF LastValue
      <4>5. x = Line(key, x.value) /\ x.value # None
        BY <3>3, ValuesAre DEF AnyLine, Line
      <4>. QED BY <4>3, <4>4, <4>5 DEF OptLine
    <3>. QED BY <3>2, <3>3
  <2>5. Right(Append(c, x))
    BY <2>4
  <2>. HIDE DEF Right
  <2>. QED BY <2>2, <2>5
<1>. HIDE DEF P
<1>3. P = Seq(AnyLine)
  <2>1. P \in SUBSET Seq(AnyLine)
    BY DEF P
  <2>. QED BY <1>1, <1>2, <2>1, SeqInduction
<1>. QED BY <1>3, Zenon DEF P

\* A key that is there has a value, one that is not has none.
LEMMA HasIs ==
    ASSUME NEW lines \in Seq(AnyLine), NEW key
    PROVE  /\ Has(lines, key) => LastValue(lines, {key}) \in AnyValue
           /\ ~Has(lines, key) => With(lines, {key}) = <<>> /\ LastValue(lines, {key}) = None
<1>1. ~Has(lines, key) => With(lines, {key}) = <<>>
  <2>1. ~Has(lines, key) => \A i \in DOMAIN lines : lines[i].key \notin {key}
    BY DEF Has
  <2>. QED BY <2>1, WithNoSuch
<1>2. ASSUME Has(lines, key) PROVE LastValue(lines, {key}) \in AnyValue
  <2>1. PICK i \in DOMAIN lines : lines[i].key = key
    BY <1>2 DEF Has
  <2>. PICK parts : parts = [n \in DOMAIN lines |-> Only(lines[n], {key})]
    OBVIOUS
  <2>2. parts \in Seq(Seq(AnyLine)) /\ With(lines, {key}) = FlattenSeq(parts)
        /\ With(lines, {key}) \in Seq(AnyLine)
    BY WithParts
  <2>3. i \in DOMAIN parts /\ parts[i] # <<>>
    BY <2>1 DEF Only
  <2>4. With(lines, {key}) # <<>>
    BY <2>2, <2>3, FlattenSome
  <2>. PICK found : found = With(lines, {key})
    OBVIOUS
  <2>5. Last(found) \in AnyLine
    BY <2>2, <2>4 DEF Last
  <2>6. Last(found).value \in AnyValue
    BY <2>5 DEF AnyLine
  <2>. QED BY <2>4, <2>6 DEF LastValue
<1>. QED BY <1>1, <1>2 DEF LastValue

\* How the next boot takes the settings of a configuration.
LoaderDefault == LET found == With(LoaderSettings, {"default"})
                 IN  IF found = <<>> THEN None ELSE Head(found).value
ReadAs(f, c) ==
    /\ MenuOf(f).timeout = OrElse(Parsed(c.timeout, U64), FirstValid(LoaderSettings, "timeout", U64, None))
    /\ MenuOf(f).default = OrElse(c.default, LoaderDefault)
    /\ MenuOf(f).spinner = IF c.spinner \in SpinnerModes THEN c.spinner ELSE "graphical"
    /\ MenuOf(f).logo = IF c.logo \in Bools THEN c.logo ELSE "true"
    /\ EarlyFastboot(f) = IF c.fastboot \in FastbootModes THEN c.fastboot ELSE "off"

\* None is no valid setting.
LEMMA NoneApart == None \notin SpinnerModes /\ None \notin Bools \cup QuotedBools /\ None \notin FastbootModes
BY DEF None, SpinnerModes, Bools, QuotedBools, FastbootModes

\* What the readers make of a key with one line, or none.
LEMMA SettingsOf ==
    ASSUME NEW lines, NEW value
    PROVE  /\ With(lines, {"spinner"}) = OptLine("spinner", value) =>
                LastValid(lines, "spinner", SpinnerModes, "graphical")
                  = IF value \in SpinnerModes THEN value ELSE "graphical"
           /\ With(lines, {"logo"}) = OptLine("logo", value) =>
                LastValid(lines, "logo", Bools \cup QuotedBools, "true")
                  = IF value \in Bools \cup QuotedBools THEN value ELSE "true"
           /\ With(lines, {"fastboot"}) = OptLine("fastboot", value) =>
                FirstValid(lines, "fastboot", FastbootModes, "off")
                  = IF value \in FastbootModes THEN value ELSE "off"
<1>1. ASSUME NEW key, With(lines, {key}) = OptLine(key, value),
             NEW valid, None \notin valid, NEW default
      PROVE  /\ FirstValid(lines, key, valid, default) = IF value \in valid THEN value ELSE default
             /\ LastValid(lines, key, valid, default) = IF value \in valid THEN value ELSE default
  BY <1>1, ValidOf
<1>. PICK m, b, f : m = SpinnerModes /\ b = Bools \cup QuotedBools /\ f = FastbootModes
  OBVIOUS
<1>2. None \notin m /\ None \notin b /\ None \notin f
  BY NoneApart
<1>3. With(lines, {"spinner"}) = OptLine("spinner", value) =>
        LastValid(lines, "spinner", m, "graphical") = IF value \in m THEN value ELSE "graphical"
  BY <1>1, <1>2
<1>4. With(lines, {"logo"}) = OptLine("logo", value) =>
        LastValid(lines, "logo", b, "true") = IF value \in b THEN value ELSE "true"
  BY <1>1, <1>2
<1>5. With(lines, {"fastboot"}) = OptLine("fastboot", value) =>
        FirstValid(lines, "fastboot", f, "off") = IF value \in f THEN value ELSE "off"
  BY <1>1, <1>2
<1>. QED BY <1>3, <1>4, <1>5

\* The next boot takes the settings of the configuration r-boot-cli wrote.
LEMMA RenderRead ==
    ASSUME NEW c \in Configs
    PROVE  ReadAs(Render(c), c)
<1>. PICK g : g = Render(c)
  OBVIOUS
<1>1. /\ With(g.header, {"default"}) = OptLine("default", c.default)
      /\ With(g.header, {"timeout"}) = OptLine("timeout", c.timeout)
      /\ With(g.header, {"spinner"}) = OptLine("spinner", c.spinner)
      /\ With(g.header, {"logo"}) = OptLine("logo", c.logo)
      /\ With(g.header, {"fastboot"}) = OptLine("fastboot", c.fastboot)
  BY RenderSays
<1>2. c.logo \in Bools \cup {None}
  BY DEF Configs
<1>3. LastValue(g.header, {"timeout"}) = c.timeout /\ LastValue(g.header, {"default"}) = c.default
  BY <1>1, LastValueOf
<1>4. LastValid(g.header, "spinner", SpinnerModes, "graphical")
        = IF c.spinner \in SpinnerModes THEN c.spinner ELSE "graphical"
  BY <1>1, NoneApart, SettingsOf
<1>5. LastValid(g.header, "logo", Bools \cup QuotedBools, "true")
        = IF c.logo \in Bools \cup QuotedBools THEN c.logo ELSE "true"
  BY <1>1, NoneApart, SettingsOf
<1>6. FirstValid(g.header, "fastboot", FastbootModes, "off")
        = IF c.fastboot \in FastbootModes THEN c.fastboot ELSE "off"
  BY <1>1, NoneApart, SettingsOf
<1>7. MenuOf(g).logo = IF c.logo \in Bools THEN c.logo ELSE "true"
  <2>1. MenuOf(g).logo = Unquoted(IF c.logo \in Bools \cup QuotedBools THEN c.logo ELSE "true")
    BY <1>5 DEF MenuOf
  <2>2. CASE c.logo = None
    BY <2>1, <2>2, NoneApart DEF Unquoted
  <2>3. CASE c.logo \in Bools
    BY <2>1, <2>3 DEF Unquoted, Bools
  <2>. QED BY <1>2, <2>2, <2>3
<1>8. MenuOf(g).timeout = OrElse(Parsed(c.timeout, U64), FirstValid(LoaderSettings, "timeout", U64, None))
  BY <1>3 DEF MenuOf
<1>9. MenuOf(g).default = OrElse(c.default, LoaderDefault)
  BY <1>3 DEF MenuOf, LoaderDefault
<1>10. MenuOf(g).spinner = IF c.spinner \in SpinnerModes THEN c.spinner ELSE "graphical"
  BY <1>4 DEF MenuOf
<1>. QED BY <1>6, <1>7, <1>8, <1>9, <1>10 DEF ReadAs, EarlyFastboot

\* So it takes those of a file in which no setting is twice.
LEMMA OnceRead ==
    ASSUME NEW f \in AnyFile, Once(f.header),
           LastValue(f.header, {"timeout"}) \in U64 => LastValue(f.header, {"timeout"}) \in U32
    PROVE  ReadAs(f, Parse(f))
<1>. PICK c, h : c = Parse(f) /\ h = f.header
  OBVIOUS
<1>. PICK d, t, s, l, m : /\ d = LastValue(h, {"default"}) /\ t = LastValue(h, {"timeout"})
                          /\ s = LastValue(h, {"spinner"}) /\ l = LastValue(h, {"logo"})
                          /\ m = LastValue(h, {"fastboot"})
  OBVIOUS
<1>1. /\ c.default = d /\ c.timeout = Parsed(t, U32) /\ c.spinner = s
      /\ c.logo = Parsed(Unquoted(l), Bools) /\ c.fastboot = m
  BY DEF Parse
<1>2. h \in Seq(AnyLine) /\ Once(h)
  BY DEF AnyFile
<1>3. /\ With(h, {"spinner"}) = OptLine("spinner", s) /\ With(h, {"logo"}) = OptLine("logo", l)
      /\ With(h, {"fastboot"}) = OptLine("fastboot", m)
  BY <1>2, OnceWith
<1>4. MenuOf(f).timeout = OrElse(Parsed(c.timeout, U64), FirstValid(LoaderSettings, "timeout", U64, None))
  <2>1. U32 \subseteq U64 /\ None \notin U64
    BY EditsAssumption, ValuesAre
  <2>2. Parsed(c.timeout, U64) = Parsed(t, U64)
    BY <1>1, <2>1 DEF Parsed
  <2>. QED BY <2>2 DEF MenuOf
<1>5. MenuOf(f).default = OrElse(c.default, LoaderDefault)
  BY <1>1 DEF MenuOf, LoaderDefault
<1>6. MenuOf(f).spinner = IF c.spinner \in SpinnerModes THEN c.spinner ELSE "graphical"
  <2>1. LastValid(h, "spinner", SpinnerModes, "graphical") = IF s \in SpinnerModes THEN s ELSE "graphical"
    BY <1>3, NoneApart, SettingsOf
  <2>. QED BY <1>1, <2>1 DEF MenuOf
<1>7. MenuOf(f).logo = IF c.logo \in Bools THEN c.logo ELSE "true"
  <2>1. LastValid(h, "logo", Bools \cup QuotedBools, "true") = IF l \in Bools \cup QuotedBools THEN l ELSE "true"
    BY <1>3, NoneApart, SettingsOf
  <2>2. MenuOf(f).logo = Unquoted(IF l \in Bools \cup QuotedBools THEN l ELSE "true")
    BY <2>1 DEF MenuOf
  <2>3. CASE l \in Bools \cup QuotedBools
    <3>1. Unquoted(l) \in Bools
      BY <2>3 DEF Unquoted, Bools, QuotedBools
    <3>. QED BY <1>1, <2>2, <2>3, <3>1 DEF Parsed
  <2>4. CASE l \notin Bools \cup QuotedBools
    <3>1. Unquoted(l) = l /\ Unquoted("true") = "true"
      BY <2>4 DEF Unquoted, QuotedBools
    <3>. QED BY <1>1, <2>2, <2>4, <3>1, NoneApart DEF Parsed
  <2>. QED BY <2>3, <2>4
<1>8. EarlyFastboot(f) = IF c.fastboot \in FastbootModes THEN c.fastboot ELSE "off"
  BY <1>1, <1>3, NoneApart, ValidOf DEF EarlyFastboot
<1>. QED BY <1>4, <1>5, <1>6, <1>7, <1>8 DEF ReadAs

\* What the lines r-boot-cli writes for a block say under some keys.
Part(key, keys, part) == IF key \in keys THEN part ELSE <<>>
EntrySays(e, lines, keys, said) ==
    said = Part("id", keys, <<Line("id", e.id)>>)
        \o Part("title", keys, OptLine("title", e.title))
        \o Part("kind", keys, OptLine("kind", e.kind))
        \o Part("linux", keys, OptLine("linux", e.linux))
        \o Part("efi", keys, OptLine("efi", e.efi))
        \o Part("image", keys, OptLine("image", e.image))
        \o Part("initrd", keys, With(lines, {"initrd"}))
        \o Part("options", keys, OptLine("options", e.options))

SaysPart(key, value, keys) == With(OptLine(key, value), keys) = Part(key, keys, OptLine(key, value))

\* An optional line is there under its own key.
LEMMA SaysPartAll == \A keys : \A key \in AnyKey : \A value \in Maybe : SaysPart(key, value, keys)
BY OptLineWith DEF SaysPart, Part

\* RenderEntry writes one part after the other.
LEMMA RenderEntrySays ==
    ASSUME NEW lines \in Seq(AnyLine), NEW e, e = CliEntry(lines), NEW keys
    PROVE  EntrySays(e, lines, keys, With(RenderEntry(e), keys))
<1>. PICK p1, p2, p3, p4, p5, p6, p7, p8 :
        /\ p1 = <<Line("id", e.id)>> /\ p2 = OptLine("title", e.title)
        /\ p3 = OptLine("kind", e.kind) /\ p4 = OptLine("linux", e.linux)
        /\ p5 = OptLine("efi", e.efi) /\ p6 = OptLine("image", e.image)
        /\ p7 = e.initrd /\ p8 = OptLine("options", e.options)
  OBVIOUS
<1>1. /\ e.id \in AnyValue /\ e.title \in Maybe /\ e.kind \in Maybe /\ e.linux \in Maybe
      /\ e.efi \in Maybe /\ e.image \in Maybe /\ e.initrd \in Seq(AnyLine) /\ e.options \in Maybe
  BY CliEntryIs DEF CliEntries
<1>2. {"id", "title", "kind", "linux", "efi", "image", "initrd", "options"} \subseteq AnyKey
  BY DEF AnyKey
<1>3. /\ p1 \in Seq(AnyLine) /\ p2 \in Seq(AnyLine) /\ p3 \in Seq(AnyLine) /\ p4 \in Seq(AnyLine)
      /\ p5 \in Seq(AnyLine) /\ p6 \in Seq(AnyLine) /\ p7 \in Seq(AnyLine) /\ p8 \in Seq(AnyLine)
  BY <1>1, <1>2, LineIs, OptLineIs
<1>. PICK q1, q2, q3, q4, q5, q6, q7 :
        /\ q1 = p1 \o p2 /\ q2 = q1 \o p3 /\ q3 = q2 \o p4 /\ q4 = q3 \o p5
        /\ q5 = q4 \o p6 /\ q6 = q5 \o p7 /\ q7 = q6 \o p8
  OBVIOUS
<1>4. RenderEntry(e) = q7
  BY DEF RenderEntry
<1>5. /\ q1 \in Seq(AnyLine) /\ q2 \in Seq(AnyLine) /\ q3 \in Seq(AnyLine) /\ q4 \in Seq(AnyLine)
      /\ q5 \in Seq(AnyLine) /\ q6 \in Seq(AnyLine)
  BY <1>3, ConcatIs, ZenonT(30)
<1>6. /\ Splits(p1, p2, keys) /\ Splits(q1, p3, keys) /\ Splits(q2, p4, keys) /\ Splits(q3, p5, keys)
      /\ Splits(q4, p6, keys) /\ Splits(q5, p7, keys) /\ Splits(q6, p8, keys)
  BY <1>3, <1>5, SplitsAll
<1>7. With(q7, keys) = With(p1, keys) \o With(p2, keys) \o With(p3, keys) \o With(p4, keys)
                         \o With(p5, keys) \o With(p6, keys) \o With(p7, keys) \o With(p8, keys)
  <2>1. /\ With(q1, keys) = With(p1, keys) \o With(p2, keys)
        /\ With(q2, keys) = With(q1, keys) \o With(p3, keys)
        /\ With(q3, keys) = With(q2, keys) \o With(p4, keys)
        /\ With(q4, keys) = With(q3, keys) \o With(p5, keys)
        /\ With(q5, keys) = With(q4, keys) \o With(p6, keys)
        /\ With(q6, keys) = With(q5, keys) \o With(p7, keys)
        /\ With(q7, keys) = With(q6, keys) \o With(p8, keys)
    BY <1>6, Zenon DEF Splits
  <2>. PICK w1, w2, w3, w4, w5, w6, w7 :
          /\ w1 = With(q1, keys) /\ w2 = With(q2, keys) /\ w3 = With(q3, keys) /\ w4 = With(q4, keys)
          /\ w5 = With(q5, keys) /\ w6 = With(q6, keys) /\ w7 = With(q7, keys)
    OBVIOUS
  <2>. PICK v1, v2, v3, v4, v5, v6, v7, v8 :
          /\ v1 = With(p1, keys) /\ v2 = With(p2, keys) /\ v3 = With(p3, keys) /\ v4 = With(p4, keys)
          /\ v5 = With(p5, keys) /\ v6 = With(p6, keys) /\ v7 = With(p7, keys) /\ v8 = With(p8, keys)
    OBVIOUS
  <2>2. /\ w1 = v1 \o v2 /\ w2 = w1 \o v3 /\ w3 = w2 \o v4 /\ w4 = w3 \o v5 /\ w5 = w4 \o v6
        /\ w6 = w5 \o v7 /\ w7 = w6 \o v8
    BY <2>1
  <2>3. w4 = v1 \o v2 \o v3 \o v4 \o v5
    <3>1. w2 = v1 \o v2 \o v3
      BY <2>2, Zenon
    <3>2. w4 = w2 \o v4 \o v5
      BY <2>2, Zenon
    <3>. QED BY <3>1, <3>2, Zenon
  <2>4. w7 = w4 \o v6 \o v7 \o v8
    BY <2>2, Zenon
  <2>5. w7 = v1 \o v2 \o v3 \o v4 \o v5 \o v6 \o v7 \o v8
    BY <2>3, <2>4, Zenon
  <2>. QED BY <2>5
<1>8. /\ With(p2, keys) = Part("title", keys, p2) /\ With(p3, keys) = Part("kind", keys, p3)
      /\ With(p4, keys) = Part("linux", keys, p4) /\ With(p5, keys) = Part("efi", keys, p5)
      /\ With(p6, keys) = Part("image", keys, p6) /\ With(p8, keys) = Part("options", keys, p8)
  <2>1. With(p2, keys) = Part("title", keys, p2)
    <3>1. SaysPart("title", e.title, keys)
      BY <1>1, <1>2, SaysPartAll
    <3>. QED BY <3>1 DEF SaysPart
  <2>2. With(p3, keys) = Part("kind", keys, p3)
    <3>1. SaysPart("kind", e.kind, keys)
      BY <1>1, <1>2, SaysPartAll
    <3>. QED BY <3>1 DEF SaysPart
  <2>3. With(p4, keys) = Part("linux", keys, p4)
    <3>1. SaysPart("linux", e.linux, keys)
      BY <1>1, <1>2, SaysPartAll
    <3>. QED BY <3>1 DEF SaysPart
  <2>4. With(p5, keys) = Part("efi", keys, p5)
    <3>1. SaysPart("efi", e.efi, keys)
      BY <1>1, <1>2, SaysPartAll
    <3>. QED BY <3>1 DEF SaysPart
  <2>5. With(p6, keys) = Part("image", keys, p6)
    <3>1. SaysPart("image", e.image, keys)
      BY <1>1, <1>2, SaysPartAll
    <3>. QED BY <3>1 DEF SaysPart
  <2>6. With(p8, keys) = Part("options", keys, p8)
    <3>1. SaysPart("options", e.options, keys)
      BY <1>1, <1>2, SaysPartAll
    <3>. QED BY <3>1 DEF SaysPart
  <2>. QED BY <2>1, <2>2, <2>3, <2>4, <2>5, <2>6
<1>9. With(p1, keys) = Part("id", keys, p1)
  <2>1. Line("id", e.id) \in AnyLine
    BY <1>1, <1>2, LineIs
  <2>2. With(<<Line("id", e.id)>>, keys) = Only(Line("id", e.id), keys)
    BY <2>1, WithOne
  <2>. QED BY <2>2 DEF Only, Line, Part
<1>10. p7 = With(lines, {"initrd"}) /\ With(p7, keys) = Part("initrd", keys, p7)
  <2>1. p7 = With(lines, {"initrd"})
    BY DEF CliEntry
  <2>2. With(With(lines, {"initrd"}), keys) = With(lines, keys \cap {"initrd"})
    BY WithWith
  <2>3. CASE "initrd" \in keys
    <3>1. keys \cap {"initrd"} = {"initrd"}
      BY <2>3
    <3>. QED BY <2>1, <2>2, <2>3, <3>1 DEF Part
  <2>4. CASE "initrd" \notin keys
    <3>1. keys \cap {"initrd"} = {}
      BY <2>4
    <3>2. With(lines, {}) = <<>>
      BY WithNone
    <3>. QED BY <2>1, <2>2, <2>4, <3>1, <3>2 DEF Part
  <2>. QED BY <2>1, <2>3, <2>4
<1>. QED BY <1>4, <1>7, <1>8, <1>9, <1>10 DEF EntrySays

\* Keys that no line has, besides, make no difference.
LEMMA WithBesides ==
    ASSUME NEW lines \in Seq(AnyLine), NEW keys, NEW others, keys \subseteq others,
           \A i \in DOMAIN lines : lines[i].key \notin others \ keys
    PROVE  With(lines, others) = With(lines, keys)
<1>1. \A i \in DOMAIN lines : Only(lines[i], others) = Only(lines[i], keys)
  BY DEF Only
<1>. QED BY <1>1, WithSame

\* What the menu finds under the keys it reads.
LEMMA RenderEntryValues ==
    ASSUME NEW lines \in Seq(AnyLine), NEW e, e = CliEntry(lines), NEW r, r = RenderEntry(e)
    PROVE  /\ With(r, {"id"}) = <<Line("id", e.id)>>
           /\ With(r, {"title"}) = OptLine("title", e.title)
           /\ With(r, {"image"}) = OptLine("image", e.image)
           /\ With(r, {"initrd"}) = With(lines, {"initrd"})
           /\ With(r, {"options"}) = OptLine("options", e.options)
           /\ With(r, {"linux", "kernel", "efi"}) = OptLine("linux", e.linux) \o OptLine("efi", e.efi)
           /\ With(r, {"kind", "efi"}) = OptLine("kind", e.kind) \o OptLine("efi", e.efi)
<1>. PICK p1, p2, p3, p4, p5, p6, p7, p8 :
        /\ p1 = <<Line("id", e.id)>> /\ p2 = OptLine("title", e.title)
        /\ p3 = OptLine("kind", e.kind) /\ p4 = OptLine("linux", e.linux)
        /\ p5 = OptLine("efi", e.efi) /\ p6 = OptLine("image", e.image)
        /\ p7 = With(lines, {"initrd"}) /\ p8 = OptLine("options", e.options)
  OBVIOUS
<1>1. /\ p1 \in Seq(AnyLine) /\ p2 \in Seq(AnyLine) /\ p3 \in Seq(AnyLine) /\ p4 \in Seq(AnyLine)
      /\ p5 \in Seq(AnyLine) /\ p6 \in Seq(AnyLine) /\ p7 \in Seq(AnyLine) /\ p8 \in Seq(AnyLine)
  <2>1. /\ e.id \in AnyValue /\ e.title \in Maybe /\ e.kind \in Maybe /\ e.linux \in Maybe
        /\ e.efi \in Maybe /\ e.image \in Maybe /\ e.options \in Maybe
    BY CliEntryIs DEF CliEntries
  <2>2. {"id", "title", "kind", "linux", "efi", "image", "options"} \subseteq AnyKey
    BY DEF AnyKey
  <2>. QED BY <2>1, <2>2, LineIs, OptLineIs, WithParts
<1>2. ASSUME NEW keys
      PROVE  With(r, keys) = Part("id", keys, p1) \o Part("title", keys, p2) \o Part("kind", keys, p3)
                \o Part("linux", keys, p4) \o Part("efi", keys, p5) \o Part("image", keys, p6)
                \o Part("initrd", keys, p7) \o Part("options", keys, p8)
  <2>1. EntrySays(e, lines, keys, With(r, keys))
    BY RenderEntrySays
  <2>. QED BY <2>1 DEF EntrySays
<1>3. \A q \in Seq(AnyLine) : <<>> \o q = q /\ q \o <<>> = q
  OBVIOUS
<1>4. <<>> \o <<>> = <<>>
  BY <1>1, <1>3
<1>5. With(r, {"id"}) = p1
  <2>. PICK keys : keys = {"id"}
    OBVIOUS
  <2>1. /\ Part("id", keys, p1) = p1 /\ Part("title", keys, p2) = <<>>
        /\ Part("kind", keys, p3) = <<>> /\ Part("linux", keys, p4) = <<>>
        /\ Part("efi", keys, p5) = <<>> /\ Part("image", keys, p6) = <<>>
        /\ Part("initrd", keys, p7) = <<>> /\ Part("options", keys, p8) = <<>>
    BY DEF Part
  <2>2. With(r, keys) = p1 \o <<>> \o <<>> \o <<>> \o <<>> \o <<>> \o <<>> \o <<>>
    BY <1>2, <2>1
  <2>. QED BY <1>1, <1>3, <1>4, <2>2
<1>6. With(r, {"title"}) = p2
  <2>. PICK keys : keys = {"title"}
    OBVIOUS
  <2>1. /\ Part("id", keys, p1) = <<>> /\ Part("title", keys, p2) = p2
        /\ Part("kind", keys, p3) = <<>> /\ Part("linux", keys, p4) = <<>>
        /\ Part("efi", keys, p5) = <<>> /\ Part("image", keys, p6) = <<>>
        /\ Part("initrd", keys, p7) = <<>> /\ Part("options", keys, p8) = <<>>
    BY DEF Part
  <2>2. With(r, keys) = <<>> \o p2 \o <<>> \o <<>> \o <<>> \o <<>> \o <<>> \o <<>>
    BY <1>2, <2>1
  <2>. QED BY <1>1, <1>3, <1>4, <2>2
<1>7. With(r, {"image"}) = p6
  <2>. PICK keys : keys = {"image"}
    OBVIOUS
  <2>1. /\ Part("id", keys, p1) = <<>> /\ Part("title", keys, p2) = <<>>
        /\ Part("kind", keys, p3) = <<>> /\ Part("linux", keys, p4) = <<>>
        /\ Part("efi", keys, p5) = <<>> /\ Part("image", keys, p6) = p6
        /\ Part("initrd", keys, p7) = <<>> /\ Part("options", keys, p8) = <<>>
    BY DEF Part
  <2>2. With(r, keys) = <<>> \o <<>> \o <<>> \o <<>> \o <<>> \o p6 \o <<>> \o <<>>
    BY <1>2, <2>1
  <2>. QED BY <1>1, <1>3, <1>4, <2>2
<1>8. With(r, {"initrd"}) = p7
  <2>. PICK keys : keys = {"initrd"}
    OBVIOUS
  <2>1. /\ Part("id", keys, p1) = <<>> /\ Part("title", keys, p2) = <<>>
        /\ Part("kind", keys, p3) = <<>> /\ Part("linux", keys, p4) = <<>>
        /\ Part("efi", keys, p5) = <<>> /\ Part("image", keys, p6) = <<>>
        /\ Part("initrd", keys, p7) = p7 /\ Part("options", keys, p8) = <<>>
    BY DEF Part
  <2>2. With(r, keys) = <<>> \o <<>> \o <<>> \o <<>> \o <<>> \o <<>> \o p7 \o <<>>
    BY <1>2, <2>1
  <2>. QED BY <1>1, <1>3, <1>4, <2>2
<1>9. With(r, {"options"}) = p8
  <2>. PICK keys : keys = {"options"}
    OBVIOUS
  <2>1. /\ Part("id", keys, p1) = <<>> /\ Part("title", keys, p2) = <<>>
        /\ Part("kind", keys, p3) = <<>> /\ Part("linux", keys, p4) = <<>>
        /\ Part("efi", keys, p5) = <<>> /\ Part("image", keys, p6) = <<>>
        /\ Part("initrd", keys, p7) = <<>> /\ Part("options", keys, p8) = p8
    BY DEF Part
  <2>2. With(r, keys) = <<>> \o <<>> \o <<>> \o <<>> \o <<>> \o <<>> \o <<>> \o p8
    BY <1>2, <2>1
  <2>. QED BY <1>1, <1>3, <1>4, <2>2
<1>10. With(r, {"linux", "kernel", "efi"}) = p4 \o p5
  <2>. PICK keys : keys = {"linux", "kernel", "efi"}
    OBVIOUS
  <2>1. /\ Part("id", keys, p1) = <<>> /\ Part("title", keys, p2) = <<>>
        /\ Part("kind", keys, p3) = <<>> /\ Part("linux", keys, p4) = p4
        /\ Part("efi", keys, p5) = p5 /\ Part("image", keys, p6) = <<>>
        /\ Part("initrd", keys, p7) = <<>> /\ Part("options", keys, p8) = <<>>
    BY DEF Part
  <2>2. With(r, keys) = <<>> \o <<>> \o <<>> \o p4 \o p5 \o <<>> \o <<>> \o <<>>
    BY <1>2, <2>1
  <2>. QED BY <1>1, <1>3, <1>4, <2>2
<1>11. With(r, {"kind", "efi"}) = p3 \o p5
  <2>. PICK keys : keys = {"kind", "efi"}
    OBVIOUS
  <2>1. /\ Part("id", keys, p1) = <<>> /\ Part("title", keys, p2) = <<>>
        /\ Part("kind", keys, p3) = p3 /\ Part("linux", keys, p4) = <<>>
        /\ Part("efi", keys, p5) = p5 /\ Part("image", keys, p6) = <<>>
        /\ Part("initrd", keys, p7) = <<>> /\ Part("options", keys, p8) = <<>>
    BY DEF Part
  <2>2. With(r, keys) = <<>> \o <<>> \o p3 \o <<>> \o p5 \o <<>> \o <<>> \o <<>>
    BY <1>2, <2>1
  <2>. QED BY <1>1, <1>3, <1>4, <2>2
<1>. QED BY <1>5, <1>6, <1>7, <1>8, <1>9, <1>10, <1>11

\* A list with a single element after it.
LEMMA ConcatOne ==
    ASSUME NEW S, NEW a \in Seq(S), NEW b \in Seq(S), Len(b) = 1
    PROVE  Len(a \o b) = Len(a) + 1 /\ (a \o b)[Len(a) + 1] = b[1] /\ Len(a) \in Nat
BY ConcatProperties, SMTT(30)

\* The menu makes the same entry of a block that r-boot-cli writes again.
LEMMA Rerendered ==
    ASSUME NEW lines \in Seq(AnyLine), GeneratedBlock(lines),
           NEW e, e = CliEntry(lines), NEW r, r = RenderEntry(e)
    PROVE  /\ r \in Seq(AnyLine) /\ IsEntry(r) /\ EntryOf(r) = EntryOf(lines)
           /\ EntryOf(lines).id = e.id
<1>0. r \in Seq(AnyLine)
  BY CliEntryIs, RenderEntryIs
<1>1. /\ Once(lines) /\ IsEntry(lines) /\ Has(lines, "id") /\ (Has(lines, "linux") # Has(lines, "efi"))
      /\ (Has(lines, "efi") => RawKind(lines) = "efi") /\ ~Has(lines, "kernel")
  BY DEF GeneratedBlock
<1>. PICK id, title, kind, linux, efi, image, options :
        /\ id = LastValue(lines, {"id"}) /\ title = LastValue(lines, {"title"})
        /\ kind = LastValue(lines, {"kind"}) /\ linux = LastValue(lines, {"linux"})
        /\ efi = LastValue(lines, {"efi"}) /\ image = LastValue(lines, {"image"})
        /\ options = LastValue(lines, {"options"})
  OBVIOUS
<1>2. /\ e.title = title /\ e.kind = kind /\ e.linux = linux /\ e.efi = efi /\ e.image = image
      /\ e.options = options /\ e.id = OrElse(id, "")
  BY DEF CliEntry
<1>3. id \in AnyValue /\ id # None /\ e.id = id
  <2>1. id \in AnyValue
    BY <1>1, HasIs
  <2>. QED BY <1>2, <2>1, ValuesAre DEF OrElse
<1>4. /\ With(r, {"id"}) = <<Line("id", e.id)>>
      /\ With(r, {"title"}) = OptLine("title", e.title)
      /\ With(r, {"image"}) = OptLine("image", e.image)
      /\ With(r, {"initrd"}) = With(lines, {"initrd"})
      /\ With(r, {"options"}) = OptLine("options", e.options)
      /\ With(r, {"linux", "kernel", "efi"}) = OptLine("linux", e.linux) \o OptLine("efi", e.efi)
      /\ With(r, {"kind", "efi"}) = OptLine("kind", e.kind) \o OptLine("efi", e.efi)
  BY RenderEntryValues, ZenonT(30)
<1>5. /\ LastValue(r, {"id"}) = id /\ LastValue(r, {"title"}) = title /\ LastValue(r, {"image"}) = image
      /\ LastValue(r, {"options"}) = options
  <2>1. With(r, {"id"}) = OptLine("id", id)
    BY <1>3, <1>4 DEF OptLine
  <2>2. With(r, {"title"}) = OptLine("title", title) /\ With(r, {"image"}) = OptLine("image", image)
        /\ With(r, {"options"}) = OptLine("options", options)
    BY <1>2, <1>4
  <2>3. LastValue(r, {"id"}) = id
    BY <2>1, LastValueOf
  <2>4. LastValue(r, {"title"}) = title
    BY <2>2, LastValueOf
  <2>5. LastValue(r, {"image"}) = image
    BY <2>2, LastValueOf
  <2>6. LastValue(r, {"options"}) = options
    BY <2>2, LastValueOf
  <2>. QED BY <2>3, <2>4, <2>5, <2>6
<1>6. \A q \in Seq(AnyLine) : <<>> \o q = q /\ q \o <<>> = q
  OBVIOUS
<1>7. RawKernel(r) = RawKernel(lines) /\ RawKind(r) = RawKind(lines)
  <2>. PICK p3, p4, p5 : p3 = OptLine("kind", kind) /\ p4 = OptLine("linux", linux) /\ p5 = OptLine("efi", efi)
    OBVIOUS
  <2>1. p3 \in Seq(AnyLine) /\ p4 \in Seq(AnyLine) /\ p5 \in Seq(AnyLine)
    <3>1. {"kind", "linux", "efi"} \subseteq AnyKey
      BY DEF AnyKey
    <3>. QED BY <3>1, LastValueIs, OptLineIs
  <2>2. With(r, {"linux", "kernel", "efi"}) = p4 \o p5 /\ With(r, {"kind", "efi"}) = p3 \o p5
    BY <1>2, <1>4
  <2>3. /\ With(lines, {"linux"}) = p4 /\ With(lines, {"kind"}) = p3
    BY <1>1, OnceWith
  <2>4. With(lines, {"efi"}) = p5
    BY <1>1, OnceWith
  <2>5. CASE Has(lines, "linux")
    <3>1. efi = None /\ p5 = <<>>
      <4>1. ~Has(lines, "efi")
        BY <1>1, <2>5
      <4>2. efi = None
        BY <4>1, HasIs
      <4>. QED BY <4>2 DEF OptLine
    <3>2. \A i \in DOMAIN lines : lines[i].key \notin {"linux", "kernel", "efi"} \ {"linux"}
      BY <1>1, <2>5 DEF Has
    <3>3. With(lines, {"linux", "kernel", "efi"}) = With(lines, {"linux"})
      BY <3>2, WithBesides
    <3>4. \A i \in DOMAIN lines : lines[i].key \notin {"kind", "efi"} \ {"kind"}
      BY <1>1, <2>5 DEF Has
    <3>5. With(lines, {"kind", "efi"}) = With(lines, {"kind"})
      BY <3>4, WithBesides
    <3>6. With(r, {"linux", "kernel", "efi"}) = p4 /\ With(r, {"kind", "efi"}) = p3
      BY <1>6, <2>1, <2>2, <3>1
    <3>7. /\ With(r, {"linux", "kernel", "efi"}) = With(lines, {"linux", "kernel", "efi"})
          /\ With(r, {"kind", "efi"}) = With(lines, {"kind", "efi"})
      BY <2>3, <3>3, <3>5, <3>6
    <3>. QED BY <3>7 DEF RawKernel, RawKind, LastValue
  <2>6. CASE ~Has(lines, "linux")
    <3>1. linux = None /\ p4 = <<>>
      <4>1. linux = None
        BY <2>6, HasIs
      <4>. QED BY <4>1 DEF OptLine
    <3>2. \A i \in DOMAIN lines : lines[i].key \notin {"linux", "kernel", "efi"} \ {"efi"}
      BY <1>1, <2>6 DEF Has
    <3>3. With(lines, {"linux", "kernel", "efi"}) = With(lines, {"efi"})
      BY <3>2, WithBesides
    <3>4. Has(lines, "efi")
      <4>1. ASSUME ~Has(lines, "efi") PROVE FALSE
        <5>1. Has(lines, "linux") = Has(lines, "efi")
          BY <2>6, <4>1 DEF Has
        <5>. QED BY <1>1, <5>1, Zenon
      <4>. QED BY <4>1
    <3>5. efi \in AnyValue /\ efi # None /\ p5 = <<Line("efi", efi)>>
      <4>1. efi \in AnyValue
        BY <3>4, HasIs
      <4>. QED BY <4>1, ValuesAre DEF OptLine
    <3>6. With(r, {"linux", "kernel", "efi"}) = p5
      BY <1>6, <2>1, <2>2, <3>1
    <3>7. RawKernel(r) = RawKernel(lines)
      BY <2>4, <3>3, <3>6 DEF RawKernel, LastValue
    <3>8. RawKind(r) = "efi"
      <4>. PICK found : found = With(r, {"kind", "efi"})
        OBVIOUS
      <4>1. Line("efi", efi) \in AnyLine /\ Len(p5) = 1 /\ p5[1] = Line("efi", efi)
        <5>1. "efi" \in AnyKey
          BY DEF AnyKey
        <5>. QED BY <3>5, <5>1, LineIs
      <4>2. found # <<>> /\ Last(found) = Line("efi", efi)
        <5>1. found = p3 \o p5
          BY <2>2
        <5>2. Len(found) = Len(p3) + 1 /\ found[Len(p3) + 1] = p5[1] /\ Len(p3) \in Nat
          <6>2. found = p3 \o p5 /\ p3 \in Seq(AnyLine) /\ p5 \in Seq(AnyLine) /\ Len(p5) = 1
            BY <2>1, <4>1, <5>1
          <6>. QED BY <6>2, ConcatOne
        <5>3. found # <<>>
          <6>1. Len(<<>>) = 0
            OBVIOUS
          <6>. QED BY <5>2, <6>1
        <5>. QED BY <4>1, <5>2, <5>3 DEF Last
      <4>3. Last(found).key = "efi"
        BY <4>2 DEF Line
      <4>. QED BY <4>2, <4>3 DEF RawKind
    <3>. QED BY <1>1, <3>4, <3>7, <3>8
  <2>. QED BY <2>5, <2>6
<1>8. IsEntry(r)
  BY <1>1, <1>7 DEF IsEntry
<1>9. EntryOf(r) = EntryOf(lines)
  BY <1>4, <1>5, <1>7 DEF EntryOf
<1>10. EntryOf(lines).id = e.id
  BY <1>3 DEF EntryOf, OrElse
<1>. QED BY <1>0, <1>8, <1>9, <1>10

\* Where every block is an entry, the menu has them all.
AllEntries(blocks) == \A i \in DOMAIN blocks : IsEntry(blocks[i])

\* It keeps them all,
LEMMA KeptAll == \A blocks \in Seq(Seq(AnyLine)) : AllEntries(blocks) => Kept(blocks) = blocks
<1>. DEFINE Right(blocks) == AllEntries(blocks) => Kept(blocks) = blocks
            P == {blocks \in Seq(Seq(AnyLine)) : Right(blocks)}
<1>1. <<>> \in P
  <2>1. Picked(<<>>, Shown, Same) = <<>>
    <3>1. [i \in DOMAIN <<>> |-> IF <<>>[i] \in Shown THEN <<Same[<<>>[i]]>> ELSE <<>>] = <<>>
      OBVIOUS
    <3>. QED BY <3>1, FlattenEmpty DEF Picked
  <2>2. Right(<<>>)
    BY <2>1 DEF Kept
  <2>. HIDE DEF Right
  <2>. QED BY <2>2
<1>2. ASSUME NEW c \in P, NEW b \in Seq(AnyLine) PROVE Append(c, b) \in P
  <2>1. c \in Seq(Seq(AnyLine)) /\ Right(c)
    BY Zenon
  <2>. PICK a : a = Append(c, b)
    OBVIOUS
  <2>2. /\ a \in Seq(Seq(AnyLine)) /\ DOMAIN a = 1 .. Len(c) + 1 /\ DOMAIN c = 1 .. Len(c) /\ Len(c) \in Nat
        /\ a[Len(c) + 1] = b /\ \A i \in 1 .. Len(c) : a[i] = c[i]
    BY <2>1, AppendAt
  <2>3. Picked(Append(c, b), Shown, Same) = Picked(c, Shown, Same) \o (IF b \in Shown THEN <<Same[b]>> ELSE <<>>)
    <3>1. c \in Seq(Seq(AnyLine))
      BY <2>1
    <3>2. ASSUME NEW G
          PROVE  /\ Picked(Append(c, b), Shown, G)
                      = Picked(c, Shown, G) \o (IF b \in Shown THEN <<G[b]>> ELSE <<>>)
                 /\ Picked(c, Shown, G) \in Seq(Results(G))
      BY <3>1, PickedAppend, Zenon
    <3>. QED BY <3>2
  <2>4. ASSUME AllEntries(a) PROVE Kept(a) = a
    <3>1. AllEntries(c) /\ IsEntry(b)
      <4>1. Len(c) + 1 \in DOMAIN a /\ \A i \in DOMAIN c : i \in DOMAIN a
        BY <2>2
      <4>. QED BY <2>2, <2>4, <4>1, Zenon DEF AllEntries
    <3>2. b \in Shown /\ Same[b] = b
      BY <3>1 DEF Shown, Same
    <3>3. Kept(c) = c
      BY <2>1, <3>1
    <3>4. Kept(a) = c \o <<b>>
      BY <2>3, <3>2, <3>3 DEF Kept
    <3>5. c \o <<b>> = Append(c, b)
      BY <2>1
    <3>. QED BY <3>4, <3>5
  <2>5. Right(Append(c, b))
    BY <2>4
  <2>. HIDE DEF Right
  <2>. QED BY <2>2, <2>5
<1>. HIDE DEF P
<1>3. P = Seq(Seq(AnyLine))
  <2>1. P \in SUBSET Seq(Seq(AnyLine))
    BY DEF P
  <2>. QED BY <1>1, <1>2, <2>1, SeqInduction
<1>. QED BY <1>3, Zenon DEF P

\* The entries the menu makes of blocks, one each.
Made(blocks, entries) == entries = [i \in DOMAIN blocks |-> EntryOf(blocks[i])]

\* and makes an entry of each.
LEMMA EntriesAll ==
    ASSUME NEW blocks \in Seq(Seq(AnyLine)), AllEntries(blocks)
    PROVE  Made(blocks, EntriesOf(blocks))
<1>1. Kept(blocks) = blocks
  BY KeptAll
<1>2. EntriesOf(blocks) = [n \in DOMAIN Kept(blocks) |-> EntryOf(Kept(blocks)[n])]
  BY KeptIs
<1>. QED BY <1>1, <1>2 DEF Made

\* r-boot-cli has read f, and writes its entries at the places `from`.
Written(f, c, from, g) ==
    /\ c.entries = [i \in DOMAIN from |-> CliEntry(f.blocks[from[i]])]
    /\ g.blocks = [i \in DOMAIN c.entries |-> RenderEntry(c.entries[i])]

MenuHas(f, from, g) ==
    /\ EntriesOf(f.blocks) = [i \in DOMAIN f.blocks |-> EntryOf(f.blocks[i])]
    /\ EntriesOf(g.blocks) = [i \in DOMAIN from |-> EntryOf(f.blocks[from[i]])]
    /\ \A i \in DOMAIN f.blocks : EntryOf(f.blocks[i]).id = CliEntry(f.blocks[i]).id

\* The menu's entries of the file that was written are those of the places.
LEMMA WrittenEntries ==
    ASSUME NEW f \in AnyFile, \A i \in DOMAIN f.blocks : GeneratedBlock(f.blocks[i]),
           NEW from \in Seq(DOMAIN f.blocks), NEW c \in Configs, NEW g \in AnyFile, Written(f, c, from, g)
    PROVE  MenuHas(f, from, g)
<1>. PICK b, w : b = f.blocks /\ w = g.blocks
  OBVIOUS
<1>1. b \in Seq(Seq(AnyLine)) /\ w \in Seq(Seq(AnyLine)) /\ \A i \in DOMAIN b : b[i] \in Seq(AnyLine)
  BY DEF AnyFile
<1>2. DOMAIN c.entries = DOMAIN from /\ DOMAIN w = DOMAIN from
  BY DEF Written
<1>3. \A i \in DOMAIN from : from[i] \in DOMAIN b
  OBVIOUS
<1>4. \A i \in DOMAIN w : w[i] = RenderEntry(CliEntry(b[from[i]]))
  BY <1>2 DEF Written
<1>5. ASSUME NEW i \in DOMAIN b
      PROVE  /\ IsEntry(b[i]) /\ IsEntry(RenderEntry(CliEntry(b[i])))
             /\ EntryOf(RenderEntry(CliEntry(b[i]))) = EntryOf(b[i])
             /\ EntryOf(b[i]).id = CliEntry(b[i]).id
  <2>. PICK lines : lines = b[i]
    OBVIOUS
  <2>1. lines \in Seq(AnyLine) /\ GeneratedBlock(lines)
    BY <1>1
  <2>. PICK e : e = CliEntry(lines)
    OBVIOUS
  <2>. PICK r : r = RenderEntry(e)
    OBVIOUS
  <2>2. IsEntry(r) /\ EntryOf(r) = EntryOf(lines) /\ EntryOf(lines).id = e.id
    BY <2>1, Rerendered
  <2>3. IsEntry(lines)
    BY <2>1 DEF GeneratedBlock
  <2>. QED BY <2>2, <2>3
<1>6. AllEntries(b) /\ AllEntries(w)
  BY <1>2, <1>3, <1>4, <1>5 DEF AllEntries
<1>7. Made(b, EntriesOf(b)) /\ Made(w, EntriesOf(w))
  BY <1>1, <1>6, EntriesAll
<1>8. EntriesOf(b) = [i \in DOMAIN b |-> EntryOf(b[i])]
  BY <1>7 DEF Made
<1>9. EntriesOf(w) = [i \in DOMAIN from |-> EntryOf(b[from[i]])]
  <2>1. EntriesOf(w) = [i \in DOMAIN w |-> EntryOf(w[i])]
    BY <1>7 DEF Made
  <2>2. \A i \in DOMAIN from : EntryOf(w[i]) = EntryOf(b[from[i]])
    BY <1>2, <1>3, <1>4, <1>5
  <2>. QED BY <1>2, <2>1, <2>2
<1>. QED BY <1>5, <1>8, <1>9 DEF MenuHas

\* Generated, of any file.
GeneratedFile(f) ==
    /\ Once(f.header)
    /\ LastValue(f.header, {"timeout"}) \in U64 => LastValue(f.header, {"timeout"}) \in U32
    /\ \A i \in DOMAIN f.blocks : GeneratedBlock(f.blocks[i])

Keeps(f, g) ==
    /\ MenuOf(g).entries = MenuOf(f).entries
    /\ EntriesOf(f.blocks) = [i \in DOMAIN f.blocks |-> EntryOf(f.blocks[i])]
    /\ \A i \in DOMAIN f.blocks : EntryOf(f.blocks[i]).id = CliEntry(f.blocks[i]).id

\* A configuration with the entries that were read keeps the menu's entries.
LEMMA KeepsEntries ==
    ASSUME NEW f \in AnyFile, GeneratedFile(f), NEW c \in Configs, c.entries = Parse(f).entries,
           NEW g, g = Render(c)
    PROVE  Keeps(f, g)
<1>. PICK b : b = f.blocks
  OBVIOUS
<1>. DEFINE from == [i \in DOMAIN b |-> i]
<1>1. b \in Seq(Seq(AnyLine)) /\ \A i \in DOMAIN f.blocks : GeneratedBlock(f.blocks[i])
  BY DEF AnyFile, GeneratedFile
<1>2. from \in Seq(DOMAIN b) /\ DOMAIN from = DOMAIN b /\ \A i \in DOMAIN b : from[i] = i
  <2>1. DOMAIN b = 1 .. Len(b) /\ Len(b) \in Nat
    BY <1>1
  <2>. QED BY <2>1
<1>3. g \in AnyFile
  BY RenderIs
<1>4. c.entries = [i \in DOMAIN b |-> CliEntry(b[i])]
  BY DEF Parse
<1>5. g.blocks = [i \in DOMAIN c.entries |-> RenderEntry(c.entries[i])]
  BY DEF Render
<1>. HIDE DEF from
<1>6. Written(f, c, from, g)
  <2>1. [i \in DOMAIN from |-> CliEntry(f.blocks[from[i]])] = [i \in DOMAIN b |-> CliEntry(b[i])]
    BY <1>2
  <2>. QED BY <1>4, <1>5, <2>1 DEF Written
<1>7. from \in Seq(DOMAIN f.blocks)
  BY <1>2
<1>8. /\ EntriesOf(f.blocks) = [i \in DOMAIN f.blocks |-> EntryOf(f.blocks[i])]
      /\ EntriesOf(g.blocks) = [i \in DOMAIN from |-> EntryOf(f.blocks[from[i]])]
      /\ \A i \in DOMAIN f.blocks : EntryOf(f.blocks[i]).id = CliEntry(f.blocks[i]).id
  <2>1. MenuHas(f, from, g)
    BY <1>1, <1>3, <1>6, <1>7, WrittenEntries
  <2>. QED BY <2>1 DEF MenuHas
<1>9. EntriesOf(g.blocks) = EntriesOf(f.blocks)
  BY <1>2, <1>8
<1>10. MenuOf(g).entries = MenuOf(f).entries
  BY <1>9 DEF MenuOf
<1>. QED BY <1>8, <1>10 DEF Keeps

\* The settings of the next boot.
SeenIn(menu, f) == [timeout |-> menu.timeout, spinner |-> menu.spinner,
                    logo |-> menu.logo, fastboot |-> EarlyFastboot(f),
                    default |-> menu.default]

ReadsSet(f, key, value, g) == SeenIn(MenuOf(g), g) = [SeenIn(MenuOf(f), f) EXCEPT ![key] = value]

\* Of two configurations that differ in one setting, the next boot reads
\* settings that differ in that one.
LEMMA SetReads ==
    ASSUME NEW f, NEW c \in Configs, ReadAs(f, c),
           NEW key \in {"timeout", "spinner", "logo", "fastboot"}, NEW value \in Settable(key),
           NEW d, d = [c EXCEPT ![key] = value], NEW g, ReadAs(g, d)
    PROVE  ReadsSet(f, key, value, g)
<1>. PICK p, q : p = SeenIn(MenuOf(f), f) /\ q = SeenIn(MenuOf(g), g)
  OBVIOUS
<1>1. /\ DOMAIN p = {"timeout", "spinner", "logo", "fastboot", "default"}
      /\ p = [timeout |-> p.timeout, spinner |-> p.spinner, logo |-> p.logo,
              fastboot |-> p.fastboot, default |-> p.default]
      /\ q = [timeout |-> q.timeout, spinner |-> q.spinner, logo |-> q.logo,
              fastboot |-> q.fastboot, default |-> q.default]
  BY DEF SeenIn
<1>2. /\ p.timeout = OrElse(Parsed(c.timeout, U64), FirstValid(LoaderSettings, "timeout", U64, None))
      /\ p.default = OrElse(c.default, LoaderDefault)
      /\ p.spinner = IF c.spinner \in SpinnerModes THEN c.spinner ELSE "graphical"
      /\ p.logo = IF c.logo \in Bools THEN c.logo ELSE "true"
      /\ p.fastboot = IF c.fastboot \in FastbootModes THEN c.fastboot ELSE "off"
  BY DEF SeenIn, ReadAs
<1>3. /\ q.timeout = OrElse(Parsed(d.timeout, U64), FirstValid(LoaderSettings, "timeout", U64, None))
      /\ q.default = OrElse(d.default, LoaderDefault)
      /\ q.spinner = IF d.spinner \in SpinnerModes THEN d.spinner ELSE "graphical"
      /\ q.logo = IF d.logo \in Bools THEN d.logo ELSE "true"
      /\ q.fastboot = IF d.fastboot \in FastbootModes THEN d.fastboot ELSE "off"
  BY DEF SeenIn, ReadAs
<1>4. DOMAIN c = {"default", "timeout", "spinner", "logo", "fastboot", "entries"}
  BY DEF Configs
<1>5. ASSUME key = "timeout" PROVE q = [p EXCEPT ![key] = value]
  <2>1. value \in U64 /\ value # None
    BY <1>5, EditsAssumption, ValuesAre DEF Settable
  <2>2. d.timeout = value /\ d.default = c.default /\ d.spinner = c.spinner /\ d.logo = c.logo
        /\ d.fastboot = c.fastboot
    BY <1>4, <1>5
  <2>3. q.timeout = value
    BY <1>3, <2>1, <2>2 DEF OrElse, Parsed
  <2>4. q.default = p.default /\ q.spinner = p.spinner /\ q.logo = p.logo /\ q.fastboot = p.fastboot
    BY <1>2, <1>3, <2>2
  <2>. QED BY <1>1, <1>5, <2>3, <2>4
<1>6. ASSUME key = "spinner" PROVE q = [p EXCEPT ![key] = value]
  <2>1. value \in SpinnerModes
    BY <1>6 DEF Settable
  <2>2. d.spinner = value /\ d.default = c.default /\ d.timeout = c.timeout /\ d.logo = c.logo
        /\ d.fastboot = c.fastboot
    BY <1>4, <1>6
  <2>3. q.spinner = value
    BY <1>3, <2>1, <2>2
  <2>4. q.default = p.default /\ q.timeout = p.timeout /\ q.logo = p.logo /\ q.fastboot = p.fastboot
    BY <1>2, <1>3, <2>2
  <2>. QED BY <1>1, <1>6, <2>3, <2>4
<1>7. ASSUME key = "logo" PROVE q = [p EXCEPT ![key] = value]
  <2>1. value \in Bools
    BY <1>7 DEF Settable, Bools
  <2>2. d.logo = value /\ d.default = c.default /\ d.timeout = c.timeout /\ d.spinner = c.spinner
        /\ d.fastboot = c.fastboot
    BY <1>4, <1>7
  <2>3. q.logo = value
    BY <1>3, <2>1, <2>2
  <2>4. q.default = p.default /\ q.timeout = p.timeout /\ q.spinner = p.spinner /\ q.fastboot = p.fastboot
    BY <1>2, <1>3, <2>2
  <2>. QED BY <1>1, <1>7, <2>3, <2>4
<1>8. ASSUME key = "fastboot" PROVE q = [p EXCEPT ![key] = value]
  <2>1. value \in FastbootModes
    BY <1>8 DEF Settable
  <2>2. d.fastboot = value /\ d.default = c.default /\ d.timeout = c.timeout /\ d.spinner = c.spinner
        /\ d.logo = c.logo
    BY <1>4, <1>8
  <2>3. q.fastboot = value
    BY <1>3, <2>1, <2>2
  <2>4. q.default = p.default /\ q.timeout = p.timeout /\ q.spinner = p.spinner /\ q.logo = p.logo
    BY <1>2, <1>3, <2>2
  <2>. QED BY <1>1, <1>8, <2>3, <2>4
<1>9. q = [p EXCEPT ![key] = value]
  BY <1>5, <1>6, <1>7, <1>8
<1>. QED BY <1>9 DEF ReadsSet

\* A set command of r-boot-cli changes one setting of the next boot of a file
\* as the installer and r-boot-cli write it, whatever its lines, and neither
\* another setting nor an entry.
THEOREM CliSetIsExact == Spec => CliSetExact
<1>. DEFINE Exact ==
              \E written \in {file'} : \E old \in {Menu}, new \in {MenuOf(written)} :
                LET Seen(menu, f) == [timeout |-> menu.timeout, spinner |-> menu.spinner,
                                      logo |-> menu.logo, fastboot |-> EarlyFastboot(f),
                                      default |-> menu.default]
                IN  /\ new.entries = old.entries
                    /\ Seen(new, written) = [Seen(old, file) EXCEPT ![edit'.key] = edit'.value]
<1>1. AgreeInv /\ [Next]_vars => [edit'.op = "set" /\ Generated => Exact]_vars
  <2>. SUFFICES ASSUME AgreeInv, [Next]_vars, vars' # vars, edit'.op = "set", Generated PROVE Exact
    OBVIOUS
  <2>1. Edited(file, edit', file')
    BY NextEdits
  <2>. PICK f, e, g : f = file /\ e = edit' /\ g = file'
    OBVIOUS
  <2>2. PICK key \in {"timeout", "spinner", "logo", "fastboot"} : \E v \in Settable(key) :
          e.key = key /\ e.value = v /\ g = Render([Parse(f) EXCEPT ![key] = v])
    BY <2>1 DEF Edited
  <2>. PICK value \in Settable(key) :
         e.key = key /\ e.value = value /\ g = Render([Parse(f) EXCEPT ![key] = value])
    BY <2>2
  <2>. PICK c, d, old, new : /\ c = Parse(f) /\ d = [c EXCEPT ![key] = value]
                             /\ old = MenuOf(f) /\ new = MenuOf(g)
    OBVIOUS
  <2>3. f \in AnyFile /\ GeneratedFile(f)
    BY DEF AgreeInv, Generated, GeneratedFile
  <2>4. c \in Configs /\ d \in Configs
    BY <2>3, ParseIs, SettableIs
  <2>5. d.entries = c.entries
    BY <2>4 DEF Configs
  <2>6. ReadAs(f, c)
    BY <2>3, OnceRead DEF GeneratedFile
  <2>7. ReadAs(g, d)
    BY <2>4, RenderRead
  <2>8. SeenIn(new, g) = [SeenIn(old, f) EXCEPT ![key] = value]
    <3>1. ReadsSet(f, key, value, g)
      BY <2>4, <2>6, <2>7, SetReads
    <3>. QED BY <3>1 DEF ReadsSet
  <2>9. new.entries = old.entries
    <3>1. Keeps(f, g)
      BY <2>3, <2>4, <2>5, KeepsEntries
    <3>. QED BY <3>1 DEF Keeps
  <2>. QED BY <2>8, <2>9 DEF SeenIn, Menu
<1>. QED BY <1>1, Reach, PTL DEF Spec, CliSetExact

-----------------------------------------------------------------------------
(***************************************************************************)
(* set-default and remove.                                                 *)
(***************************************************************************)

\* What the menu lists: the entries of the file and those of other loaders.
Listed(f, S) ==
    /\ EntriesOf(f.blocks) \in Seq(S) /\ OtherEntries \in Seq(S)
    /\ MenuOf(f).entries = EntriesOf(f.blocks) \o OtherEntries
    /\ \A x \in S : DOMAIN x = EntryFields

\* They are entries, and of both kinds.
LEMMA EntriesAre ==
    ASSUME NEW f \in AnyFile
    PROVE  \E S : Listed(f, S)
<1>. PICK k, a : k = Kept(f.blocks) /\ a = EntriesOf(f.blocks)
  OBVIOUS
<1>. DEFINE S == {EntryOf(k[n]) : n \in DOMAIN k} \cup Others
<1>1. f.blocks \in Seq(Seq(AnyLine))
  BY DEF AnyFile
<1>2. k \in Seq(Seq(AnyLine)) /\ a = [n \in DOMAIN k |-> EntryOf(k[n])]
  BY <1>1, KeptIs
<1>3. a \in Seq(S)
  <2>1. DOMAIN k = 1 .. Len(k) /\ Len(k) \in Nat
    BY <1>2
  <2>2. \A n \in DOMAIN k : EntryOf(k[n]) \in S
    OBVIOUS
  <2>. HIDE DEF S
  <2>3. a = [n \in 1 .. Len(k) |-> EntryOf(k[n])] /\ \A n \in 1 .. Len(k) : EntryOf(k[n]) \in S
    BY <1>2, <2>1, <2>2
  <2>. QED BY <2>1, <2>3
<1>4. OtherEntries \in Seq(S)
  <2>1. OtherEntries \in Seq(Others) /\ Others \subseteq S
    BY EditsAssumption
  <2>. HIDE DEF S
  <2>. QED BY <2>1
<1>5. \A x \in S : DOMAIN x = EntryFields
  BY DEF EntryOf, Others, EntryFields
<1>6. MenuOf(f).entries = a \o OtherEntries
  BY DEF MenuOf
<1>. HIDE DEF S
<1>7. Listed(f, S)
  BY <1>3, <1>4, <1>5, <1>6 DEF Listed
<1>. QED BY <1>7

\* The entry that a default picks which is nothing but an id.
LEMMA DefaultBoots ==
    ASSUME NEW menu, NEW S, menu.entries \in Seq(S), \A x \in S : DOMAIN x = EntryFields,
           NEW id, menu.default = id, id # None, id \notin DOMAIN HasPrefix,
           \A i \in DOMAIN menu.entries : menu.entries[i].title = id => menu.entries[i].id = id,
           NEW n \in DOMAIN menu.entries, menu.entries[n].id = id
    PROVE  Unattended(menu).id = id
<1>. PICK s : s = menu.entries
  OBVIOUS
<1>. DEFINE I == {i \in 1 .. Len(s) : IsDefault(s[i], id)}
<1>1. s \in Seq(S) /\ DOMAIN s = 1 .. Len(s) /\ Len(s) \in Nat /\ n \in 1 .. Len(s) /\ s # <<>>
  OBVIOUS
<1>2. n \in I
  BY <1>1 DEF IsDefault
<1>3. DefaultIndex(menu) = IF (IF I # {} THEN Min(I) ELSE 0) = 0 THEN 1 ELSE IF I # {} THEN Min(I) ELSE 0
  BY DEF DefaultIndex, SelectInSeq
<1>4. Min(I) \in I
  <2>1. I \in SUBSET Nat /\ I # {}
    BY <1>1, <1>2
  <2>. HIDE DEF I
  <2>. QED BY <2>1, LeastIs
<1>. PICK m : m = Min(I)
  OBVIOUS
<1>5. m \in 1 .. Len(s) /\ IsDefault(s[m], id)
  BY <1>4
<1>6. DefaultIndex(menu) = m
  <2>. HIDE DEF I
  <2>. QED BY <1>1, <1>2, <1>3, <1>5
<1>7. s[m].id = id
  BY <1>1, <1>5 DEF IsDefault
<1>8. Unattended(menu) = [s[m] EXCEPT !.image = None]
  BY <1>1, <1>6 DEF Unattended
<1>9. DOMAIN s[m] = EntryFields
  <2>. HIDE DEF I
  <2>1. s[m] \in S
    <3>1. \A i \in 1 .. Len(s) : s[i] \in S
      BY <1>1
    <3>. QED BY <1>5, <3>1
  <2>. QED BY <2>1
<1>. QED BY <1>7, <1>8, <1>9 DEF EntryFields

Joins(S, a, b, s) ==
    /\ s \in Seq(S) /\ Len(s) = Len(a) + Len(b)
    /\ \A i \in 1 .. Len(a) + Len(b) : s[i] = IF i <= Len(a) THEN a[i] ELSE b[i - Len(a)]

\* The elements of a list after a list.
LEMMA ConcatAre ==
    ASSUME NEW S, NEW a \in Seq(S), NEW b \in Seq(S), NEW s, s = a \o b
    PROVE  Joins(S, a, b, s)
BY ConcatProperties DEF Joins

\* set-default in a generated file.
LEMMA SetDefaultBoots ==
    ASSUME NEW f \in AnyFile, GeneratedFile(f), NEW id \in EntryIds, id \notin DOMAIN HasPrefix,
           \A i \in DOMAIN MenuOf(f).entries : MenuOf(f).entries[i].title = id => MenuOf(f).entries[i].id = id,
           NEW n \in DOMAIN f.blocks, CliEntry(f.blocks[n]).id = id,
           NEW g, g = Render([Parse(f) EXCEPT !.default = id])
    PROVE  Unattended(MenuOf(g)).id = id
<1>. PICK c, d, new : c = Parse(f) /\ d = [c EXCEPT !.default = id] /\ new = MenuOf(g)
  OBVIOUS
<1>1. id \in Maybe /\ id # None
  BY EditsAssumption, ValuesAre DEF Maybe
<1>2. c \in Configs /\ d \in Configs
  BY <1>1, ParseIs, SetIs
<1>3. d.default = id /\ d.entries = c.entries
  BY <1>2 DEF Configs
<1>4. new.entries = MenuOf(f).entries
      /\ EntriesOf(f.blocks) = [i \in DOMAIN f.blocks |-> EntryOf(f.blocks[i])]
      /\ \A i \in DOMAIN f.blocks : EntryOf(f.blocks[i]).id = CliEntry(f.blocks[i]).id
  <2>1. Keeps(f, g)
    BY <1>2, <1>3, KeepsEntries
  <2>. QED BY <2>1 DEF Keeps
<1>5. new.default = id
  <2>1. ReadAs(g, d)
    BY <1>2, RenderRead
  <2>. QED BY <1>1, <1>3, <2>1 DEF ReadAs, OrElse
<1>6. PICK S : Listed(f, S)
  BY EntriesAre
<1>. PICK a, o, s : a = EntriesOf(f.blocks) /\ o = OtherEntries /\ s = new.entries
  OBVIOUS
<1>7. a \in Seq(S) /\ o \in Seq(S) /\ s = a \o o /\ \A x \in S : DOMAIN x = EntryFields
  BY <1>4, <1>6 DEF Listed
<1>8. DOMAIN a = DOMAIN f.blocks /\ a[n].id = id
  BY <1>4
<1>9. s \in Seq(S) /\ n \in DOMAIN s /\ s[n].id = id
  <2>1. n \in 1 .. Len(a) /\ Len(a) \in Nat /\ Len(o) \in Nat
    BY <1>7, <1>8
  <2>2. s \in Seq(S) /\ Len(s) = Len(a) + Len(o) /\ \A i \in 1 .. Len(a) + Len(o) :
          s[i] = IF i <= Len(a) THEN a[i] ELSE o[i - Len(a)]
    <3>1. Joins(S, a, o, s)
      BY <1>7, ConcatAre
    <3>. QED BY <3>1 DEF Joins
  <2>. QED BY <1>8, <2>1, <2>2
<1>10. \A i \in DOMAIN s : s[i].title = id => s[i].id = id
  BY <1>4
<1>11. /\ new.entries \in Seq(S) /\ n \in DOMAIN new.entries /\ new.entries[n].id = id
       /\ \A i \in DOMAIN new.entries : new.entries[i].title = id => new.entries[i].id = id
  BY <1>9, <1>10
<1>. QED BY <1>1, <1>5, <1>7, <1>11, DefaultBoots, ZenonT(30)

\* A sequence without one of its elements, and what follows it.
Lacks(S, s, n, t) ==
    /\ t \in Seq(S) /\ Len(t) = Len(s) - 1
    /\ \A i \in 1 .. Len(s) - 1 : t[i] = s[IF i < n THEN i ELSE i + 1]

\* RemoveAt makes it.
LEMMA RemoveAtLacks ==
    ASSUME NEW S, NEW s \in Seq(S), NEW n \in 1 .. Len(s), NEW t, t = RemoveAt(s, n)
    PROVE  Lacks(S, s, n, t)
<1>. PICK a, b, l : a = SubSeq(s, 1, n - 1) /\ b = SubSeq(s, n + 1, Len(s)) /\ l = Len(s)
  OBVIOUS
<1>1. l \in Nat /\ n \in 1 .. l /\ \A i \in 1 .. l : s[i] \in S
  OBVIOUS
<1>2. a \in Seq(S) /\ Len(a) = n - 1 /\ \A i \in 1 .. n - 1 : a[i] = s[i]
  BY <1>1
<1>3. b \in Seq(S) /\ Len(b) = l - n /\ \A i \in 1 .. l - n : b[i] = s[i + n]
  BY <1>1
<1>4. Joins(S, a, b, t)
  BY <1>2, <1>3, ConcatAre DEF RemoveAt
<1>5. t \in Seq(S) /\ Len(t) = (n - 1) + (l - n)
      /\ \A i \in 1 .. (n - 1) + (l - n) : t[i] = IF i <= n - 1 THEN a[i] ELSE b[i - (n - 1)]
  BY <1>2, <1>3, <1>4 DEF Joins
<1>6. ASSUME NEW i \in 1 .. l - 1 PROVE t[i] = s[IF i < n THEN i ELSE i + 1]
  <2>1. CASE i < n
    BY <1>1, <1>2, <1>5, <2>1, SMTT(30)
  <2>2. CASE i >= n
    <3>1. t[i] = b[i - (n - 1)] /\ i - (n - 1) \in 1 .. l - n
      BY <1>1, <1>5, <2>2, SMTT(30)
    <3>2. b[i - (n - 1)] = s[(i - (n - 1)) + n] /\ (i - (n - 1)) + n = i + 1
      BY <1>1, <1>3, <3>1
    <3>. QED BY <1>1, <2>2, <3>1, <3>2
  <2>. QED BY <1>1, <2>1, <2>2
<1>. QED BY <1>1, <1>5, <1>6 DEF Lacks

\* Only one sequence lacks it.
LEMMA LacksOne ==
    ASSUME NEW S, NEW s \in Seq(S), NEW n, NEW t, NEW u, Lacks(S, s, n, t), Lacks(S, s, n, u)
    PROVE  t = u
<1>1. t \in Seq(S) /\ u \in Seq(S) /\ Len(t) = Len(u) /\ \A i \in 1 .. Len(t) : t[i] = u[i]
  BY DEF Lacks
<1>. QED BY <1>1, SeqEqual

\* More at the end makes no difference.
LEMMA LacksLonger ==
    ASSUME NEW S, NEW s \in Seq(S), NEW o \in Seq(S), NEW n \in 1 .. Len(s), NEW t, Lacks(S, s, n, t),
           NEW p, p = s \o o, NEW q, q = t \o o
    PROVE  Lacks(S, p, n, q)
<1>. PICK l, k : l = Len(s) /\ k = Len(o)
  OBVIOUS
<1>1. t \in Seq(S) /\ Len(t) = l - 1 /\ \A i \in 1 .. l - 1 : t[i] = s[IF i < n THEN i ELSE i + 1]
  BY DEF Lacks
<1>2. l \in Nat /\ k \in Nat /\ n \in 1 .. l
  OBVIOUS
<1>3. Joins(S, s, o, p) /\ Joins(S, t, o, q)
  BY <1>1, ConcatAre
<1>4. p \in Seq(S) /\ Len(p) = l + k /\ \A i \in 1 .. l + k : p[i] = IF i <= l THEN s[i] ELSE o[i - l]
  BY <1>3 DEF Joins
<1>5. q \in Seq(S) /\ Len(q) = (l - 1) + k
      /\ \A i \in 1 .. (l - 1) + k : q[i] = IF i <= l - 1 THEN t[i] ELSE o[i - (l - 1)]
  BY <1>1, <1>3 DEF Joins
<1>6. ASSUME NEW i \in 1 .. (l + k) - 1 PROVE q[i] = p[IF i < n THEN i ELSE i + 1]
  <2>1. CASE i < n
    BY <1>1, <1>2, <1>4, <1>5, <2>1
  <2>2. CASE i >= n /\ i <= l - 1
    <3>1. q[i] = t[i] /\ t[i] = s[i + 1] /\ i + 1 \in 1 .. l
      BY <1>1, <1>2, <1>5, <2>2
    <3>2. p[i + 1] = s[i + 1]
      BY <1>2, <1>4, <3>1
    <3>. QED BY <1>2, <2>2, <3>1, <3>2
  <2>3. CASE i > l - 1
    <3>1. q[i] = o[i - (l - 1)] /\ i + 1 \in 1 .. l + k /\ i + 1 > l
      BY <1>2, <1>5, <2>3
    <3>2. p[i + 1] = o[i + 1 - l] /\ i + 1 - l = i - (l - 1)
      BY <1>2, <1>4, <3>1
    <3>. QED BY <1>2, <2>3, <3>1, <3>2
  <2>4. i < n \/ (i >= n /\ i <= l - 1) \/ i > l - 1
    BY <1>2
  <2>. QED BY <2>1, <2>2, <2>3, <2>4, Zenon
<1>7. Len(p) = l + k /\ Len(q) = Len(p) - 1 /\ q \in Seq(S)
  BY <1>2, <1>4, <1>5
<1>8. \A i \in 1 .. Len(p) - 1 : q[i] = p[IF i < n THEN i ELSE i + 1]
  BY <1>6, <1>7
<1>. QED BY <1>7, <1>8 DEF Lacks

\* r-boot-cli finds the first entry with an id.
FirstOf(c, id, n) ==
    /\ n \in 1 .. Len(c.entries) /\ c.entries[n].id = id
    /\ \A i \in 1 .. n - 1 : c.entries[i].id # id

LosesFirst(c, id, n, d) ==
    /\ FirstOf(c, id, n)
    /\ d = [c EXCEPT !.entries = RemoveAt(c.entries, n),
                     !.default = IF c.default = id THEN None ELSE c.default]

\* An id that is there has a first entry, and remove takes it.
LEMMA FindsFirst ==
    ASSUME NEW c \in Configs, NEW id, \E i \in DOMAIN c.entries : c.entries[i].id = id
    PROVE  \E n : LosesFirst(c, id, n, Removed(c, id))
<1>. PICK e : e = c.entries
  OBVIOUS
<1>. DEFINE I == {k \in 1 .. Len(e) : e[k].id = id}
<1>1. e \in Seq(CliEntries) /\ Len(e) \in Nat /\ DOMAIN e = 1 .. Len(e)
  BY DEF Configs
<1>2. I # {} /\ I \in SUBSET Nat
  BY <1>1
<1>3. Removed(c, id) = [c EXCEPT !.entries = RemoveAt(e, IF I # {} THEN Min(I) ELSE 0),
                                 !.default = IF c.default = id THEN None ELSE c.default]
  BY DEF Removed, SelectInSeq
<1>4. Min(I) \in I /\ \A i \in I : Min(I) <= i
  <2>. HIDE DEF I
  <2>. QED BY <1>2, LeastIs
<1>. PICK n : n = Min(I)
  OBVIOUS
<1>5. n \in 1 .. Len(e) /\ e[n].id = id /\ \A i \in 1 .. n - 1 : e[i].id # id
  <2>1. n \in 1 .. Len(e) /\ e[n].id = id
    BY <1>4
  <2>2. ASSUME NEW i \in 1 .. n - 1 PROVE e[i].id # id
    <3>1. i \in 1 .. Len(e) /\ i < n
      BY <1>1, <2>1
    <3>2. e[i].id = id => n <= i
      BY <1>4, <3>1
    <3>. QED BY <1>1, <2>1, <3>1, <3>2
  <2>. QED BY <2>1, <2>2
<1>6. FirstOf(c, id, n)
  BY <1>5 DEF FirstOf
<1>. HIDE DEF I
<1>7. Removed(c, id) = [c EXCEPT !.entries = RemoveAt(c.entries, n),
                                 !.default = IF c.default = id THEN None ELSE c.default]
  BY <1>2, <1>3
<1>. QED BY <1>6, <1>7 DEF LosesFirst

ListOf(S, k, t) == t = [i \in 1 .. k |-> t[i]] /\ \A i \in 1 .. k : t[i] \in S

\* A list given by its elements.
LEMMA ListIs ==
    ASSUME NEW S, NEW k \in Nat, NEW t, ListOf(S, k, t)
    PROVE  t \in Seq(S) /\ Len(t) = k
<1>1. t \in Seq(S)
  BY DEF ListOf
<1>2. DOMAIN t = 1 .. k
  BY DEF ListOf
<1>. QED BY <1>1, <1>2

\* remove in a generated file.
RemovesFirst(f, id, g) ==
    /\ LastValue(g.header, {"default"})
         = IF LastValue(f.header, {"default"}) = id THEN None ELSE LastValue(f.header, {"default"})
    /\ \E n \in DOMAIN MenuOf(f).entries :
         /\ MenuOf(f).entries[n].id = id
         /\ \A i \in 1 .. n - 1 : MenuOf(f).entries[i].id # id
         /\ MenuOf(g).entries = RemoveAt(MenuOf(f).entries, n)

\* It takes out the first entry with the id, and forgets the default if it
\* was this id.
LEMMA RemovesOne ==
    ASSUME NEW f \in AnyFile, GeneratedFile(f), NEW id,
           NEW m \in DOMAIN f.blocks, CliEntry(f.blocks[m]).id = id,
           NEW g, g = Render(Removed(Parse(f), id))
    PROVE  RemovesFirst(f, id, g)
<1>. PICK b, c, d : b = f.blocks /\ c = Parse(f) /\ d = Removed(c, id)
  OBVIOUS
<1>1. c \in Configs /\ d \in Configs
  BY ParseIs, RemovedIs
<1>2. b \in Seq(Seq(AnyLine)) /\ \A i \in DOMAIN f.blocks : GeneratedBlock(f.blocks[i])
  BY DEF AnyFile, GeneratedFile
<1>3. c.entries = [i \in DOMAIN b |-> CliEntry(b[i])] /\ c.default = LastValue(f.header, {"default"})
  BY DEF Parse
<1>4. PICK n : LosesFirst(c, id, n, d)
  <2>1. \E i \in DOMAIN c.entries : c.entries[i].id = id
    BY <1>3
  <2>. QED BY <1>1, <2>1, FindsFirst
<1>5. d.entries = RemoveAt(c.entries, n) /\ d.default = IF c.default = id THEN None ELSE c.default
  BY <1>1, <1>4 DEF Configs, LosesFirst
<1>6. LastValue(g.header, {"default"}) = d.default
  BY <1>1, RenderSays, LastValueOf
<1>. PICK e, w, l : e = c.entries /\ w = d.entries /\ l = Len(b)
  OBVIOUS
<1>7. /\ l \in Nat /\ DOMAIN b = 1 .. l /\ e \in Seq(CliEntries) /\ Len(e) = l
      /\ n \in 1 .. l /\ e[n].id = id /\ \A i \in 1 .. n - 1 : e[i].id # id
  <2>1. l \in Nat /\ DOMAIN b = 1 .. l
    BY <1>2
  <2>2. e \in Seq(CliEntries) /\ DOMAIN e = 1 .. l
    BY <1>1, <1>3, <2>1 DEF Configs
  <2>3. Len(e) = l
    BY <2>1, <2>2
  <2>. QED BY <1>4, <2>1, <2>2, <2>3 DEF FirstOf, LosesFirst
<1>8. Lacks(CliEntries, e, n, w)
  BY <1>5, <1>7, RemoveAtLacks
<1>. DEFINE from == [i \in 1 .. l - 1 |-> IF i < n THEN i ELSE i + 1]
<1>9. from \in Seq(1 .. l) /\ DOMAIN from = 1 .. l - 1
      /\ \A i \in 1 .. l - 1 : from[i] = (IF i < n THEN i ELSE i + 1) /\ from[i] \in 1 .. l
  <2>1. \A i \in 1 .. l - 1 : (IF i < n THEN i ELSE i + 1) \in 1 .. l
    BY <1>7
  <2>2. l - 1 \in Nat
    BY <1>7
  <2>. QED BY <2>1, <2>2
<1>. HIDE DEF from
<1>10. w = [i \in DOMAIN from |-> CliEntry(b[from[i]])]
  <2>1. w \in Seq(CliEntries) /\ Len(w) = l - 1 /\ \A i \in 1 .. l - 1 : w[i] = e[from[i]]
    BY <1>7, <1>8, <1>9, SMTT(30) DEF Lacks
  <2>2. \A i \in 1 .. l - 1 : w[i] = CliEntry(b[from[i]])
    BY <1>3, <1>7, <1>9, <2>1
  <2>3. w = [i \in 1 .. l - 1 |-> w[i]]
    BY <1>7, <2>1
  <2>. QED BY <1>9, <2>2, <2>3
<1>11. g \in AnyFile /\ Written(f, d, from, g)
  <2>1. g \in AnyFile
    BY <1>1, RenderIs
  <2>2. g.blocks = [i \in DOMAIN d.entries |-> RenderEntry(d.entries[i])]
    BY DEF Render
  <2>. QED BY <1>10, <2>1, <2>2 DEF Written
<1>12. MenuHas(f, from, g)
  <2>1. from \in Seq(DOMAIN f.blocks)
    BY <1>7, <1>9
  <2>. QED BY <1>1, <1>2, <1>11, <2>1, WrittenEntries
<1>13. PICK S : Listed(f, S)
  BY EntriesAre
<1>. PICK a, o, t, p, q : /\ a = EntriesOf(f.blocks) /\ o = OtherEntries /\ t = EntriesOf(g.blocks)
                          /\ p = MenuOf(f).entries /\ q = MenuOf(g).entries
  OBVIOUS
<1>14. a \in Seq(S) /\ o \in Seq(S) /\ p = a \o o /\ q = t \o o
  <2>1. MenuOf(g).entries = EntriesOf(g.blocks) \o OtherEntries
    BY DEF MenuOf
  <2>. QED BY <1>13, <2>1 DEF Listed
<1>15. /\ a = [i \in 1 .. l |-> EntryOf(b[i])] /\ t = [i \in DOMAIN from |-> EntryOf(b[from[i]])]
       /\ \A i \in 1 .. l : EntryOf(b[i]).id = CliEntry(b[i]).id
  BY <1>7, <1>12 DEF MenuHas
<1>16. Len(a) = l /\ \A i \in 1 .. l : a[i] \in S /\ a[i].id = e[i].id
  <2>1. \A i \in 1 .. l : a[i].id = e[i].id
    BY <1>3, <1>7, <1>15
  <2>2. DOMAIN a = 1 .. l
    BY <1>15
  <2>3. Len(a) = l
    BY <1>7, <1>14, <2>2
  <2>4. \A i \in 1 .. l : a[i] \in S
    BY <1>14, <2>2
  <2>. QED BY <2>1, <2>3, <2>4
<1>17. Lacks(S, a, n, t)
  <2>1. \A i \in 1 .. l - 1 : t[i] = a[IF i < n THEN i ELSE i + 1]
    BY <1>9, <1>15
  <2>2. t = [i \in 1 .. l - 1 |-> t[i]] /\ l - 1 \in Nat
    BY <1>7, <1>9, <1>15
  <2>3. \A i \in 1 .. l - 1 : t[i] \in S
    <3>1. ASSUME NEW i \in 1 .. l - 1 PROVE t[i] = a[from[i]] /\ from[i] \in 1 .. l
      <4>1. from[i] \in 1 .. l
        BY <1>9
      <4>2. t[i] = EntryOf(b[from[i]]) /\ a[from[i]] = EntryOf(b[from[i]])
        BY <1>9, <1>15, <4>1
      <4>. QED BY <4>1, <4>2
    <3>. QED BY <1>16, <3>1
  <2>4. t \in Seq(S) /\ Len(t) = l - 1
    <3>. PICK k : k = l - 1
      OBVIOUS
    <3>1. ListOf(S, k, t) /\ k \in Nat
      BY <2>2, <2>3 DEF ListOf
    <3>2. t \in Seq(S) /\ Len(t) = k
      BY <3>1, ListIs
    <3>. QED BY <3>2
  <2>. QED BY <1>16, <2>1, <2>4 DEF Lacks
<1>18. Lacks(S, p, n, q)
  BY <1>7, <1>14, <1>16, <1>17, LacksLonger
<1>19. /\ p \in Seq(S) /\ n \in 1 .. Len(p)
       /\ p[n].id = id /\ \A i \in 1 .. n - 1 : p[i].id # id
  <2>1. Joins(S, a, o, p)
    BY <1>14, ConcatAre
  <2>2. Len(o) \in Nat
    BY <1>14
  <2>3. p \in Seq(S) /\ Len(p) = l + Len(o) /\ \A i \in 1 .. l : p[i] = a[i]
    BY <1>7, <1>16, <2>1, <2>2, SMTT(30) DEF Joins
  <2>4. n \in 1 .. Len(p) /\ p[n].id = id
    BY <1>7, <1>16, <2>2, <2>3
  <2>5. ASSUME NEW i \in 1 .. n - 1 PROVE p[i].id # id
    <3>1. i \in 1 .. l
      BY <1>7
    <3>. QED BY <1>7, <1>16, <2>3, <3>1
  <2>. QED BY <2>3, <2>4, <2>5
<1>20. q = RemoveAt(p, n)
  <2>. PICK r : r = RemoveAt(p, n)
    OBVIOUS
  <2>1. Lacks(S, p, n, r)
    BY <1>19, RemoveAtLacks
  <2>. QED BY <1>18, <1>19, <2>1, LacksOne
<1>21. n \in DOMAIN p
  BY <1>19
<1>. QED BY <1>3, <1>5, <1>6, <1>19, <1>20, <1>21 DEF RemovesFirst

\* In a file as the installer and r-boot-cli write it, whatever its lines,
\* set-default makes an entry of that id the one that boots unattended, and
\* remove takes out the first entry with the id and no other.
THEOREM CliDefaultAndRemoveIsExact == Spec => CliDefaultAndRemove
<1>. DEFINE
       SetsDefault == edit'.op = "set-default" /\ Generated /\ NothingButId(edit'.value) =>
            \E written \in {file'} : Unattended(MenuOf(written)).id = edit'.value
       Removes == edit'.op = "remove" /\ Generated =>
            \E written \in {file'} : \E old \in {Menu}, new \in {MenuOf(written)} :
              /\ LET default == LastValue(file.header, {"default"})
                 IN  LastValue(written.header, {"default"})
                       = IF default = edit'.value THEN None ELSE default
              /\ \E n \in DOMAIN old.entries :
                   /\ old.entries[n].id = edit'.value
                   /\ \A i \in 1 .. n - 1 : old.entries[i].id # edit'.value
                   /\ new.entries = SubSeq(old.entries, 1, n - 1)
                                    \o SubSeq(old.entries, n + 1, Len(old.entries))
<1>1. AgreeInv /\ [Next]_vars => [SetsDefault]_vars
  <2>. SUFFICES ASSUME AgreeInv, [Next]_vars, vars' # vars, edit'.op = "set-default", Generated,
                       NothingButId(edit'.value)
                PROVE  Unattended(MenuOf(file')).id = edit'.value
    OBVIOUS
  <2>1. Edited(file, edit', file')
    BY NextEdits
  <2>. PICK f, e, g : f = file /\ e = edit' /\ g = file'
    OBVIOUS
  <2>2. PICK id \in EntryIds :
          /\ e.value = id /\ \E i \in DOMAIN f.blocks : CliEntry(f.blocks[i]).id = id
          /\ g = Render([Parse(f) EXCEPT !.default = id])
    BY <2>1 DEF Edited
  <2>. PICK n \in DOMAIN f.blocks : CliEntry(f.blocks[n]).id = id
    BY <2>2
  <2>3. f \in AnyFile /\ GeneratedFile(f)
    BY DEF AgreeInv, Generated, GeneratedFile
  <2>4. /\ id \notin DOMAIN HasPrefix
        /\ \A i \in DOMAIN MenuOf(f).entries : MenuOf(f).entries[i].title = id => MenuOf(f).entries[i].id = id
    BY <2>2 DEF NothingButId, Menu
  <2>5. Unattended(MenuOf(g)).id = id
    BY <2>2, <2>3, <2>4, SetDefaultBoots
  <2>. QED BY <2>2, <2>5
<1>2. AgreeInv /\ [Next]_vars => [Removes]_vars
  <2>. SUFFICES ASSUME AgreeInv, [Next]_vars, vars' # vars, edit'.op = "remove", Generated
                PROVE  Removes
    OBVIOUS
  <2>1. Edited(file, edit', file')
    BY NextEdits
  <2>. PICK f, e, g : f = file /\ e = edit' /\ g = file'
    OBVIOUS
  <2>2. PICK id \in EntryIds :
          /\ e.value = id /\ \E i \in DOMAIN f.blocks : CliEntry(f.blocks[i]).id = id
          /\ g = Render(Removed(Parse(f), id))
    BY <2>1 DEF Edited
  <2>. PICK n \in DOMAIN f.blocks : CliEntry(f.blocks[n]).id = id
    BY <2>2
  <2>3. f \in AnyFile /\ GeneratedFile(f)
    BY DEF AgreeInv, Generated, GeneratedFile
  <2>4. RemovesFirst(f, id, g)
    BY <2>2, <2>3, RemovesOne
  <2>. QED BY <2>2, <2>4 DEF RemovesFirst, RemoveAt, Menu
<1>3. AgreeInv /\ [Next]_vars => [SetsDefault /\ Removes]_vars
  BY <1>1, <1>2
<1>. QED BY <1>3, Reach, PTL DEF Spec, CliDefaultAndRemove
=============================================================================
