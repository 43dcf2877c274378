----------------------------- MODULE ListLemmas -----------------------------
(***************************************************************************)
(* Facts about lists and about the dictionaries SpecIR builds from them.   *)
(* The maximum of a bounded set of naturals comes from the library's       *)
(* well-founded ordering of finite sets: among the intervals k..n, k in H, *)
(* the smallest one starts at the maximum.                                 *)
(***************************************************************************)
EXTENDS SpecIR, SequencesExt, FiniteSetTheorems, SequenceTheorems, TLAPS

\* A non-empty set of positions of a list has a last one: {x.key: x for x in
\* list} (gate.py, _diff_by_id) always finds the item that stays.
LEMMA LastPosition ==
  ASSUME NEW n \in Nat, NEW H \in SUBSET (1..n), H # {}
  PROVE  \E k \in H : \A j \in H : j <= k
<1> DEFINE T == {k..n : k \in H}
           R == StrictSubsetOrdering(1..n)
<1>1. IsWellFoundedOn(R, FiniteSubsetsOf(1..n))
  BY FS_Interval, FS_StrictSubsetOrderingWellFounded
<1>2. \A k \in H : k..n \in SUBSET (1..n) /\ IsFiniteSet(k..n)
  BY FS_Interval
<1>3. T \subseteq FiniteSubsetsOf(1..n) /\ T # {}
  BY <1>2 DEF FiniteSubsetsOf
<1>4. PICK s \in T : \A t \in T : <<t, s>> \notin R
  <2> HIDE DEF R, T
  <2> QED BY <1>1, <1>3, WFMin
<1>5. PICK k \in H : s = k..n
  BY DEF T
<1>6. ASSUME NEW j \in H, j > k
      PROVE  FALSE
  <2>1. (j..n) \subseteq (k..n) /\ (j..n) # (k..n)
    BY <1>6
  <2>2. <<j..n, k..n>> \in R
    BY <2>1, <1>2 DEF StrictSubsetOrdering
  <2> QED
    BY <2>2, <1>4, <1>5
<1> QED
  BY <1>6

\* The item that stays is an item of the list.
LEMMA LastAtIsItem ==
  ASSUME NEW seq, IsList(seq), NEW H \in SUBSET (DOMAIN seq), H # {}
  PROVE  LastAt(seq, H) \in Range(seq)
<1>1. DOMAIN seq = 1..Len(seq) /\ Len(seq) \in Nat
  BY DEF IsList
<1>2. \E k \in H : \A j \in H : j <= k
  BY <1>1, LastPosition
<1>3. (CHOOSE k \in H : \A j \in H : j <= k) \in DOMAIN seq
  BY <1>2
<1> QED
  BY <1>3 DEF LastAt, Range

\* A dictionary by name holds items of the list it is built from.
LEMMA ByNameIsItem ==
  ASSUME NEW seq, IsList(seq), NEW n \in DOMAIN ByName(seq)
  PROVE  ByName(seq)[n] \in Range(seq)
<1> DEFINE H == {k \in DOMAIN seq : seq[k].name = n}
<1>1. H # {} /\ H \in SUBSET (DOMAIN seq)
  BY DEF ByName
<1>2. ByName(seq)[n] = LastAt(seq, H)
  BY DEF ByName
<1> HIDE DEF H
<1> QED
  BY <1>1, <1>2, LastAtIsItem
-----------------------------------------------------------------------------
(* Induction up to a bound, for a property given as the set of the numbers  *)
(* that have it.                                                           *)

\* A set with 0 that a step never leaves holds every number up to the bound:
\* what a loop over a list keeps, it keeps for the whole list.
LEMMA BoundedInduction ==
  ASSUME NEW n \in Nat, NEW S, 0 \in S, \A k \in 0..(n - 1) : k \in S => k + 1 \in S
  PROVE  \A k \in 0..n : k \in S
<1> SUFFICES ASSUME NEW k \in 0..n, k \notin S
             PROVE  FALSE
  OBVIOUS
<1> DEFINE H == {j \in 1..n : j <= k /\ j - 1 \in S}
<1>1. 1 \in H
  OBVIOUS
<1>2. H \in SUBSET (1..n) /\ H # {}
  BY <1>1
<1>3. PICK m \in H : \A j \in H : j <= m
  <2> HIDE DEF H
  <2> QED BY <1>2, LastPosition
<1>4. m \in S
  <2>1. m - 1 \in 0..(n - 1) /\ m - 1 \in S
    OBVIOUS
  <2> QED BY <2>1
<1>5. m # k
  BY <1>4
<1>6. m + 1 \in H
  BY <1>4, <1>5
<1> QED
  BY <1>3, <1>6

-----------------------------------------------------------------------------
(* Lists.                                                                  *)

\* A list has the positions 1 to its length, and its items at them.
LEMMA ListShape ==
  ASSUME NEW s, IsList(s)
  PROVE  /\ s \in Seq(Range(s))
         /\ Len(s) \in Nat
         /\ DOMAIN s = 1..Len(s)
         /\ \A k \in 1..Len(s) : s[k] \in Range(s)
         /\ \A x \in Range(s) : \E k \in 1..Len(s) : s[k] = x
         /\ s = [k \in 1..Len(s) |-> s[k]]
BY DEF IsList, Range

\* A sequence over any set is a list.
LEMMA SeqIsList ==
  ASSUME NEW S, NEW s \in Seq(S)
  PROVE  IsList(s) /\ Range(s) \subseteq S
BY DEF IsList, Range

\* Lists of the same items at the same positions are the same list.
LEMMA ListEqual ==
  ASSUME NEW s, NEW t, IsList(s), IsList(t), Len(s) = Len(t), \A k \in 1..Len(s) : s[k] = t[k]
  PROVE  s = t
<1>1. s = [k \in 1..Len(s) |-> s[k]] /\ t = [k \in 1..Len(t) |-> t[k]]
  BY ListShape
<1> QED
  BY <1>1

\* What is defined position by position is a list.
LEMMA ListOfPositions ==
  ASSUME NEW s, NEW n \in Nat, DOMAIN s = 1..n, s = [k \in 1..n |-> s[k]]
  PROVE  IsList(s) /\ Len(s) = n
<1>1. s \in [1..n -> Range(s)]
  BY DEF Range
<1> HIDE DEF Range
<1>2. s \in Seq(Range(s))
  BY <1>1
<1> QED
  BY <1>1, <1>2 DEF IsList

\* The empty list, and lists of one and two items.
LEMMA ShortLists ==
  /\ IsList(<<>>) /\ Range(<<>>) = {} /\ Len(<<>>) = 0
  /\ \A x : IsList(<<x>>) /\ Range(<<x>>) = {x} /\ Len(<<x>>) = 1
  /\ \A x, y : IsList(<<x, y>>) /\ Range(<<x, y>>) = {x, y} /\ Len(<<x, y>>) = 2
<1>1. IsList(<<>>) /\ Range(<<>>) = {} /\ Len(<<>>) = 0
  BY DEF IsList, Range
<1>2. ASSUME NEW x PROVE IsList(<<x>>) /\ Range(<<x>>) = {x} /\ Len(<<x>>) = 1
  <2>1. <<x>> \in Seq({x}) /\ Len(<<x>>) = 1 /\ <<x>>[1] = x
    OBVIOUS
  <2> QED BY <2>1 DEF IsList, Range
<1>3. ASSUME NEW x, NEW y
      PROVE  IsList(<<x, y>>) /\ Range(<<x, y>>) = {x, y} /\ Len(<<x, y>>) = 2
  <2>1. <<x, y>> \in Seq({x, y}) /\ Len(<<x, y>>) = 2 /\ <<x, y>>[1] = x /\ <<x, y>>[2] = y
    OBVIOUS
  <2> QED BY <2>1 DEF IsList, Range
<1> QED
  BY <1>1, <1>2, <1>3

\* Lists of three, four and six items.
LEMMA LongerLists ==
  /\ \A x, y, z : IsList(<<x, y, z>>) /\ Range(<<x, y, z>>) = {x, y, z}
  /\ \A x, y, z, u : IsList(<<x, y, z, u>>) /\ Range(<<x, y, z, u>>) = {x, y, z, u}
  /\ \A x, y, z, u, v, w :
       /\ IsList(<<x, y, z, u, v, w>>)
       /\ Range(<<x, y, z, u, v, w>>) = {x, y, z, u, v, w}
<1>1. ASSUME NEW x, NEW y, NEW z
      PROVE  IsList(<<x, y, z>>) /\ Range(<<x, y, z>>) = {x, y, z}
  <2>1. <<x, y, z>> \in Seq({x, y, z}) /\ Len(<<x, y, z>>) = 3
        /\ <<x, y, z>>[1] = x /\ <<x, y, z>>[2] = y /\ <<x, y, z>>[3] = z
    OBVIOUS
  <2> QED BY <2>1 DEF IsList, Range
<1>2. ASSUME NEW x, NEW y, NEW z, NEW u
      PROVE  IsList(<<x, y, z, u>>) /\ Range(<<x, y, z, u>>) = {x, y, z, u}
  <2>1. <<x, y, z, u>> \in Seq({x, y, z, u}) /\ Len(<<x, y, z, u>>) = 4
        /\ <<x, y, z, u>>[1] = x /\ <<x, y, z, u>>[2] = y
        /\ <<x, y, z, u>>[3] = z /\ <<x, y, z, u>>[4] = u
    OBVIOUS
  <2> QED BY <2>1 DEF IsList, Range
<1>3. ASSUME NEW x, NEW y, NEW z, NEW u, NEW v, NEW w
      PROVE  /\ IsList(<<x, y, z, u, v, w>>)
             /\ Range(<<x, y, z, u, v, w>>) = {x, y, z, u, v, w}
  <2>1. <<x, y, z, u, v, w>> \in Seq({x, y, z, u, v, w}) /\ Len(<<x, y, z, u, v, w>>) = 6
        /\ <<x, y, z, u, v, w>>[1] = x /\ <<x, y, z, u, v, w>>[2] = y
        /\ <<x, y, z, u, v, w>>[3] = z /\ <<x, y, z, u, v, w>>[4] = u
        /\ <<x, y, z, u, v, w>>[5] = v /\ <<x, y, z, u, v, w>>[6] = w
    OBVIOUS
  <2> QED BY <2>1 DEF IsList, Range
<1> QED
  BY <1>1, <1>2, <1>3

\* A positional function of a list's positions is a list.
LEMMA Pieces ==
  ASSUME NEW s, IsList(s), NEW f, f = [k \in DOMAIN s |-> f[k]]
  PROVE  IsList(f) /\ Len(f) = Len(s)
<1>1. Len(s) \in Nat /\ DOMAIN s = 1..Len(s)
  BY ListShape
<1>2. DOMAIN f = 1..Len(s) /\ f = [k \in 1..Len(s) |-> f[k]]
  BY <1>1
<1> QED
  BY <1>1, <1>2, ListOfPositions

\* The beginning of a list is a list of its items.
LEMMA ListBeginning ==
  ASSUME NEW s, IsList(s), NEW n \in 0..Len(s)
  PROVE  IsList(SubSeq(s, 1, n)) /\ Range(SubSeq(s, 1, n)) \subseteq Range(s)
<1>1. Len(s) \in Nat /\ \A k \in 1..Len(s) : s[k] \in Range(s)
  BY ListShape
<1>2. SubSeq(s, 1, n) \in Seq(Range(s))
  BY <1>1, SubSeqProperties
<1> QED
  BY <1>2, SeqIsList

\* Concatenation: a list of the items of both, first of the one, then of the
\* other.
LEMMA ListConcat ==
  ASSUME NEW s, NEW t, IsList(s), IsList(t)
  PROVE  /\ IsList(s \o t)
         /\ Range(s \o t) = Range(s) \cup Range(t)
         /\ Len(s \o t) = Len(s) + Len(t)
         /\ \A k \in 1..Len(s) : (s \o t)[k] = s[k]
         /\ \A k \in 1..Len(t) : (s \o t)[Len(s) + k] = t[k]
<1> DEFINE S == Range(s) \cup Range(t)
<1>1. s \in Seq(S) /\ t \in Seq(S)
  <2>1. s \in Seq(Range(s)) /\ t \in Seq(Range(t)) /\ Range(s) \subseteq S /\ Range(t) \subseteq S
    BY DEF IsList
  <2> HIDE DEF S
  <2> QED BY <2>1, SeqMonotonic
<1> HIDE DEF S
<1>2. s \o t \in Seq(S) /\ Range(s \o t) = Range(s) \cup Range(t)
  BY <1>1, ConcatProperties, RangeConcatenation
<1>3. /\ Len(s \o t) = Len(s) + Len(t)
      /\ \A i \in 1..(Len(s) + Len(t)) :
           (s \o t)[i] = IF i <= Len(s) THEN s[i] ELSE t[i - Len(s)]
  BY <1>1, ConcatProperties
<1>4. Len(s) \in Nat /\ Len(t) \in Nat
  BY ListShape
<1>5. \A k \in 1..Len(s) : k \in 1..(Len(s) + Len(t)) /\ k <= Len(s)
  BY <1>4
<1>6. \A k \in 1..Len(t) : /\ Len(s) + k \in 1..(Len(s) + Len(t)) /\ ~(Len(s) + k <= Len(s))
                           /\ (Len(s) + k) - Len(s) = k
  BY <1>4
<1>7. IsList(s \o t)
  BY <1>2, SeqIsList
<1> QED
  BY <1>2, <1>3, <1>5, <1>6, <1>7

\* A pair, one item at a time.
LEMMA PairIsConcat ==
  ASSUME NEW x, NEW y
  PROVE  <<x, y>> = <<x>> \o <<y>>
<1> DEFINE pair == <<x, y>>
           one == <<x>>
           two == <<y>>
<1>1. /\ IsList(pair) /\ Len(pair) = 2 /\ pair[1] = x /\ pair[2] = y
      /\ IsList(one) /\ Len(one) = 1 /\ one[1] = x
      /\ IsList(two) /\ Len(two) = 1 /\ two[1] = y
  BY ShortLists
<1> HIDE DEF pair, one, two
<1>2. /\ IsList(one \o two) /\ Len(one \o two) = Len(one) + Len(two)
      /\ Range(one \o two) = Range(one) \cup Range(two)
      /\ \A k \in 1..Len(one) : (one \o two)[k] = one[k]
      /\ \A k \in 1..Len(two) : (one \o two)[Len(one) + k] = two[k]
  <2>1. IsList(one) /\ IsList(two)
    BY <1>1
  <2> QED BY <2>1, ListConcat
<1>3. Len(one \o two) = 2 /\ (one \o two)[1] = x /\ (one \o two)[2] = y
  BY <1>1, <1>2
<1>4. \A k \in 1..2 : pair[k] = (one \o two)[k]
  BY <1>1, <1>3
<1>5. pair = one \o two
  BY <1>1, <1>2, <1>3, <1>4, ListEqual
<1> QED
  BY <1>5 DEF pair, one, two

\* Nothing is added by an empty list.
LEMMA ListConcatNil ==
  ASSUME NEW s, IsList(s)
  PROVE  s \o <<>> = s /\ <<>> \o s = s
BY ConcatEmptySeq DEF IsList

\* Where the parentheses are makes no difference.
LEMMA ListConcatAssociative ==
  ASSUME NEW s, NEW t, NEW u, IsList(s), IsList(t), IsList(u)
  PROVE  (s \o t) \o u = s \o (t \o u)
<1> DEFINE S == Range(s) \cup Range(t) \cup Range(u)
<1>1. s \in Seq(S) /\ t \in Seq(S) /\ u \in Seq(S)
  <2>1. /\ s \in Seq(Range(s)) /\ t \in Seq(Range(t)) /\ u \in Seq(Range(u))
        /\ Range(s) \subseteq S /\ Range(t) \subseteq S /\ Range(u) \subseteq S
    BY DEF IsList
  <2> HIDE DEF S
  <2> QED BY <2>1, SeqMonotonic
<1> HIDE DEF S
<1> QED
  BY <1>1, ConcatAssociative

\* An item at the end.
LEMMA ListAppend ==
  ASSUME NEW s, NEW x, IsList(s)
  PROVE  /\ Append(s, x) = s \o <<x>>
         /\ IsList(Append(s, x))
         /\ Range(Append(s, x)) = Range(s) \cup {x}
         /\ Len(Append(s, x)) = Len(s) + 1
         /\ \A k \in 1..Len(s) : Append(s, x)[k] = s[k]
         /\ Append(s, x)[Len(s) + 1] = x
<1> DEFINE S == Range(s) \cup {x}
<1>1. s \in Seq(S) /\ x \in S
  BY SeqMonotonic DEF IsList
<1> HIDE DEF S
<1>2. Append(s, x) = s \o <<x>>
  BY <1>1, AppendIsConcat
<1>3. /\ Len(Append(s, x)) = Len(s) + 1
      /\ \A k \in 1..Len(s) : Append(s, x)[k] = s[k]
      /\ Append(s, x)[Len(s) + 1] = x
  BY <1>1, AppendProperties
<1>4. IsList(<<x>>) /\ Range(<<x>>) = {x}
  BY ShortLists
<1>5. IsList(s \o <<x>>) /\ Range(s \o <<x>>) = Range(s) \cup {x}
  BY <1>4, ListConcat
<1> QED
  BY <1>2, <1>3, <1>5

-----------------------------------------------------------------------------
(* FlattenSeq, by the lists it goes through: run[k] is the concatenation of *)
(* the first k lists.                                                      *)

IsRun(run, seqs) ==
  /\ run[0] = <<>>
  /\ \A k \in 1..Len(seqs) : run[k] = run[k - 1] \o seqs[k]

\* The recursive function in FlattenSeq exists, and it is the run.
LEMMA FlattenRuns ==
  ASSUME NEW seqs, IsList(seqs), \A k \in 1..Len(seqs) : IsList(seqs[k])
  PROVE  \E run : IsRun(run, seqs) /\ FlattenSeq(seqs) = run[Len(seqs)]
<1> DEFINE N == Len(seqs)
           Flattens(g, m) ==
             g = [i \in 1..m |-> IF i = 1 THEN seqs[i] ELSE g[i - 1] \o seqs[i]]
           S == {m \in 0..N : \E g : Flattens(g, m)}
<1>1. N \in Nat
  BY ListShape
<1>2. \A m \in 0..N : m \in S
  <2>1. 0 \in S
    <3>1. Flattens([i \in 1..0 |-> i], 0)
      OBVIOUS
    <3>2. \E g : Flattens(g, 0)
      <4> HIDE DEF Flattens
      <4> QED BY <3>1
    <3>3. 0 \in 0..N
      BY <1>1
    <3> HIDE DEF Flattens, N
    <3> QED BY <3>2, <3>3
  <2>2. ASSUME NEW k \in 0..(N - 1), k \in S
        PROVE  k + 1 \in S
    <3>1. PICK g : Flattens(g, k)
      BY <2>2
    <3> DEFINE h == [i \in 1..(k + 1) |->
                       IF i = 1 THEN seqs[i] ELSE g[i - 1] \o seqs[i]]
    <3>2. \A i \in 1..k : h[i] = g[i]
      <4>1. \A i \in 1..k : g[i] = IF i = 1 THEN seqs[i] ELSE g[i - 1] \o seqs[i]
        BY <3>1
      <4>2. \A i \in 1..k : i \in 1..(k + 1)
        OBVIOUS
      <4> QED BY <4>1, <4>2
    <3>3. \A i \in 1..(k + 1) : i # 1 => i - 1 \in 1..k
      OBVIOUS
    <3>4. Flattens(h, k + 1)
      BY <3>2, <3>3
    <3>5. k + 1 \in 0..N
      BY <1>1
    <3> QED BY <3>4, <3>5
  <2> HIDE DEF S, N
  <2> QED BY <2>1, <2>2, <1>1, BoundedInduction
<1>3. CASE N = 0
  <2>1. seqs = <<>>
    BY <1>3 DEF IsList
  <2>2. FlattenSeq(seqs) = <<>>
    BY <2>1, <1>3 DEF FlattenSeq
  <2>3. IsRun([k \in {0} |-> <<>>], seqs)
    BY <1>3 DEF IsRun
  <2> QED BY <2>2, <2>3, <1>3
<1>4. CASE N # 0
  <2> DEFINE f == CHOOSE g : Flattens(g, N)
  <2>1. Flattens(f, N)
    <3>1. \E g : Flattens(g, N)
      <4>1. N \in 0..N
        BY <1>1
      <4> HIDE DEF Flattens, N
      <4> QED BY <4>1, <1>2
    <3> HIDE DEF Flattens
    <3> QED BY <3>1
  <2>2. FlattenSeq(seqs) = f[N]
    BY <1>4 DEF FlattenSeq
  <2> HIDE DEF f
  <2> DEFINE run == [k \in 0..N |-> IF k = 0 THEN <<>> ELSE f[k]]
  <2>3. \A k \in 1..N : f[k] = IF k = 1 THEN seqs[k] ELSE f[k - 1] \o seqs[k]
    BY <2>1
  <2>4. \A k \in 1..N : k = 1 => <<>> \o seqs[k] = seqs[k]
    BY ListConcatNil
  <2>5. \A k \in 1..N : run[k] = run[k - 1] \o seqs[k]
    <3> SUFFICES ASSUME NEW k \in 1..N
                 PROVE  run[k] = run[k - 1] \o seqs[k]
      OBVIOUS
    <3>1. CASE k = 1
      <4>1. run[k] = seqs[k] /\ run[k - 1] = <<>>
        BY <3>1, <2>3, <1>1
      <4> QED BY <4>1, <2>4, <3>1
    <3>2. CASE k # 1
      <4>1. run[k] = f[k] /\ run[k - 1] = f[k - 1]
        BY <3>2, <1>1
      <4> QED BY <4>1, <2>3, <3>2
    <3> QED BY <3>1, <3>2
  <2>6. run[0] = <<>> /\ run[N] = f[N]
    BY <1>1, <1>4
  <2> HIDE DEF run
  <2> QED BY <2>2, <2>5, <2>6 DEF IsRun
<1> QED
  BY <1>3, <1>4

\* A run is a list at every step, of the items of the lists so far.
LEMMA RunIsList ==
  ASSUME NEW seqs, IsList(seqs), \A k \in 1..Len(seqs) : IsList(seqs[k]),
         NEW run, IsRun(run, seqs)
  PROVE  \A n \in 0..Len(seqs) :
           IsList(run[n]) /\ Range(run[n]) = UNION {Range(seqs[k]) : k \in 1..n}
<1> DEFINE N == Len(seqs)
           Holds(n) == IsList(run[n]) /\ Range(run[n]) = UNION {Range(seqs[k]) : k \in 1..n}
           S == {n \in 0..N : Holds(n)}
<1>1. N \in Nat
  BY ListShape
<1>2. 0 \in S
  BY <1>1, ShortLists DEF IsRun
<1>3. ASSUME NEW n \in 0..(N - 1), n \in S
      PROVE  n + 1 \in S
  <2>1. run[n + 1] = run[n] \o seqs[n + 1] /\ n + 1 \in 1..N /\ n + 1 \in 0..N
    <3>1. n + 1 \in 1..N /\ n + 1 \in 0..N /\ (n + 1) - 1 = n
      BY <1>1
    <3> QED BY <3>1 DEF IsRun
  <2>2. IsList(run[n + 1]) /\ Range(run[n + 1]) = Range(run[n]) \cup Range(seqs[n + 1])
    BY <1>3, <2>1, ListConcat
  <2>3. 1..(n + 1) = (1..n) \cup {n + 1}
    OBVIOUS
  <2>4. UNION {Range(seqs[k]) : k \in 1..(n + 1)}
          = (UNION {Range(seqs[k]) : k \in 1..n}) \cup Range(seqs[n + 1])
    BY <2>3
  <2>5. Holds(n + 1)
    BY <1>3, <2>2, <2>4
  <2> HIDE DEF Holds, N
  <2> QED BY <2>1, <2>5
<1>4. \A n \in 0..N : n \in S
  <2> HIDE DEF S, N
  <2> QED BY <1>1, <1>2, <1>3, BoundedInduction
<1> QED
  BY <1>4

\* The flattened list of lists holds what the lists hold, and nothing else.
LEMMA FlattenIsList ==
  ASSUME NEW seqs, IsList(seqs), \A k \in 1..Len(seqs) : IsList(seqs[k])
  PROVE  /\ IsList(FlattenSeq(seqs))
         /\ Range(FlattenSeq(seqs)) = UNION {Range(seqs[k]) : k \in 1..Len(seqs)}
<1>1. Len(seqs) \in 0..Len(seqs)
  BY ListShape
<1>2. PICK run : IsRun(run, seqs) /\ FlattenSeq(seqs) = run[Len(seqs)]
  BY FlattenRuns
<1>3. \A n \in 0..Len(seqs) :
        IsList(run[n]) /\ Range(run[n]) = UNION {Range(seqs[k]) : k \in 1..n}
  BY <1>2, RunIsList
<1> QED
  BY <1>1, <1>2, <1>3

\* A list made for each item of another, flattened.
LEMMA FlattenPieces ==
  ASSUME NEW items, IsList(items), NEW f, f = [k \in DOMAIN items |-> f[k]],
         \A k \in DOMAIN items : IsList(f[k])
  PROVE  /\ IsList(FlattenSeq(f))
         /\ \A x : x \in Range(FlattenSeq(f)) <=> \E k \in DOMAIN items : x \in Range(f[k])
<1>1. IsList(f) /\ Len(f) = Len(items) /\ DOMAIN items = 1..Len(items)
  BY Pieces, ListShape
<1>2. /\ IsList(FlattenSeq(f))
      /\ Range(FlattenSeq(f)) = UNION {Range(f[k]) : k \in 1..Len(f)}
  BY <1>1, FlattenIsList
<1> QED
  BY <1>1, <1>2

\* A list has one run.
LEMMA RunIsUnique ==
  ASSUME NEW seqs, NEW others, NEW n \in Nat,
         n <= Len(seqs), n <= Len(others), Len(seqs) \in Nat, Len(others) \in Nat,
         \A k \in 1..n : seqs[k] = others[k],
         NEW run, IsRun(run, seqs), NEW other, IsRun(other, others)
  PROVE  run[n] = other[n]
<1> DEFINE S == {k \in 0..n : run[k] = other[k]}
<1>1. 0 \in S
  BY DEF IsRun
<1>2. ASSUME NEW k \in 0..(n - 1), k \in S
      PROVE  k + 1 \in S
  <2>1. k + 1 \in 1..n /\ k + 1 \in 1..Len(seqs) /\ k + 1 \in 1..Len(others) /\ (k + 1) - 1 = k
    OBVIOUS
  <2>2. run[k + 1] = run[k] \o seqs[k + 1] /\ other[k + 1] = other[k] \o others[k + 1]
    BY <2>1 DEF IsRun
  <2>3. run[k] = other[k] /\ seqs[k + 1] = others[k + 1] /\ k + 1 \in 0..n
    BY <1>2, <2>1
  <2> QED BY <2>2, <2>3
<1>3. \A k \in 0..n : k \in S
  <2> HIDE DEF S
  <2> QED BY <1>1, <1>2, BoundedInduction
<1> QED
  BY <1>3

\* One more list at the end: its items come at the end.
LEMMA FlattenExtended ==
  ASSUME NEW seqs, IsList(seqs), \A k \in 1..Len(seqs) : IsList(seqs[k]),
         NEW more, IsList(more), Len(more) = Len(seqs) + 1,
         \A k \in 1..Len(seqs) : more[k] = seqs[k],
         IsList(more[Len(more)])
  PROVE  FlattenSeq(more) = FlattenSeq(seqs) \o more[Len(more)]
<1> DEFINE n == Len(seqs)
<1>1. n \in Nat /\ Len(more) = n + 1 /\ n + 1 \in 1..(n + 1) /\ (n + 1) - 1 = n
  BY ListShape
<1>2. PICK run : IsRun(run, seqs) /\ FlattenSeq(seqs) = run[n]
  BY FlattenRuns
<1>3. PICK longer : IsRun(longer, more) /\ FlattenSeq(more) = longer[n + 1]
  <2>1. \A k \in 1..Len(more) : k \in 1..n \/ k = Len(more)
    BY <1>1
  <2>2. \A k \in 1..Len(more) : IsList(more[k])
    BY <2>1
  <2> QED BY <2>2, <1>1, FlattenRuns
<1>4. run[n] = longer[n]
  <2>1. n <= Len(seqs) /\ n <= Len(more) /\ Len(more) \in Nat
    BY <1>1
  <2> QED BY <2>1, <1>1, <1>2, <1>3, RunIsUnique
<1>5. longer[n + 1] = longer[n] \o more[n + 1]
  BY <1>1, <1>3 DEF IsRun
<1> QED
  BY <1>1, <1>2, <1>3, <1>4, <1>5
=============================================================================
