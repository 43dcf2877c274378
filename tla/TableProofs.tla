---------------------------- MODULE TableProofs ----------------------------
(***************************************************************************)
(* Proofs about decision tables of any size: what check_completeness says  *)
(* of a version, and which row answers.  The rows that come first, last or *)
(* next in the sorted order exist because the naturals are well-founded.   *)
(***************************************************************************)
EXTENDS Tables, WellFoundedInduction, TLAPS

\* The rows of a table as the provers need them: numbered from 1 on, their
\* lower ends naturals.
IsTable(rules) ==
  \E n \in Nat : /\ DOMAIN rules = 1..n
                 /\ \A i \in 1..n : rules[i].min \in Nat /\ rules[i].max \in Nat \cup {None}

\* The bounds of a row of a table.
LEMMA TableRows ==
  ASSUME NEW rules, IsTable(rules), NEW i \in DOMAIN rules
  PROVE  /\ i \in Nat /\ rules[i].min \in Nat
         /\ rules[i].max # None => rules[i].max \in Nat
  BY DEF IsTable

-----------------------------------------------------------------------------
(* Least elements.                                                         *)

\* Every set of naturals has a least one.
LEMMA LeastNatural ==
  ASSUME NEW S \in SUBSET Nat, S # {}
  PROVE  \E n \in S : \A m \in S : n <= m
<1>1. PICK n \in S : \A m \in S : <<m, n>> \notin OpToRel(<, Nat)
  BY NatLessThanWellFounded, WFMin, Zenon
<1>2. ASSUME NEW m \in S PROVE n <= m
  <2>1. m \in Nat /\ n \in Nat
    OBVIOUS
  <2>2. ~(m < n)
    BY <1>1, <2>1 DEF OpToRel
  <2>3. QED
    BY <2>1, <2>2
<1>3. QED
  BY <1>2

\* The order of the rows, by minimum and then by position, is strict and total.
LEMMA BeforeIsAnOrder ==
  ASSUME NEW rules, IsTable(rules),
         NEW i \in DOMAIN rules, NEW j \in DOMAIN rules, NEW k \in DOMAIN rules
  PROVE  /\ ~Before(rules, i, i)
         /\ i # j => Before(rules, i, j) \/ Before(rules, j, i)
         /\ Before(rules, i, j) /\ Before(rules, j, k) => Before(rules, i, k)
         /\ Before(rules, i, j) => rules[i].min <= rules[j].min
<1>1. /\ i \in Nat /\ j \in Nat /\ k \in Nat
      /\ rules[i].min \in Nat /\ rules[j].min \in Nat /\ rules[k].min \in Nat
  BY TableRows
<1>2. QED
  BY <1>1 DEF Before

\* Among some rows of a table there is a first one: the least index among
\* those with the least lower end.
LEMMA FirstRow ==
  ASSUME NEW rules, IsTable(rules), NEW S \in SUBSET DOMAIN rules, S # {}
  PROVE  \E i \in S : \A j \in S \ {i} : Before(rules, i, j)
<1> DEFINE M == {rules[i].min : i \in S}
<1>1. M \in SUBSET Nat /\ M # {}
  BY TableRows
<1>2. PICK m \in M : \A l \in M : m <= l
  <2> HIDE DEF M
  <2> QED BY <1>1, LeastNatural
<1> DEFINE L == {i \in S : rules[i].min = m}
<1>3. L \in SUBSET Nat /\ L # {}
  BY TableRows
<1>4. PICK i \in L : \A j \in L : i <= j
  <2> HIDE DEF L
  <2> QED BY <1>3, LeastNatural
<1>5. ASSUME NEW j \in S \ {i} PROVE Before(rules, i, j)
  <2>1. /\ rules[i].min = m /\ rules[j].min \in M /\ m <= rules[j].min
        /\ rules[j].min \in Nat /\ m \in Nat /\ i \in Nat /\ j \in Nat
    BY <1>1, <1>2, TableRows
  <2>2. CASE rules[j].min = m
    <3>1. i <= j /\ i # j
      BY <1>4, <2>2
    <3>2. QED
      BY <2>1, <2>2, <3>1 DEF Before
  <2>3. CASE rules[j].min # m
    BY <2>1, <2>3 DEF Before
  <2>4. QED
    BY <2>2, <2>3
<1>6. QED
  BY <1>5

\* Among some rows that all begin at or before x there is a last one.
LEMMA LastRowUpTo ==
  ASSUME NEW rules, IsTable(rules), NEW x \in Nat,
         NEW S \in SUBSET DOMAIN rules, S # {}, \A i \in S : rules[i].min <= x
  PROVE  \E i \in S : \A j \in S \ {i} : Before(rules, j, i)
<1> DEFINE M == {x - rules[i].min : i \in S}
<1>1. M \in SUBSET Nat /\ M # {}
  BY TableRows
<1>2. PICK m \in M : \A l \in M : m <= l
  <2> HIDE DEF M
  <2> QED BY <1>1, LeastNatural
<1>3. PICK n \in Nat : DOMAIN rules = 1..n
  BY DEF IsTable
<1> DEFINE L == {n - i : i \in {k \in S : x - rules[k].min = m}}
<1>4. L \in SUBSET Nat /\ L # {}
  BY <1>3
<1>5. PICK d \in L : \A l \in L : d <= l
  <2> HIDE DEF L
  <2> QED BY <1>4, LeastNatural
<1>6. PICK i \in S : d = n - i /\ x - rules[i].min = m
  BY <1>5
<1>7. ASSUME NEW j \in S \ {i} PROVE Before(rules, j, i)
  <2>1. /\ rules[i].min \in Nat /\ rules[j].min \in Nat /\ i \in Nat /\ j \in Nat
        /\ x - rules[j].min \in M
    BY TableRows
  <2>2. m <= x - rules[j].min
    BY <1>2, <2>1
  <2>3. CASE x - rules[j].min = m
    <3>1. n - j \in L
      BY <2>3
    <3>2. n - i <= n - j
      BY <1>5, <1>6, <3>1
    <3>3. QED
      BY <1>6, <2>1, <2>3, <3>2 DEF Before
  <2>4. CASE x - rules[j].min # m
    BY <1>6, <2>1, <2>2, <2>4 DEF Before
  <2>5. QED
    BY <2>3, <2>4
<1>8. QED
  BY <1>7

\* A row that is not the last has a next one, and that is not behind any other.
LEMMA NextRow ==
  ASSUME NEW rules, IsTable(rules), NEW rows \in SUBSET DOMAIN rules,
         NEW i \in rows, NEW j \in rows, Before(rules, i, j)
  PROVE  \E k \in rows : /\ Adjacent(rules, rows, i, k)
                         /\ rules[k].min <= rules[j].min
<1> DEFINE S == {k \in rows : Before(rules, i, k)}
<1>1. S \in SUBSET DOMAIN rules /\ S # {} /\ j \in S
  OBVIOUS
<1>2. PICK k \in S : \A l \in S \ {k} : Before(rules, k, l)
  BY <1>1, FirstRow
<1>3. Adjacent(rules, rows, i, k)
  <2>1. ASSUME NEW l \in rows, Before(rules, i, l), Before(rules, l, k) PROVE FALSE
    <3>1. l \in S /\ l \in DOMAIN rules /\ k \in DOMAIN rules
      BY <2>1
    <3>2. l # k
      BY <2>1, <3>1, BeforeIsAnOrder
    <3>3. Before(rules, k, l)
      BY <1>2, <3>1, <3>2
    <3>4. QED
      BY <2>1, <3>1, <3>3, BeforeIsAnOrder
  <2>2. QED
    BY <2>1 DEF Adjacent
<1>4. rules[k].min <= rules[j].min
  <2>1. CASE j = k
    BY <2>1, TableRows
  <2>2. CASE j # k
    BY <1>1, <1>2, <2>2, BeforeIsAnOrder
  <2>3. QED
    BY <2>1, <2>2
<1>5. QED
  BY <1>3, <1>4

-----------------------------------------------------------------------------
(* Completeness.                                                           *)

\* Rows that tile answer every value from 0 on with exactly one row.
THEOREM TilingAnswersAll ==
  ASSUME NEW rules, IsTable(rules), NEW rows \in SUBSET DOMAIN rules, rows # {},
         Tiles(rules, rows), NEW x \in Nat
  PROVE  Answered(rules, rows, x)
<1> DEFINE S == {i \in rows : rules[i].min <= x}
<1>1. S # {}
  <2>1. PICK f \in rows : \A j \in rows \ {f} : Before(rules, f, j)
    BY FirstRow
  <2>2. f \in First(rules, rows)
    <3>1. ASSUME NEW j \in rows, Before(rules, j, f) PROVE FALSE
      BY <2>1, <3>1, BeforeIsAnOrder
    <3>2. QED
      BY <3>1 DEF First
  <2>3. rules[f].min = 0
    BY <2>2 DEF Tiles
  <2>4. QED
    BY <2>3
<1>2. PICK i \in S : \A j \in S \ {i} : Before(rules, j, i)
  BY <1>1, LastRowUpTo
<1>3. Contains(rules[i], x)
  <2>1. CASE \E j \in rows : Before(rules, i, j)
    <3>1. PICK k \in rows : Adjacent(rules, rows, i, k)
      BY <2>1, NextRow
    <3>2. rules[i].max # None /\ rules[k].min = rules[i].max
      BY <3>1 DEF Tiles
    <3>3. k \notin S
      <4>1. Before(rules, i, k)
        BY <3>1 DEF Adjacent
      <4>2. k # i /\ ~Before(rules, k, i)
        BY <4>1, BeforeIsAnOrder
      <4>3. QED
        BY <1>2, <4>2
    <3>4. x < rules[i].max
      BY <3>2, <3>3, TableRows
    <3>5. QED
      BY <3>4 DEF Contains
  <2>2. CASE ~\E j \in rows : Before(rules, i, j)
    <3>1. rules[i].max = None
      BY <2>2 DEF Tiles, Last
    <3>2. QED
      BY <3>1 DEF Contains
  <2>3. QED
    BY <2>1, <2>2
<1>4. ASSUME NEW j \in rows \ {i}, Contains(rules[j], x) PROVE FALSE
  <2>1. j \in S
    BY <1>4 DEF Contains
  <2>2. Before(rules, j, i)
    BY <1>2, <2>1
  <2>3. PICK k \in rows : Adjacent(rules, rows, j, k) /\ rules[k].min <= rules[i].min
    BY <2>2, NextRow
  <2>4. rules[j].max # None /\ rules[k].min = rules[j].max
    BY <2>3 DEF Tiles
  <2>5. rules[j].max <= x
    BY <2>3, <2>4, TableRows
  <2>6. QED
    BY <1>4, <2>4, <2>5, TableRows DEF Contains
<1>5. QED
  BY <1>3, <1>4 DEF Answered

\* Two rows do not both contain a value that is answered.
LEMMA AnsweredOnce ==
  ASSUME NEW rules, NEW rows, NEW x, Answered(rules, rows, x),
         NEW i \in rows, NEW j \in rows, Contains(rules[i], x), Contains(rules[j], x)
  PROVE  i = j
  BY DEF Answered

\* Rows that are no empty intervals and answer the corners with exactly one
\* row tile.
THEOREM AnsweringRowsTile ==
  ASSUME NEW rules, IsTable(rules), NEW rows \in SUBSET DOMAIN rules,
         NonEmptyRows(rules, rows),
         \A x \in Corners(rules, rows) : Answered(rules, rows, x)
  PROVE  Tiles(rules, rows)
<1>1. ASSUME NEW i \in rows PROVE Contains(rules[i], rules[i].min)
  BY TableRows DEF Contains, NonEmptyRows
\* Of two rows, the earlier does not reach the lower end of the later.
<1>2. ASSUME NEW i \in rows, NEW j \in rows, Before(rules, i, j)
      PROVE  rules[i].max # None /\ rules[i].max <= rules[j].min
  <2>1. rules[j].min \in Corners(rules, rows) /\ i # j /\ rules[i].min <= rules[j].min
    BY <1>2, BeforeIsAnOrder DEF Corners
  <2>2. ~Contains(rules[i], rules[j].min)
    BY <1>1, <2>1, AnsweredOnce
  <2>3. QED
    BY <2>1, <2>2, TableRows DEF Contains
<1>3. ASSUME NEW i \in First(rules, rows) PROVE rules[i].min = 0
  <2>1. PICK j \in rows : Contains(rules[j], 0)
    BY DEF Corners, Answered
  <2>2. rules[j].min = 0
    BY <2>1, TableRows DEF Contains
  <2>3. i \in rows /\ ~Before(rules, j, i)
    BY <1>3 DEF First
  <2>4. i = j \/ Before(rules, i, j)
    BY <2>3, BeforeIsAnOrder
  <2>5. rules[i].min <= 0
    BY <2>2, <2>3, <2>4, BeforeIsAnOrder, TableRows
  <2>6. QED
    BY <2>3, <2>5, TableRows
<1>4. ASSUME NEW i \in rows, rules[i].max # None
      PROVE  \E j \in rows : Before(rules, i, j) /\ rules[j].min = rules[i].max
  <2>1. rules[i].max \in Corners(rules, rows)
    BY <1>4 DEF Corners
  <2>2. PICK j \in rows : Contains(rules[j], rules[i].max)
    BY <2>1 DEF Answered
  <2>3. /\ rules[i].min \in Nat /\ rules[j].min \in Nat /\ rules[i].max \in Nat
        /\ rules[j].max # None => rules[j].max \in Nat
        /\ rules[i].min < rules[i].max
        /\ rules[j].min <= rules[i].max
        /\ rules[j].max = None \/ rules[i].max < rules[j].max
    BY <1>4, <2>2, TableRows DEF Contains, NonEmptyRows
  <2>4. i # j
    BY <1>4, <2>3
  <2>5. ~Before(rules, j, i)
    <3>1. ASSUME Before(rules, j, i) PROVE FALSE
      <4>1. rules[j].max # None /\ rules[j].max <= rules[i].min
        BY <1>2, <3>1
      <4>2. QED
        BY <2>3, <4>1
    <3>2. QED
      BY <3>1
  <2>6. Before(rules, i, j)
    BY <2>4, <2>5, BeforeIsAnOrder
  <2>7. rules[i].max <= rules[j].min
    BY <1>2, <2>6
  <2>8. QED
    BY <2>3, <2>6, <2>7
<1>5. ASSUME NEW i \in rows, NEW j \in rows, Adjacent(rules, rows, i, j)
      PROVE  rules[i].max # None /\ rules[j].min = rules[i].max
  <2>1. Before(rules, i, j) /\ rules[i].max # None /\ rules[i].max <= rules[j].min
    BY <1>2, <1>5 DEF Adjacent
  <2>2. PICK k \in rows : Before(rules, i, k) /\ rules[k].min = rules[i].max
    BY <1>4, <2>1
  <2>3. ~Before(rules, k, j)
    BY <1>5, <2>2 DEF Adjacent
  <2>4. k = j \/ Before(rules, j, k)
    BY <2>3, BeforeIsAnOrder
  <2>5. rules[j].min <= rules[k].min
    BY <2>4, BeforeIsAnOrder, TableRows
  <2>6. QED
    BY <2>1, <2>2, <2>5, TableRows
<1>6. ASSUME NEW i \in Last(rules, rows) PROVE rules[i].max = None
  BY <1>4 DEF Last
<1>7. QED
  BY <1>3, <1>5, <1>6 DEF Tiles
=============================================================================
