--------------------------- MODULE ProjectProofs ---------------------------
(***************************************************************************)
(* The theorems of Project, for every set of well-typed specs and every    *)
(* sequence of edits.  First what the scan for impl markers does, then the *)
(* invariant of the project's life, then what a report says: of drift, of  *)
(* the boundary, of the state machine.  The last two parts reason about    *)
(* substrings of module names: what crosses the boundary is reported, and  *)
(* a fresh tree passes only if its names are apart.                        *)
(***************************************************************************)
EXTENDS Project, ScaffoldProofs

-----------------------------------------------------------------------------
(* The scan of _mask_impl, line by line: scan[k] is what it knows after the *)
(* first k lines.                                                          *)

IsScan(scan, lines) ==
  /\ scan[0] = [out |-> <<>>, skipping |-> FALSE]
  /\ \A k \in 1..Len(lines) : scan[k] = MaskLine(scan[k - 1], lines[k])

\* The recursive function in MaskImpl exists, and it is the scan.
LEMMA MaskScans ==
  ASSUME NEW lines, IsList(lines)
  PROVE  \E scan : IsScan(scan, lines) /\ MaskImpl(lines) = scan[Len(lines)].out
<1> DEFINE N == Len(lines)
           Start == [out |-> <<>>, skipping |-> FALSE]
           Scans(g, m) ==
             g = [n \in 0..m |-> IF n = 0 THEN Start ELSE MaskLine(g[n - 1], lines[n])]
           S == {m \in 0..N : \E g : Scans(g, m)}
<1>1. N \in Nat
  BY ListShape
<1>2. \A m \in 0..N : m \in S
  <2>1. 0 \in S
    <3>1. Scans([n \in 0..0 |-> Start], 0)
      <4> HIDE DEF Start
      <4> QED OBVIOUS
    <3>2. \E g : Scans(g, 0)
      <4> HIDE DEF Scans
      <4> QED BY <3>1
    <3>3. 0 \in 0..N
      BY <1>1
    <3> HIDE DEF Scans, N
    <3> QED BY <3>2, <3>3
  <2>2. ASSUME NEW k \in 0..(N - 1), k \in S
        PROVE  k + 1 \in S
    <3> HIDE DEF Start
    <3>1. PICK g : Scans(g, k)
      BY <2>2
    <3> DEFINE h == [n \in 0..(k + 1) |-> IF n = 0 THEN Start ELSE MaskLine(g[n - 1], lines[n])]
    <3>2. \A n \in 0..k : h[n] = g[n]
      <4>1. \A n \in 0..k : g[n] = IF n = 0 THEN Start ELSE MaskLine(g[n - 1], lines[n])
        BY <3>1
      <4>2. \A n \in 0..k : n \in 0..(k + 1)
        OBVIOUS
      <4> QED BY <4>1, <4>2
    <3>3. \A n \in 0..(k + 1) : n # 0 => n - 1 \in 0..k
      OBVIOUS
    <3>4. Scans(h, k + 1)
      BY <3>2, <3>3
    <3>5. k + 1 \in 0..N
      BY <1>1
    <3> QED BY <3>4, <3>5
  <2> HIDE DEF S, N
  <2> QED BY <2>1, <2>2, <1>1, BoundedInduction
<1> DEFINE scanned == CHOOSE g : Scans(g, N)
<1>3. Scans(scanned, N)
  <2>1. N \in 0..N
    BY <1>1
  <2>2. \E g : Scans(g, N)
    <3> HIDE DEF Scans, N
    <3> QED BY <2>1, <1>2
  <2> HIDE DEF Scans
  <2> QED BY <2>2
<1>4. MaskImpl(lines) = scanned[N].out
  BY DEF MaskImpl
<1> HIDE DEF scanned
<1>5. IsScan(scanned, lines)
  <2>1. \A n \in 0..N : scanned[n] = IF n = 0 THEN Start ELSE MaskLine(scanned[n - 1], lines[n])
    BY <1>3
  <2>2. 0 \in 0..N /\ \A n \in 1..N : n \in 0..N /\ n # 0
    BY <1>1
  <2> QED BY <2>1, <2>2 DEF IsScan
<1> QED
  BY <1>4, <1>5

\* What one line does to the scan.
LEMMA MaskLineCases ==
  ASSUME NEW acc, NEW line, line.mark \in Marks,
         acc = [out |-> acc.out, skipping |-> acc.skipping]
  PROVE  /\ line.mark \in {"open", "both"} =>
              MaskLine(acc, line) = [out |-> acc.out \o <<line, Sentinel>>, skipping |-> TRUE]
         /\ line.mark = "close" =>
              MaskLine(acc, line) = [out |-> Append(acc.out, line), skipping |-> FALSE]
         /\ line.mark = "plain" /\ acc.skipping => MaskLine(acc, line) = acc
         /\ line.mark = "plain" /\ ~acc.skipping =>
              MaskLine(acc, line) = [out |-> Append(acc.out, line), skipping |-> acc.skipping]
<1>1. ASSUME line.mark \in {"open", "both"}
      PROVE  MaskLine(acc, line) = [out |-> acc.out \o <<line, Sentinel>>, skipping |-> TRUE]
  BY <1>1 DEF MaskLine
<1>2. ASSUME line.mark = "close"
      PROVE  MaskLine(acc, line) = [out |-> Append(acc.out, line), skipping |-> FALSE]
  BY <1>2 DEF MaskLine
<1>3. ASSUME line.mark = "plain", acc.skipping
      PROVE  MaskLine(acc, line) = acc
  BY <1>3 DEF MaskLine
<1>4. ASSUME line.mark = "plain", ~acc.skipping
      PROVE  MaskLine(acc, line) = [out |-> Append(acc.out, line), skipping |-> acc.skipping]
  <2>1. MaskLine(acc, line) = [acc EXCEPT !.out = Append(@, line)]
    BY <1>4 DEF MaskLine
  <2> QED BY <2>1
<1> QED
  BY <1>1, <1>2, <1>3, <1>4

\* The scan only takes lines away or puts the sentinel in, and every line with a
\* marker is kept.
LEMMA ScanKeepsMarkers ==
  ASSUME NEW lines, LegalLines(lines), NEW scan, IsScan(scan, lines)
  PROVE  \A n \in 0..Len(lines) :
           /\ scan[n] = [out |-> scan[n].out, skipping |-> scan[n].skipping]
           /\ scan[n].skipping \in BOOLEAN
           /\ IsList(scan[n].out)
           /\ Range(scan[n].out) \subseteq Range(lines) \cup {Sentinel}
           /\ \A k \in 1..n : lines[k].mark # "plain" => lines[k] \in Range(scan[n].out)
<1> DEFINE N == Len(lines)
           Shaped(n) == /\ scan[n] = [out |-> scan[n].out, skipping |-> scan[n].skipping]
                        /\ scan[n].skipping \in BOOLEAN
                        /\ IsList(scan[n].out)
           Kept(n) == /\ Range(scan[n].out) \subseteq Range(lines) \cup {Sentinel}
                      /\ \A k \in 1..n : lines[k].mark # "plain" => lines[k] \in Range(scan[n].out)
           S == {n \in 0..N : Shaped(n) /\ Kept(n)}
<1>1. N \in Nat /\ IsList(lines) /\ \A k \in 1..N : lines[k] \in Range(lines) /\ lines[k].mark \in Marks
  BY ListShape DEF LegalLines, LegalLine
<1>2. 0 \in S
  <2>1. scan[0].out = <<>> /\ scan[0].skipping = FALSE
        /\ scan[0] = [out |-> scan[0].out, skipping |-> scan[0].skipping]
    BY DEF IsScan
  <2>2. IsList(<<>>) /\ Range(<<>>) = {}
    BY ShortLists
  <2>3. Shaped(0)
    BY <2>1, <2>2
  <2>4. Kept(0)
    BY <2>1, <2>2
  <2> HIDE DEF Shaped, Kept
  <2> QED BY <2>3, <2>4, <1>1
<1>3. ASSUME NEW n \in 0..(N - 1), n \in S
      PROVE  n + 1 \in S
  <2> DEFINE acc == scan[n]
             line == lines[n + 1]
  <2>1. n + 1 \in 1..N /\ n + 1 \in 0..N /\ (n + 1) - 1 = n
    BY <1>1
  <2>2. scan[n + 1] = MaskLine(acc, line)
    BY <2>1 DEF IsScan
  <2>3. line \in Range(lines) /\ line.mark \in Marks
    BY <1>1, <2>1
  <2>4. Shaped(n) /\ Kept(n)
    BY <1>3
  <2>5. \A k \in 1..(n + 1) : k \in 1..n \/ k = n + 1
    OBVIOUS
  <2>6. CASE line.mark \in {"open", "both"}
    <3>1. scan[n + 1] = [out |-> acc.out \o <<line, Sentinel>>, skipping |-> TRUE]
      BY <2>2, <2>3, <2>4, <2>6, MaskLineCases
    <3>2. IsList(<<line, Sentinel>>) /\ Range(<<line, Sentinel>>) = {line, Sentinel}
      BY ShortLists
    <3>3. /\ IsList(acc.out \o <<line, Sentinel>>)
          /\ Range(acc.out \o <<line, Sentinel>>) = Range(acc.out) \cup {line, Sentinel}
      BY <3>2, <2>4, ListConcat
    <3>4. Shaped(n + 1)
      BY <3>1, <3>3
    <3>5. Kept(n + 1)
      <4>1. scan[n + 1].out = acc.out \o <<line, Sentinel>>
        BY <3>1
      <4>2. Range(scan[n + 1].out) = Range(acc.out) \cup {line, Sentinel}
        <5> HIDE DEF acc, line
        <5> QED BY <4>1, <3>3
      <4> QED BY <4>2, <2>3, <2>4, <2>5
    <3> HIDE DEF Shaped, Kept, N
    <3> QED BY <2>1, <3>4, <3>5
  <2>7. CASE line.mark = "close" \/ (line.mark = "plain" /\ ~acc.skipping)
    <3>1. PICK b \in BOOLEAN : scan[n + 1] = [out |-> Append(acc.out, line), skipping |-> b]
      BY <2>2, <2>3, <2>4, <2>7, MaskLineCases
    <3>2. /\ IsList(Append(acc.out, line))
          /\ Range(Append(acc.out, line)) = Range(acc.out) \cup {line}
      BY <2>4, ListAppend
    <3>3. Shaped(n + 1)
      BY <3>1, <3>2
    <3>4. Kept(n + 1)
      BY <3>1, <3>2, <2>3, <2>4, <2>5
    <3> HIDE DEF Shaped, Kept, N
    <3> QED BY <2>1, <3>3, <3>4
  <2>8. CASE line.mark = "plain" /\ acc.skipping
    <3>1. scan[n + 1] = acc
      BY <2>2, <2>3, <2>4, <2>8, MaskLineCases
    <3>2. Shaped(n + 1)
      BY <3>1, <2>4
    <3>3. Kept(n + 1)
      BY <3>1, <2>4, <2>5, <2>8
    <3> HIDE DEF Shaped, Kept, N
    <3> QED BY <2>1, <3>2, <3>3
  <2> QED
    BY <2>3, <2>4, <2>6, <2>7, <2>8 DEF Marks
<1>4. \A n \in 0..N : n \in S
  <2> HIDE DEF S, N
  <2> QED BY <1>1, <1>2, <1>3, BoundedInduction
<1> QED
  BY <1>4

\* What _mask_impl returns is a list of the file's lines and sentinels, with
\* every line that has a marker.
LEMMA MaskKeepsMarkers ==
  ASSUME NEW lines, LegalLines(lines)
  PROVE  /\ IsList(MaskImpl(lines))
         /\ Range(MaskImpl(lines)) \subseteq Range(lines) \cup {Sentinel}
         /\ \A l \in Range(lines) : l.mark # "plain" => l \in Range(MaskImpl(lines))
<1>1. IsList(lines) /\ Len(lines) \in 0..Len(lines)
      /\ \A l \in Range(lines) : \E k \in 1..Len(lines) : lines[k] = l
  BY ListShape DEF LegalLines, LegalLine
<1>2. PICK scan : IsScan(scan, lines) /\ MaskImpl(lines) = scan[Len(lines)].out
  BY <1>1, MaskScans
<1>3. /\ IsList(scan[Len(lines)].out)
      /\ Range(scan[Len(lines)].out) \subseteq Range(lines) \cup {Sentinel}
      /\ \A k \in 1..Len(lines) :
           lines[k].mark # "plain" => lines[k] \in Range(scan[Len(lines)].out)
  BY <1>1, <1>2, ScanKeepsMarkers
<1> QED
  BY <1>1, <1>2, <1>3

\* A file of one line without a marker is compared as it is.
LEMMA MaskOfOneLine ==
  ASSUME NEW line, line.mark = "plain"
  PROVE  MaskImpl(<<line>>) = <<line>>
<1>1. IsList(<<line>>) /\ Len(<<line>>) = 1 /\ <<line>>[1] = line
  BY ShortLists
<1>2. PICK scan : IsScan(scan, <<line>>) /\ MaskImpl(<<line>>) = scan[1].out
  BY <1>1, MaskScans
<1>3. /\ scan[0] = [out |-> <<>>, skipping |-> FALSE]
      /\ scan[0] = [out |-> scan[0].out, skipping |-> scan[0].skipping]
      /\ scan[0].out = <<>> /\ ~scan[0].skipping
  BY <1>2 DEF IsScan
<1>4. scan[1] = MaskLine(scan[0], line)
  BY <1>1, <1>2 DEF IsScan
<1>5. scan[1] = [out |-> Append(<<>>, line), skipping |-> scan[0].skipping]
  <2>1. line.mark \in Marks
    BY DEF Marks
  <2>2. MaskLine(scan[0], line) = [out |-> Append(scan[0].out, line), skipping |-> scan[0].skipping]
    BY <2>1, <1>3, MaskLineCases
  <2> QED BY <2>2, <1>3, <1>4
<1>6. Append(<<>>, line) = <<line>>
  OBVIOUS
<1> QED
  BY <1>2, <1>5, <1>6

-----------------------------------------------------------------------------
(* The scan and the skeleton.  The masked file is the skeleton with the     *)
(* sentinel after every opening marker, and the skeleton is the masked file *)
(* without what follows an opening marker: so two files are masked alike    *)
(* exactly if their skeletons are alike.                                   *)

Expand(s) ==
  FlattenSeq([k \in DOMAIN s |-> IF s[k].mark = "open" THEN <<s[k], Sentinel>> ELSE <<s[k]>>])

Contract(s) ==
  FlattenSeq([k \in DOMAIN s |-> IF k > 1 /\ s[k - 1].mark = "open" THEN <<>> ELSE <<s[k]>>])

\* Expand line by line.
LEMMA ExpandAppend ==
  ASSUME NEW s, NEW x, IsList(s)
  PROVE  Expand(Append(s, x)) = Expand(s) \o IF x.mark = "open" THEN <<x, Sentinel>> ELSE <<x>>
<1> DEFINE piece(l) == IF l.mark = "open" THEN <<l, Sentinel>> ELSE <<l>>
           t == Append(s, x)
           f == [k \in DOMAIN s |-> piece(s[k])]
           g == [k \in DOMAIN t |-> piece(t[k])]
<1>1. \A l : IsList(piece(l))
  BY ShortLists
<1>2. /\ t = s \o <<x>> /\ IsList(t) /\ Range(t) = Range(s) \cup {x}
      /\ Len(t) = Len(s) + 1 /\ \A k \in 1..Len(s) : t[k] = s[k]
      /\ t[Len(s) + 1] = x
  <2> HIDE DEF f, g
  <2> QED BY ListAppend
<1>3. /\ Len(s) \in Nat /\ DOMAIN s = 1..Len(s) /\ DOMAIN t = 1..(Len(s) + 1)
  BY <1>2, ListShape
<1>4. Expand(s) = FlattenSeq(f) /\ Expand(t) = FlattenSeq(g)
  BY DEF Expand
<1> HIDE DEF piece, t
<1>5. IsList(f) /\ Len(f) = Len(s) /\ IsList(g) /\ Len(g) = Len(s) + 1
  <2>1. f = [k \in DOMAIN s |-> f[k]] /\ g = [k \in DOMAIN t |-> g[k]]
    OBVIOUS
  <2> HIDE DEF f, g
  <2> QED BY <2>1, <1>2, Pieces
<1>6. \A k \in 1..Len(s) : IsList(f[k]) /\ g[k] = f[k]
  BY <1>1, <1>2, <1>3
<1>7. g[Len(s) + 1] = piece(x)
  BY <1>2, <1>3
<1>8. FlattenSeq(g) = FlattenSeq(f) \o g[Len(s) + 1]
  <2> HIDE DEF f, g
  <2>1. \A k \in 1..Len(f) : IsList(f[k]) /\ g[k] = f[k]
    BY <1>5, <1>6
  <2>2. IsList(g[Len(g)])
    BY <1>1, <1>5, <1>7
  <2> QED BY <2>1, <2>2, <1>5, FlattenExtended
<1>9. Expand(t) = Expand(s) \o piece(x)
  BY <1>4, <1>7, <1>8
<1> QED
  BY <1>9 DEF piece, t

\* Contract line by line: the line after an opening marker is dropped.
LEMMA ContractAppend ==
  ASSUME NEW s, NEW x, IsList(s)
  PROVE  /\ s = <<>> \/ s[Len(s)].mark # "open" => Contract(Append(s, x)) = Contract(s) \o <<x>>
         /\ s # <<>> /\ s[Len(s)].mark = "open" => Contract(Append(s, x)) = Contract(s) \o <<>>
<1> DEFINE t == Append(s, x)
           f == [k \in DOMAIN s |-> IF k > 1 /\ s[k - 1].mark = "open" THEN <<>> ELSE <<s[k]>>]
           g == [k \in DOMAIN t |-> IF k > 1 /\ t[k - 1].mark = "open" THEN <<>> ELSE <<t[k]>>]
<1>1. IsList(<<>>) /\ \A l : IsList(<<l>>)
  BY ShortLists
<1>2. /\ t = s \o <<x>> /\ IsList(t) /\ Range(t) = Range(s) \cup {x}
      /\ Len(t) = Len(s) + 1 /\ \A k \in 1..Len(s) : t[k] = s[k]
      /\ t[Len(s) + 1] = x
  <2> HIDE DEF f, g
  <2> QED BY ListAppend
<1>3. /\ Len(s) \in Nat /\ DOMAIN s = 1..Len(s) /\ DOMAIN t = 1..(Len(s) + 1)
  BY <1>2, ListShape
<1>4. Contract(s) = FlattenSeq(f) /\ Contract(t) = FlattenSeq(g)
  BY DEF Contract
<1> HIDE DEF t
<1>5. IsList(f) /\ Len(f) = Len(s) /\ IsList(g) /\ Len(g) = Len(s) + 1
  <2>1. f = [k \in DOMAIN s |-> f[k]] /\ g = [k \in DOMAIN t |-> g[k]]
    OBVIOUS
  <2> HIDE DEF f, g
  <2> QED BY <2>1, <1>2, Pieces
<1>6. \A k \in 1..Len(s) : IsList(f[k]) /\ g[k] = f[k]
  <2> SUFFICES ASSUME NEW k \in 1..Len(s)
               PROVE  IsList(f[k]) /\ g[k] = f[k]
    OBVIOUS
  <2>1. k \in DOMAIN s /\ k \in DOMAIN t /\ t[k] = s[k] /\ (k > 1 => t[k - 1] = s[k - 1])
    BY <1>2, <1>3
  <2> QED BY <2>1, <1>1
<1>7. g[Len(s) + 1] = IF Len(s) > 0 /\ s[Len(s)].mark = "open" THEN <<>> ELSE <<x>>
  <2>1. /\ Len(s) + 1 \in DOMAIN t /\ (Len(s) + 1) - 1 = Len(s)
        /\ Len(s) + 1 > 1 <=> Len(s) > 0
        /\ Len(s) > 0 => t[Len(s)] = s[Len(s)]
    BY <1>2, <1>3
  <2> QED BY <2>1, <1>2
<1>8. FlattenSeq(g) = FlattenSeq(f) \o g[Len(s) + 1]
  <2> HIDE DEF f, g
  <2>1. \A k \in 1..Len(f) : IsList(f[k]) /\ g[k] = f[k]
    BY <1>5, <1>6
  <2>2. IsList(g[Len(g)])
    BY <1>1, <1>5, <1>7
  <2> QED BY <2>1, <2>2, <1>5, FlattenExtended
<1>9. Len(s) > 0 <=> s # <<>>
  BY <1>3, EmptySeq DEF IsList
<1> HIDE DEF f, g
<1>10. Contract(t) = Contract(s) \o g[Len(s) + 1]
  BY <1>4, <1>8
<1>11. s = <<>> \/ s[Len(s)].mark # "open" => g[Len(s) + 1] = <<x>>
  BY <1>7, <1>9
<1>12. s # <<>> /\ s[Len(s)].mark = "open" => g[Len(s) + 1] = <<>>
  BY <1>7, <1>9
<1> QED
  BY <1>10, <1>11, <1>12 DEF t

\* Nothing expands to nothing, and contracts to nothing.
LEMMA ExpandNothing == Expand(<<>>) = <<>> /\ Contract(<<>>) = <<>>
<1>1. DOMAIN <<>> = {}
  OBVIOUS
<1> DEFINE f == [k \in DOMAIN <<>> |->
                   IF <<>>[k].mark = "open" THEN <<<<>>[k], Sentinel>> ELSE <<<<>>[k]>>]
           g == [k \in DOMAIN <<>> |->
                   IF k > 1 /\ <<>>[k - 1].mark = "open" THEN <<>> ELSE <<<<>>[k]>>]
<1>2. f = <<>> /\ g = <<>>
  BY <1>1
<1>3. Expand(<<>>) = FlattenSeq(f) /\ Contract(<<>>) = FlattenSeq(g)
  BY DEF Expand, Contract
<1> HIDE DEF f, g
<1>4. FlattenSeq(<<>>) = <<>>
  BY DEF FlattenSeq
<1> QED
  BY <1>2, <1>3, <1>4

\* After line k the scan is inside an impl block.
Inside(lines, k) ==
  \E j \in 1..k : /\ lines[j].mark = "open"
                  /\ \A i \in (j + 1)..k : lines[i].mark = "plain"

\* Inside follows the markers line by line.
LEMMA InsideNext ==
  ASSUME NEW lines, NEW k \in Nat
  PROVE  Inside(lines, k + 1) <=>
           lines[k + 1].mark = "open" \/ (lines[k + 1].mark = "plain" /\ Inside(lines, k))
<1>1. ASSUME lines[k + 1].mark = "open"
      PROVE  Inside(lines, k + 1)
  <2>1. k + 1 \in 1..(k + 1) /\ \A i \in ((k + 1) + 1)..(k + 1) : FALSE
    OBVIOUS
  <2> QED BY <1>1, <2>1 DEF Inside
<1>2. ASSUME lines[k + 1].mark = "plain", Inside(lines, k)
      PROVE  Inside(lines, k + 1)
  <2>1. PICK j \in 1..k : lines[j].mark = "open" /\ \A i \in (j + 1)..k : lines[i].mark = "plain"
    BY <1>2 DEF Inside
  <2>2. j \in 1..(k + 1) /\ \A i \in (j + 1)..(k + 1) : i \in (j + 1)..k \/ i = k + 1
    OBVIOUS
  <2> QED BY <1>2, <2>1, <2>2 DEF Inside
<1>3. ASSUME Inside(lines, k + 1), lines[k + 1].mark # "open"
      PROVE  lines[k + 1].mark = "plain" /\ Inside(lines, k)
  <2>1. PICK j \in 1..(k + 1) : /\ lines[j].mark = "open"
                                /\ \A i \in (j + 1)..(k + 1) : lines[i].mark = "plain"
    BY <1>3 DEF Inside
  <2>2. j # k + 1
    BY <1>3, <2>1
  <2>3. /\ j \in 1..k /\ k + 1 \in (j + 1)..(k + 1)
        /\ \A i \in (j + 1)..k : i \in (j + 1)..(k + 1)
    BY <2>2
  <2> QED BY <2>1, <2>3 DEF Inside
<1> QED
  BY <1>1, <1>2, <1>3

\* The developer's lines are the plain ones inside an impl block.
LEMMA OwnedIsInside ==
  ASSUME NEW lines, NEW k \in Nat
  PROVE  DeveloperOwned(lines, k + 1) <=> lines[k + 1].mark = "plain" /\ Inside(lines, k)
<1>1. (k + 1) - 1 = k
  OBVIOUS
<1>2. DeveloperOwned(lines, k + 1) <=>
        /\ lines[k + 1].mark = "plain"
        /\ \E j \in 1..k : /\ lines[j].mark = "open"
                           /\ \A i \in (j + 1)..k : lines[i].mark = "plain"
  BY <1>1 DEF DeveloperOwned
<1> QED
  BY <1>2 DEF Inside

\* The lists whose concatenation the skeleton is.
Parts(lines) == [i \in DOMAIN lines |-> When(~DeveloperOwned(lines, i), <<lines[i]>>)]

\* They are lists, of a line or of none.
LEMMA PartsAreLists ==
  ASSUME NEW lines, IsList(lines)
  PROVE  /\ Skeleton(lines) = FlattenSeq(Parts(lines))
         /\ IsList(Parts(lines)) /\ Len(Parts(lines)) = Len(lines)
         /\ \A k \in 1..Len(lines) :
              /\ Parts(lines)[k] = IF DeveloperOwned(lines, k) THEN <<>> ELSE <<lines[k]>>
              /\ IsList(Parts(lines)[k])
              /\ Range(Parts(lines)[k]) = IF DeveloperOwned(lines, k) THEN {} ELSE {lines[k]}
<1>1. Skeleton(lines) = FlattenSeq(Parts(lines))
  BY DEF Skeleton, Parts
<1>2. Parts(lines) = [k \in DOMAIN lines |-> Parts(lines)[k]]
  BY DEF Parts
<1>3. IsList(Parts(lines)) /\ Len(Parts(lines)) = Len(lines)
  BY <1>2, Pieces
<1>4. DOMAIN lines = 1..Len(lines)
  BY ListShape
<1>5. \A k \in 1..Len(lines) :
        Parts(lines)[k] = IF DeveloperOwned(lines, k) THEN <<>> ELSE <<lines[k]>>
  BY <1>4 DEF Parts, When
<1>6. IsList(<<>>) /\ Range(<<>>) = {} /\ \A l : IsList(<<l>>) /\ Range(<<l>>) = {l}
  BY ShortLists
<1> QED
  BY <1>1, <1>3, <1>5, <1>6

\* The skeleton is made of the file's lines, and keeps every line with a marker.
LEMMA SkeletonKeepsMarkers ==
  ASSUME NEW lines, IsList(lines)
  PROVE  /\ IsList(Skeleton(lines))
         /\ Range(Skeleton(lines)) \subseteq Range(lines)
         /\ \A l \in Range(lines) : l.mark # "plain" => l \in Range(Skeleton(lines))
<1>1. /\ Skeleton(lines) = FlattenSeq(Parts(lines))
      /\ IsList(Parts(lines)) /\ Len(Parts(lines)) = Len(lines)
      /\ \A k \in 1..Len(lines) :
           /\ IsList(Parts(lines)[k])
           /\ Range(Parts(lines)[k]) = IF DeveloperOwned(lines, k) THEN {} ELSE {lines[k]}
  BY PartsAreLists
<1>2. /\ IsList(Skeleton(lines))
      /\ Range(Skeleton(lines)) = UNION {Range(Parts(lines)[k]) : k \in 1..Len(lines)}
  BY <1>1, FlattenIsList
<1>3. /\ \A k \in 1..Len(lines) : lines[k] \in Range(lines)
      /\ \A l \in Range(lines) : \E k \in 1..Len(lines) : lines[k] = l
  BY ListShape
<1>4. Range(Skeleton(lines)) \subseteq Range(lines)
  <2>1. \A k \in 1..Len(lines) : Range(Parts(lines)[k]) \subseteq Range(lines)
    BY <1>1, <1>3
  <2> QED BY <2>1, <1>2
<1>5. \A k \in 1..Len(lines) : lines[k].mark # "plain" => ~DeveloperOwned(lines, k)
  BY DEF DeveloperOwned
<1>6. ASSUME NEW l \in Range(lines), l.mark # "plain"
      PROVE  l \in Range(Skeleton(lines))
  <2>1. PICK k \in 1..Len(lines) : lines[k] = l
    BY <1>3
  <2>2. Range(Parts(lines)[k]) = {l}
    BY <1>1, <1>5, <1>6, <2>1
  <2> QED BY <1>2, <2>2
<1> QED
  BY <1>2, <1>4, <1>6

\* Line by line, the masked file expands the skeleton and the skeleton
\* contracts the masked file.
LEMMA MaskAndSkeletonByLine ==
  ASSUME NEW lines, LegalLines(lines), \A l \in Range(lines) : l.mark # "both",
         NEW scan, IsScan(scan, lines), NEW run, IsRun(run, Parts(lines))
  PROVE  \A n \in 0..Len(lines) :
           /\ scan[n].out = Expand(run[n])
           /\ Contract(scan[n].out) = run[n]
<1> DEFINE N == Len(lines)
           LastOf(s) == s[Len(s)]
           Related(n) == /\ scan[n].out = Expand(run[n])
                         /\ Contract(scan[n].out) = run[n]
                         /\ scan[n].out = <<>> \/ LastOf(scan[n].out).mark # "open"
                         /\ scan[n].skipping <=> Inside(lines, n)
           S == {n \in 0..N : Related(n)}
<1>1. /\ N \in Nat /\ IsList(lines)
      /\ \A k \in 1..N : lines[k] \in Range(lines) /\ lines[k].mark \in {"plain", "open", "close"}
  BY ListShape DEF LegalLines, LegalLine, Marks
<1>2. /\ Skeleton(lines) = FlattenSeq(Parts(lines))
      /\ IsList(Parts(lines)) /\ Len(Parts(lines)) = N
      /\ \A k \in 1..N : /\ Parts(lines)[k] = IF DeveloperOwned(lines, k) THEN <<>> ELSE <<lines[k]>>
                         /\ IsList(Parts(lines)[k])
  BY <1>1, PartsAreLists
<1>3. \A n \in 0..N : /\ scan[n] = [out |-> scan[n].out, skipping |-> scan[n].skipping]
                      /\ scan[n].skipping \in BOOLEAN
                      /\ IsList(scan[n].out)
  BY ScanKeepsMarkers
<1>4. \A n \in 0..N : IsList(run[n])
  BY <1>2, RunIsList
<1>5. 0 \in S
  <2>1. scan[0].out = <<>> /\ scan[0].skipping = FALSE /\ run[0] = <<>>
    BY DEF IsScan, IsRun
  <2>2. ~Inside(lines, 0)
    BY DEF Inside
  <2>3. Related(0)
    <3>1. scan[0].out = Expand(run[0]) /\ Contract(scan[0].out) = run[0] /\ scan[0].out = <<>>
      BY <2>1, ExpandNothing
    <3>2. scan[0].skipping <=> Inside(lines, 0)
      BY <2>1, <2>2
    <3> QED BY <3>1, <3>2
  <2>4. 0 \in 0..N
    BY <1>1
  <2> HIDE DEF Related, N
  <2> QED BY <2>3, <2>4
<1>6. ASSUME NEW n \in 0..(N - 1), n \in S
      PROVE  n + 1 \in S
  <2> DEFINE acc == scan[n]
             line == lines[n + 1]
  <2>1. n \in Nat /\ n \in 0..N /\ n + 1 \in 1..N /\ n + 1 \in 0..N /\ (n + 1) - 1 = n
    BY <1>1
  <2>2. scan[n + 1] = MaskLine(acc, line)
    BY <2>1 DEF IsScan
  <2>3. line.mark \in Marks /\ line.mark \in {"plain", "open", "close"}
    BY <1>1, <2>1 DEF Marks
  <2>4. run[n + 1] = run[n] \o IF DeveloperOwned(lines, n + 1) THEN <<>> ELSE <<line>>
    BY <1>2, <2>1 DEF IsRun
  <2>5. DeveloperOwned(lines, n + 1) <=> line.mark = "plain" /\ Inside(lines, n)
    BY <2>1, OwnedIsInside
  <2>6. Inside(lines, n + 1) <=> line.mark = "open" \/ (line.mark = "plain" /\ Inside(lines, n))
    BY <2>1, InsideNext
  <2>7. Related(n)
    BY <1>6
  <2>8. acc = [out |-> acc.out, skipping |-> acc.skipping] /\ IsList(acc.out) /\ IsList(run[n])
    BY <1>3, <1>4, <2>1
  <2>9. run[n] \o <<line>> = Append(run[n], line)
    BY <2>8, ListAppend
  <2>10. CASE line.mark = "open"
    <3>1. scan[n + 1] = [out |-> acc.out \o <<line, Sentinel>>, skipping |-> TRUE]
      BY <2>2, <2>3, <2>8, <2>10, MaskLineCases
    <3>2. scan[n + 1].out = acc.out \o <<line, Sentinel>> /\ scan[n + 1].skipping
      BY <3>1
    <3>3. run[n + 1] = Append(run[n], line)
      BY <2>4, <2>5, <2>9, <2>10
    <3> DEFINE half == Append(acc.out, line)
    <3>4. /\ IsList(half) /\ Len(half) = Len(acc.out) + 1 /\ half[Len(acc.out) + 1] = line
          /\ half = acc.out \o <<line>>
      <4>1. IsList(acc.out)
        BY <2>8
      <4> HIDE DEF acc, line, Related, S, N
      <4>2. /\ half = acc.out \o <<line>> /\ IsList(half)
            /\ Range(half) = Range(acc.out) \cup {line}
            /\ Len(half) = Len(acc.out) + 1 /\ \A k \in 1..Len(acc.out) : half[k] = acc.out[k]
            /\ half[Len(acc.out) + 1] = line
        BY <4>1, ListAppend
      <4> QED BY <4>2
    <3>5. scan[n + 1].out = Append(half, Sentinel)
      <4>1. <<line, Sentinel>> = <<line>> \o <<Sentinel>>
        BY PairIsConcat
      <4>2. IsList(<<line>>) /\ IsList(<<Sentinel>>)
        BY ShortLists
      <4>3. acc.out \o <<line, Sentinel>> = half \o <<Sentinel>>
        <5>1. (acc.out \o <<line>>) \o <<Sentinel>> = acc.out \o (<<line>> \o <<Sentinel>>)
          BY <4>2, <2>8, ListConcatAssociative
        <5> HIDE DEF half
        <5> QED BY <5>1, <4>1, <3>4
      <4>4. Append(half, Sentinel) = half \o <<Sentinel>>
        BY <3>4, ListAppend
      <4> QED BY <3>2, <4>3, <4>4
    <3>6. scan[n + 1].out = Expand(run[n + 1])
      <4>1. Expand(Append(run[n], line)) = Expand(run[n]) \o <<line, Sentinel>>
        <5>1. IsList(run[n]) /\ line.mark = "open"
          BY <2>8, <2>10
        <5>2. Expand(Append(run[n], line)) =
                Expand(run[n]) \o IF line.mark = "open" THEN <<line, Sentinel>> ELSE <<line>>
          BY <5>1, ExpandAppend
        <5> QED BY <5>1, <5>2
      <4> QED BY <4>1, <2>7, <3>2, <3>3
    <3>7. Contract(half) = Append(run[n], line)
      BY <2>7, <2>8, <2>9, ContractAppend
    <3>8. half # <<>> /\ half[Len(half)].mark = "open"
      <4>1. Len(half) # 0
        BY <2>8, <3>4, ListShape
      <4>2. Len(<<>>) = 0
        BY ShortLists
      <4> HIDE DEF half
      <4> QED BY <4>1, <4>2, <3>4, <2>10
    <3>9. Contract(scan[n + 1].out) = run[n + 1]
      <4>1. Contract(Append(half, Sentinel)) = Contract(half) \o <<>>
        BY <3>4, <3>8, ContractAppend
      <4>2. IsList(Append(run[n], line))
        BY <2>8, ListAppend
      <4>3. Append(run[n], line) \o <<>> = Append(run[n], line)
        BY <4>2, ListConcatNil
      <4> QED BY <4>1, <4>3, <3>3, <3>5, <3>7
    <3>10. LastOf(scan[n + 1].out).mark # "open"
      <4>1. /\ Len(Append(half, Sentinel)) = Len(half) + 1
            /\ Append(half, Sentinel)[Len(half) + 1] = Sentinel
        BY <3>4, ListAppend
      <4>2. Sentinel.mark = "plain"
        BY DEF Sentinel, Plain, Line
      <4> QED BY <4>1, <4>2, <3>5
    <3>11. scan[n + 1].skipping <=> Inside(lines, n + 1)
      BY <1>3, <2>1, <2>6, <2>10, <3>2
    <3>12. Related(n + 1)
      BY <3>6, <3>9, <3>10, <3>11
    <3> HIDE DEF Related, N
    <3> QED BY <2>1, <3>12
  <2>11. CASE line.mark = "close" \/ (line.mark = "plain" /\ ~Inside(lines, n))
    <3>1. scan[n + 1].out = Append(acc.out, line) /\ scan[n + 1].skipping = FALSE
      <4>1. CASE line.mark = "close"
        <5>1. scan[n + 1] = [out |-> Append(acc.out, line), skipping |-> FALSE]
          BY <2>2, <2>3, <2>8, <4>1, MaskLineCases
        <5> QED BY <5>1
      <4>2. CASE line.mark = "plain" /\ ~Inside(lines, n)
        <5>1. acc.skipping = FALSE
          BY <2>1, <2>7, <4>2, <1>3
        <5>2. scan[n + 1] = [out |-> Append(acc.out, line), skipping |-> acc.skipping]
          BY <2>2, <2>3, <2>8, <4>2, <5>1, MaskLineCases
        <5> QED BY <5>1, <5>2
      <4> QED BY <4>1, <4>2, <2>11
    <3>2. run[n + 1] = Append(run[n], line)
      BY <2>4, <2>5, <2>9, <2>11
    <3>3. scan[n + 1].out = Expand(run[n + 1])
      <4>1. Expand(Append(run[n], line)) = Expand(run[n]) \o <<line>>
        BY <2>8, <2>11, ExpandAppend
      <4>2. Append(acc.out, line) = acc.out \o <<line>>
        BY <2>8, ListAppend
      <4> QED BY <4>1, <4>2, <2>7, <3>1, <3>2
    <3>4. Contract(scan[n + 1].out) = run[n + 1]
      <4>1. Contract(Append(acc.out, line)) = Contract(acc.out) \o <<line>>
        BY <2>7, <2>8, ContractAppend
      <4> QED BY <4>1, <2>7, <2>9, <3>1, <3>2
    <3>5. LastOf(scan[n + 1].out).mark # "open"
      <4>1. /\ Len(Append(acc.out, line)) = Len(acc.out) + 1
            /\ Append(acc.out, line)[Len(acc.out) + 1] = line
        BY <2>8, ListAppend
      <4> QED BY <4>1, <3>1, <2>11
    <3>6. scan[n + 1].skipping <=> Inside(lines, n + 1)
      BY <2>6, <2>11, <3>1
    <3>7. Related(n + 1)
      BY <3>3, <3>4, <3>5, <3>6
    <3> HIDE DEF Related, N
    <3> QED BY <2>1, <3>7
  <2>12. CASE line.mark = "plain" /\ Inside(lines, n)
    <3>1. scan[n + 1] = acc
      BY <2>2, <2>3, <2>7, <2>8, <2>12, MaskLineCases
    <3>2. run[n + 1] = run[n]
      BY <2>4, <2>5, <2>8, <2>12, ListConcatNil
    <3>3. Inside(lines, n + 1)
      BY <2>6, <2>12
    <3>4. Related(n + 1)
      BY <2>7, <2>12, <3>1, <3>2, <3>3
    <3> HIDE DEF Related, N
    <3> QED BY <2>1, <3>4
  <2> QED
    BY <2>3, <2>10, <2>11, <2>12
<1>7. \A n \in 0..N : n \in S
  <2> HIDE DEF S, N
  <2> QED BY <1>1, <1>5, <1>6, BoundedInduction
<1> QED
  BY <1>7

\* A file without a line that holds both markers: masking it and taking its
\* skeleton tell the same of it.
LEMMA MaskIsSkeleton ==
  ASSUME NEW lines, LegalLines(lines), \A l \in Range(lines) : l.mark # "both"
  PROVE  MaskImpl(lines) = Expand(Skeleton(lines)) /\ Contract(MaskImpl(lines)) = Skeleton(lines)
<1>1. IsList(lines) /\ Len(lines) \in 0..Len(lines)
  BY ListShape DEF LegalLines, LegalLine
<1>2. PICK scan : IsScan(scan, lines) /\ MaskImpl(lines) = scan[Len(lines)].out
  BY <1>1, MaskScans
<1>3. PICK run : IsRun(run, Parts(lines)) /\ Skeleton(lines) = run[Len(lines)]
  <2>1. /\ Skeleton(lines) = FlattenSeq(Parts(lines))
        /\ IsList(Parts(lines)) /\ Len(Parts(lines)) = Len(lines)
        /\ \A k \in 1..Len(lines) : IsList(Parts(lines)[k])
    BY <1>1, PartsAreLists
  <2> QED BY <2>1, FlattenRuns
<1>4. scan[Len(lines)].out = Expand(run[Len(lines)])
      /\ Contract(scan[Len(lines)].out) = run[Len(lines)]
  BY <1>1, <1>2, <1>3, MaskAndSkeletonByLine
<1> QED
  BY <1>2, <1>3, <1>4

\* The comparison of check: a file differs from a generated one without a line
\* of both markers exactly if its skeleton does.
LEMMA DriftIsOfTheSkeleton ==
  ASSUME NEW expected, LegalLines(expected), \A l \in Range(expected) : l.mark # "both",
         NEW actual, LegalLines(actual)
  PROVE  MaskImpl(expected) = MaskImpl(actual) <=> Skeleton(actual) = Skeleton(expected)
<1>1. MaskImpl(expected) = Expand(Skeleton(expected))
      /\ Contract(MaskImpl(expected)) = Skeleton(expected)
  BY MaskIsSkeleton
<1>2. CASE \A l \in Range(actual) : l.mark # "both"
  <2>1. MaskImpl(actual) = Expand(Skeleton(actual))
        /\ Contract(MaskImpl(actual)) = Skeleton(actual)
    BY <1>2, MaskIsSkeleton
  <2> QED BY <1>1, <2>1
<1>3. CASE \E l \in Range(actual) : l.mark = "both"
  <2>1. PICK l \in Range(actual) : l.mark = "both"
    BY <1>3
  <2>2. l \in Range(MaskImpl(actual)) /\ l \in Range(Skeleton(actual))
    BY <2>1, MaskKeepsMarkers, SkeletonKeepsMarkers DEF LegalLines
  <2>3. /\ Range(MaskImpl(expected)) \subseteq Range(expected) \cup {Sentinel}
        /\ Range(Skeleton(expected)) \subseteq Range(expected)
    BY MaskKeepsMarkers, SkeletonKeepsMarkers DEF LegalLines
  <2>4. Sentinel.mark = "plain"
    BY DEF Sentinel, Plain, Line
  <2>5. l \notin Range(expected) /\ l # Sentinel
    BY <2>1, <2>4
  <2> QED BY <2>2, <2>3, <2>5
<1> QED
  BY <1>2, <1>3

-----------------------------------------------------------------------------
(* The invariant: the tree is legal, and a report that is there is the one  *)
(* check would make of this spec and this tree - every action that touches *)
(* either takes it back.                                                   *)

ReportIsCurrent == report = NotChecked \/ report = CheckProject(Generated[spec], files)

IInv ==
  /\ spec \in Specs
  /\ edits \in 0..MaxEdits
  /\ LegalTree(files)
  /\ ReportIsCurrent

\* What scaffold writes of a spec is legal, as a whole and up to any write.
LEMMA GeneratedIsLegal ==
  ASSUME NEW s \in Specs
  PROVE  /\ LegalWrites(WritesOf[s])
         /\ LegalTree(Generated[s])
         /\ Generated[s] = WrittenTree(WritesOf[s])
         /\ \A n \in 1..(Len(WritesOf[s]) - 1) : LegalTree(WrittenTree(SubSeq(WritesOf[s], 1, n)))
<1>1. WritesOf[s] = Writes(s) /\ Generated[s] = WrittenTree(Writes(s))
  BY DEF WritesOf, Generated, ScaffoldTree
<1>2. LegalWrites(Writes(s))
  BY SpecsTyped, LegalRun
<1>3. Len(Writes(s)) \in Nat
  BY <1>2, ListShape DEF LegalWrites
<1>4. \A n \in 1..(Len(Writes(s)) - 1) : n \in 0..Len(Writes(s))
  BY <1>3
<1>5. \A n \in 1..(Len(Writes(s)) - 1) : LegalTree(WrittenTree(SubSeq(Writes(s), 1, n)))
  BY <1>2, <1>4, LegalInterruptedTree
<1> QED
  BY <1>1, <1>2, <1>5, LegalWrittenTree

\* Inserting and removing lines keeps a file a list of legal lines.
LEMMA LegalEdits ==
  ASSUME NEW lines, LegalLines(lines)
  PROVE  /\ \A i \in 0..Len(lines), line \in Palette : LegalLines(InsertAt(lines, i + 1, line))
         /\ \A i \in 1..Len(lines) : LegalLines(RemoveAt(lines, i))
<1>1. Len(lines) \in Nat /\ \A k \in 1..Len(lines) : lines[k] \in Range(lines)
  BY ListShape DEF LegalLines
<1>2. \A m \in 1..(Len(lines) + 1), n \in 0..Len(lines) : LegalLines(SubSeq(lines, m, n))
  <2> SUFFICES ASSUME NEW m \in 1..(Len(lines) + 1), NEW n \in 0..Len(lines)
               PROVE  LegalLines(SubSeq(lines, m, n))
    OBVIOUS
  <2>1. SubSeq(lines, m, n) \in Seq(Range(lines))
    BY <1>1, SubSeqProperties
  <2>2. IsList(SubSeq(lines, m, n)) /\ Range(SubSeq(lines, m, n)) \subseteq Range(lines)
    BY <2>1, SeqIsList
  <2> QED BY <2>2 DEF LegalLines
<1>3. ASSUME NEW i \in 0..Len(lines), NEW line \in Palette
      PROVE  LegalLines(InsertAt(lines, i + 1, line))
  <2>1. InsertAt(lines, i + 1, line)
          = SubSeq(lines, 1, (i + 1) - 1) \o <<line>> \o SubSeq(lines, i + 1, Len(lines))
    BY DEF InsertAt
  <2>2. (i + 1) - 1 \in 0..Len(lines) /\ i + 1 \in 1..(Len(lines) + 1) /\ 1 \in 1..(Len(lines) + 1)
        /\ Len(lines) \in 0..Len(lines)
    BY <1>1
  <2>3. LegalLines(<<line>>)
    BY EditsTyped, LegalParts DEF LegalLine
  <2> QED BY <1>2, <2>1, <2>2, <2>3, LegalParts
<1>4. ASSUME NEW i \in 1..Len(lines)
      PROVE  LegalLines(RemoveAt(lines, i))
  <2>1. RemoveAt(lines, i) = SubSeq(lines, 1, i - 1) \o SubSeq(lines, i + 1, Len(lines))
    BY DEF RemoveAt
  <2>2. i - 1 \in 0..Len(lines) /\ i + 1 \in 1..(Len(lines) + 1) /\ 1 \in 1..(Len(lines) + 1)
        /\ Len(lines) \in 0..Len(lines)
    BY <1>1
  <2> QED BY <1>2, <2>1, <2>2, LegalParts
<1> QED
  BY <1>3, <1>4

\* The project starts empty and unchecked.
LEMMA InitInvariant == Init => IInv
<1> SUFFICES ASSUME Init
             PROVE  IInv
  OBVIOUS
<1>1. LegalTree(files)
  <2>1. files = <<>> /\ DOMAIN <<>> = {}
    BY DEF Init, NoFiles
  <2> QED BY <2>1 DEF LegalTree
<1>2. 0 \in 0..MaxEdits
  BY EditsTyped
<1> QED
  BY <1>1, <1>2 DEF Init, IInv, ReportIsCurrent

\* Every edit of the tree keeps the invariant, if the new tree is legal.
LEMMA EditInvariant ==
  ASSUME IInv, NEW new, Edit(new), LegalTree(new)
  PROVE  IInv'
<1>1. edits' \in 0..MaxEdits
  BY EditsTyped DEF Edit, IInv
<1> QED
  BY <1>1 DEF Edit, IInv, ReportIsCurrent, LegalTree, NotChecked

\* Every step keeps the invariant.
LEMMA NextInvariant == IInv /\ [Next]_vars => IInv'
<1> SUFFICES ASSUME IInv, [Next]_vars
             PROVE  IInv'
  OBVIOUS
<1>1. ASSUME NEW new \in Specs, ChangeSpec(new)
      PROVE  IInv'
  BY <1>1 DEF ChangeSpec, IInv, ReportIsCurrent, LegalTree, NotChecked
<1>2. CASE Regenerate
  <2>1. LegalTree(Generated[spec])
    BY GeneratedIsLegal DEF IInv
  <2>2. LegalTree(files)'
    BY <1>2, <2>1 DEF Regenerate, LegalTree
  <2>3. 0 \in 0..MaxEdits
    BY EditsTyped
  <2> QED BY <1>2, <2>2, <2>3 DEF Regenerate, IInv, ReportIsCurrent, NotChecked
<1>3. ASSUME NEW n \in 1..(Len(WritesOf[spec]) - 1), Interrupt(n)
      PROVE  IInv'
  <2>1. LegalTree(WrittenTree(SubSeq(WritesOf[spec], 1, n)))
    BY GeneratedIsLegal DEF IInv
  <2>2. LegalTree(files)'
    BY <1>3, <2>1 DEF Interrupt, LegalTree
  <2>3. MaxEdits \in 0..MaxEdits
    BY EditsTyped
  <2> QED BY <1>3, <2>2, <2>3 DEF Interrupt, IInv, ReportIsCurrent, NotChecked
<1>4. ASSUME NEW p \in Editable \cap DOMAIN files,
             NEW i \in 0..Len(files[p]), NEW line \in Palette, InsertLine(p, i, line)
      PROVE  IInv'
  <2> DEFINE new == [files EXCEPT ![p] = InsertAt(@, i + 1, line)]
  <2>1. LegalLines(InsertAt(files[p], i + 1, line))
    BY LegalEdits DEF IInv, LegalTree
  <2>2. LegalTree(new)
    BY <2>1 DEF IInv, LegalTree
  <2> QED BY <1>4, <2>2, EditInvariant DEF InsertLine
<1>5. ASSUME NEW p \in Editable \cap DOMAIN files, NEW i \in 1..Len(files[p]), RemoveLine(p, i)
      PROVE  IInv'
  <2> DEFINE new == [files EXCEPT ![p] = RemoveAt(@, i)]
  <2>1. LegalLines(RemoveAt(files[p], i))
    BY LegalEdits DEF IInv, LegalTree
  <2>2. LegalTree(new)
    BY <2>1 DEF IInv, LegalTree
  <2> QED BY <1>5, <2>2, EditInvariant DEF RemoveLine
<1>6. ASSUME NEW p \in Editable, NEW line \in Palette, AddFile(p, line)
      PROVE  IInv'
  <2> DEFINE new == [q \in DOMAIN files \cup {p} |-> IF q = p THEN <<line>> ELSE files[q]]
  <2>1. LegalLines(<<line>>) /\ IsList(p)
    BY EditsTyped, LegalParts DEF LegalLine
  <2>2. LegalTree(new)
    BY <2>1 DEF IInv, LegalTree
  <2> QED BY <1>6, <2>2, EditInvariant DEF AddFile
<1>7. ASSUME NEW p \in Editable \cap DOMAIN files, DeleteFile(p)
      PROVE  IInv'
  <2> DEFINE new == [q \in DOMAIN files \ {p} |-> files[q]]
  <2>1. LegalTree(new)
    BY DEF IInv, LegalTree
  <2> QED BY <1>7, <2>1, EditInvariant DEF DeleteFile
<1>8. CASE RunCheck
  BY <1>8 DEF RunCheck, IInv, ReportIsCurrent, LegalTree
<1>9. CASE UNCHANGED vars
  BY <1>9 DEF vars, IInv, ReportIsCurrent, LegalTree, NotChecked
<1> QED
  BY <1>1, <1>2, <1>3, <1>4, <1>5, <1>6, <1>7, <1>8, <1>9 DEF Next

\* The invariant holds of every reachable project.
THEOREM ProjectInvariant == Spec => []IInv
<1>1. Init => IInv
  BY InitInvariant
<1>2. IInv /\ [Next]_vars => IInv'
  BY NextInvariant
<1> QED
  BY <1>1, <1>2, PTL DEF Spec

-----------------------------------------------------------------------------
(* What a report says.  Checked, it is the report of this spec and tree.    *)

\* The directories the scan puts together.
LEMMA RingDirectories ==
  ASSUME NEW ctx
  PROVE  /\ <<"src", "contexts", ctx>> \o <<"domain">> = <<"src", "contexts", ctx, "domain">>
         /\ <<"src", "contexts", ctx>> \o <<"adapters", "web">>
              = <<"src", "contexts", ctx, "adapters", "web">>
<1> DEFINE three == <<"src", "contexts", ctx>>
           domain == <<"domain">>
           web == <<"adapters", "web">>
           four == <<"src", "contexts", ctx, "domain">>
           five == <<"src", "contexts", ctx, "adapters", "web">>
<1>1. IsList(three) /\ IsList(domain) /\ IsList(web) /\ IsList(four) /\ IsList(five)
  <2>1. five \in Seq({"src", "contexts", ctx, "adapters", "web"})
    OBVIOUS
  <2>2. IsList(five)
    BY <2>1, SeqIsList
  <2> QED BY <2>2, ShortLists, LongerLists
<1>2. /\ Len(three) = 3 /\ Len(domain) = 1 /\ Len(web) = 2 /\ Len(four) = 4 /\ Len(five) = 5
      /\ three[1] = "src" /\ three[2] = "contexts" /\ three[3] = ctx
      /\ domain[1] = "domain" /\ web[1] = "adapters" /\ web[2] = "web"
      /\ four[1] = "src" /\ four[2] = "contexts" /\ four[3] = ctx /\ four[4] = "domain"
      /\ five[1] = "src" /\ five[2] = "contexts" /\ five[3] = ctx /\ five[4] = "adapters"
      /\ five[5] = "web"
  OBVIOUS
<1> HIDE DEF three, domain, web, four, five
<1>3. three \o domain = four
  <2>1. /\ IsList(three \o domain) /\ Len(three \o domain) = Len(three) + Len(domain)
        /\ \A k \in 1..Len(three) : (three \o domain)[k] = three[k]
        /\ \A k \in 1..Len(domain) : (three \o domain)[Len(three) + k] = domain[k]
    BY <1>1, ListConcat
  <2>2. /\ Len(three \o domain) = 4
        /\ (three \o domain)[1] = three[1] /\ (three \o domain)[2] = three[2]
        /\ (three \o domain)[3] = three[3] /\ (three \o domain)[4] = domain[1]
    BY <1>2, <2>1
  <2>3. \A k \in 1..4 : (three \o domain)[k] = four[k]
    BY <1>2, <2>2
  <2> QED BY <1>1, <1>2, <2>1, <2>2, <2>3, ListEqual
<1>4. three \o web = five
  <2>1. /\ IsList(three \o web) /\ Len(three \o web) = Len(three) + Len(web)
        /\ \A k \in 1..Len(three) : (three \o web)[k] = three[k]
        /\ \A k \in 1..Len(web) : (three \o web)[Len(three) + k] = web[k]
    BY <1>1, ListConcat
  <2>2. /\ Len(three \o web) = 5
        /\ (three \o web)[1] = three[1] /\ (three \o web)[2] = three[2]
        /\ (three \o web)[3] = three[3] /\ (three \o web)[4] = web[1]
        /\ (three \o web)[5] = web[2]
    BY <1>2, <2>1
  <2>3. \A k \in 1..5 : (three \o web)[k] = five[k]
    BY <1>2, <2>2
  <2> QED BY <1>1, <1>2, <2>1, <2>2, <2>3, ListEqual
<1> QED
  BY <1>3, <1>4 DEF three, domain, web, four, five

\* v is what the scan finds in the domain or the web adapters of ctx.
FoundIn(tree, ctx, v) ==
  \/ \E p \in PythonUnder(tree, <<"src", "contexts", ctx, "domain">>) :
       \E mod \in DomainImports(tree[p]) :
         DomainForbids(AllContexts(tree), ctx, mod) /\ v = Violation("boundary", p, mod)
  \/ \E p \in PythonUnder(tree, <<"src", "contexts", ctx, "adapters", "web">>) :
       \E mod \in DomainImports(tree[p]) :
         WebForbids(ctx, mod) /\ v = Violation("boundary", p, mod)

\* The scan goes through the contexts that are there.
LEMMA BoundaryFindings ==
  ASSUME NEW tree, NEW v
  PROVE  v \in BoundaryScan(tree) <=> \E ctx \in AllContexts(tree) : FoundIn(tree, ctx, v)
<1> DEFINE all == AllContexts(tree)
           inner(ctx, p) == {Violation("boundary", p, mod) :
                               mod \in {m \in DomainImports(tree[p]) : DomainForbids(all, ctx, m)}}
           outer(ctx, p) == {Violation("boundary", p, mod) :
                               mod \in {m \in DomainImports(tree[p]) : WebForbids(ctx, m)}}
           domain(ctx) == UNION {inner(ctx, p) :
                             p \in PythonUnder(tree, <<"src", "contexts", ctx>> \o <<"domain">>)}
           web(ctx) == UNION {outer(ctx, p) :
                             p \in PythonUnder(tree, <<"src", "contexts", ctx>> \o <<"adapters", "web">>)}
<1>1. BoundaryScan(tree) = UNION {domain(ctx) \cup web(ctx) : ctx \in all}
  BY DEF BoundaryScan
<1>2. \A ctx, p : /\ v \in inner(ctx, p) <=> \E mod \in DomainImports(tree[p]) :
                       DomainForbids(all, ctx, mod) /\ v = Violation("boundary", p, mod)
                  /\ v \in outer(ctx, p) <=> \E mod \in DomainImports(tree[p]) :
                       WebForbids(ctx, mod) /\ v = Violation("boundary", p, mod)
  OBVIOUS
<1> HIDE DEF inner, outer, all
<1>3. \A ctx : /\ v \in domain(ctx) <=>
                    \E p \in PythonUnder(tree, <<"src", "contexts", ctx, "domain">>) : v \in inner(ctx, p)
               /\ v \in web(ctx) <=>
                    \E p \in PythonUnder(tree, <<"src", "contexts", ctx, "adapters", "web">>) :
                      v \in outer(ctx, p)
  <2> SUFFICES ASSUME NEW ctx
               PROVE  /\ v \in domain(ctx) <=>
                           \E p \in PythonUnder(tree, <<"src", "contexts", ctx, "domain">>) :
                             v \in inner(ctx, p)
                      /\ v \in web(ctx) <=>
                           \E p \in PythonUnder(tree, <<"src", "contexts", ctx, "adapters", "web">>) :
                             v \in outer(ctx, p)
    OBVIOUS
  <2> DEFINE inside == <<"src", "contexts", ctx, "domain">>
             beyond == <<"src", "contexts", ctx, "adapters", "web">>
  <2>1. /\ domain(ctx) = UNION {inner(ctx, p) : p \in PythonUnder(tree, inside)}
        /\ web(ctx) = UNION {outer(ctx, p) : p \in PythonUnder(tree, beyond)}
    <3> HIDE DEF inside, beyond
    <3> QED BY RingDirectories DEF inside, beyond
  <2> HIDE DEF domain, web, inside, beyond
  <2> QED BY <2>1 DEF inside, beyond
<1> HIDE DEF domain, web
<1>4. v \in BoundaryScan(tree) <=> \E ctx \in all : v \in domain(ctx) \/ v \in web(ctx)
  BY <1>1
<1>5. \A ctx : v \in domain(ctx) \/ v \in web(ctx) <=> FoundIn(tree, ctx, v)
  BY <1>2, <1>3 DEF FoundIn, all
<1> QED
  BY <1>4, <1>5 DEF all

\* The files that drift from the generated ones, or are gone.
LEMMA ReportedDrift ==
  ASSUME NEW generated, report = CheckProject(generated, files)
  PROVE  Reported({"missing", "drift"}) =
           (DOMAIN generated \ DOMAIN files)
           \cup {p \in DOMAIN generated \cap DOMAIN files : Drifts(p, generated[p], files[p])}
<1>1. \A v \in BoundaryScan(files) : v.kind = "boundary"
  <2> SUFFICES ASSUME NEW v \in BoundaryScan(files)
               PROVE  v.kind = "boundary"
    OBVIOUS
  <2>1. \A p, mod : Violation("boundary", p, mod).kind = "boundary"
    BY DEF Violation
  <2>2. \E ctx \in AllContexts(files) : FoundIn(files, ctx, v)
    BY BoundaryFindings
  <2>3. \E p, mod : v = Violation("boundary", p, mod)
    BY <2>2 DEF FoundIn
  <2> QED BY <2>1, <2>3
<1> DEFINE gone == {Violation("missing", p, "") : p \in DOMAIN generated \ DOMAIN files}
           D == {p \in DOMAIN generated \cap DOMAIN files : Drifts(p, generated[p], files[p])}
           drifting == {Violation("drift", p, "") : p \in D}
<1>2. report = gone \cup drifting \cup BoundaryScan(files)
  BY DEF CheckProject, SkeletonViolations
<1>3. \A v : v \in gone <=> \E p \in DOMAIN generated \ DOMAIN files : v = Violation("missing", p, "")
  OBVIOUS
<1>4. \A v : v \in drifting <=> \E p \in D : v = Violation("drift", p, "")
  OBVIOUS
<1>5. \A p : /\ Violation("missing", p, "").path = p /\ Violation("missing", p, "").kind = "missing"
             /\ Violation("drift", p, "").path = p /\ Violation("drift", p, "").kind = "drift"
  BY DEF Violation
<1> HIDE DEF gone, D, drifting
<1> DEFINE R == Reported({"missing", "drift"})
<1>6. \A p : p \in R <=> \E v \in report : (v.kind = "missing" \/ v.kind = "drift") /\ v.path = p
  BY DEF Reported
<1> HIDE DEF R
<1>7. ASSUME NEW p \in R
      PROVE  p \in (DOMAIN generated \ DOMAIN files) \cup D
  <2>1. PICK v \in report : (v.kind = "missing" \/ v.kind = "drift") /\ v.path = p
    BY <1>7, <1>6
  <2>2. v \in gone \/ v \in drifting
    BY <1>1, <1>2, <2>1
  <2>3. CASE v \in gone
    <3>1. PICK q \in DOMAIN generated \ DOMAIN files : v = Violation("missing", q, "")
      BY <1>3, <2>3
    <3> QED BY <1>5, <2>1, <3>1
  <2>4. CASE v \in drifting
    <3>1. PICK q \in D : v = Violation("drift", q, "")
      BY <1>4, <2>4
    <3> QED BY <1>5, <2>1, <3>1
  <2> QED BY <2>2, <2>3, <2>4
<1>8. ASSUME NEW p \in (DOMAIN generated \ DOMAIN files) \cup D
      PROVE  p \in R
  <2>1. Violation("missing", p, "") \in gone \/ Violation("drift", p, "") \in drifting
    BY <1>3, <1>4, <1>8
  <2>2. Violation("missing", p, "") \in report \/ Violation("drift", p, "") \in report
    BY <1>2, <2>1
  <2>3. CASE Violation("missing", p, "") \in report
    <3> DEFINE v == Violation("missing", p, "")
    <3>1. v \in report /\ v.path = p /\ v.kind = "missing"
      BY <1>5, <2>3
    <3> HIDE DEF v
    <3> QED BY <1>6, <3>1
  <2>4. CASE Violation("drift", p, "") \in report
    <3> DEFINE v == Violation("drift", p, "")
    <3>1. v \in report /\ v.path = p /\ v.kind = "drift"
      BY <1>5, <2>4
    <3> HIDE DEF v
    <3> QED BY <1>6, <3>1
  <2> QED BY <2>2, <2>3, <2>4
<1> QED
  BY <1>7, <1>8 DEF D, R

\* A prefix of a list, position by position.
LEMMA PrefixByPosition ==
  ASSUME NEW s, NEW t, IsList(s), IsList(t)
  PROVE  IsPrefix(s, t) <=> \A k \in DOMAIN s : k \in DOMAIN t /\ t[k] = s[k]
<1> DEFINE m == Len(s)
           n == Len(t)
<1>1. /\ m \in Nat /\ n \in Nat /\ DOMAIN s = 1..m /\ DOMAIN t = 1..n
      /\ \A k \in 1..m : s[k] \in Range(s)
      /\ \A k \in 1..n : t[k] \in Range(t)
  BY ListShape
<1>2. ASSUME m <= n
      PROVE  /\ SubSeq(s, 1, m) = SubSeq(t, 1, m) <=> \A k \in 1..m : t[k] = s[k]
  <2>1. \A k \in 1..m : k \in 1..n
    BY <1>1, <1>2
  <2>2. /\ SubSeq(s, 1, m) \in Seq(Range(s)) /\ SubSeq(t, 1, m) \in Seq(Range(t))
        /\ Len(SubSeq(s, 1, m)) = m /\ Len(SubSeq(t, 1, m)) = m
        /\ \A k \in 1..m : SubSeq(s, 1, m)[k] = s[k] /\ SubSeq(t, 1, m)[k] = t[k]
    <3>1. 1 \in Int /\ m \in Int /\ m - 1 + 1 = m
          /\ (IF 1 <= m THEN m - 1 + 1 ELSE 0) = m /\ \A k : 1 + k - 1 = k \/ k \notin Int
      BY <1>1
    <3>2. \A k \in 1..m : t[k] \in Range(t)
      BY <1>1, <2>1
    <3>3. /\ SubSeq(s, 1, m) \in Seq(Range(s))
          /\ Len(SubSeq(s, 1, m)) = IF 1 <= m THEN m - 1 + 1 ELSE 0
          /\ \A k \in 1..(m - 1 + 1) : SubSeq(s, 1, m)[k] = s[1 + k - 1]
      BY <1>1, <3>1, SubSeqProperties
    <3>4. /\ SubSeq(t, 1, m) \in Seq(Range(t))
          /\ Len(SubSeq(t, 1, m)) = IF 1 <= m THEN m - 1 + 1 ELSE 0
          /\ \A k \in 1..(m - 1 + 1) : SubSeq(t, 1, m)[k] = t[1 + k - 1]
      BY <1>1, <3>1, <3>2, SubSeqProperties
    <3> HIDE DEF m, n
    <3> QED BY <1>1, <3>1, <3>3, <3>4
  <2>3. IsList(SubSeq(s, 1, m)) /\ IsList(SubSeq(t, 1, m))
    BY <2>2, SeqIsList
  <2> HIDE DEF m, n
  <2>4. ASSUME SubSeq(s, 1, m) = SubSeq(t, 1, m)
        PROVE  \A k \in 1..m : t[k] = s[k]
    BY <2>2, <2>4
  <2>5. ASSUME \A k \in 1..m : t[k] = s[k]
        PROVE  SubSeq(s, 1, m) = SubSeq(t, 1, m)
    BY <2>2, <2>3, <2>5, ListEqual
  <2> QED BY <2>4, <2>5
<1>3. (\A k \in 1..m : k \in 1..n) <=> m <= n
  <2>1. ASSUME \A k \in 1..m : k \in 1..n
        PROVE  m <= n
    <3>1. CASE m = 0
      BY <1>1, <3>1
    <3>2. CASE m # 0
      <4>1. m \in 1..m
        BY <1>1, <3>2
      <4> QED BY <1>1, <2>1, <4>1
    <3> QED BY <3>1, <3>2
  <2> QED BY <1>1, <2>1
<1>4. IsPrefix(s, t) <=> m <= n /\ SubSeq(s, 1, m) = SubSeq(t, 1, m)
  BY DEF IsPrefix
<1> HIDE DEF m, n
<1> QED
  BY <1>1, <1>2, <1>3, <1>4

\* A generated file without a line of both markers drifts, or is gone, exactly
\* if it is not intact.
LEMMA DriftIsLossOfSkeleton ==
  ASSUME NEW p \in DOMAIN files, NEW expected, LegalLines(expected), LegalLines(files[p]),
         \A l \in Range(expected) : l.mark # "both"
  PROVE  Drifts(p, expected, files[p]) <=> ~Intact(p, expected)
<1>1. IsList(expected) /\ IsList(files[p])
  BY DEF LegalLines
<1>2. CASE IsTable(p)
  <2>1. Drifts(p, expected, files[p]) <=> ~IsPrefix(expected, files[p])
    BY <1>2 DEF Drifts
  <2>2. Intact(p, expected) <=>
          \/ files[p] = expected
          \/ \A k \in DOMAIN expected : k \in DOMAIN files[p] /\ files[p][k] = expected[k]
    BY <1>2 DEF Intact
  <2> QED BY <1>1, <2>1, <2>2, PrefixByPosition
<1>3. CASE ~IsTable(p)
  <2>1. Drifts(p, expected, files[p]) <=> MaskImpl(expected) # MaskImpl(files[p])
    BY <1>3 DEF Drifts
  <2>2. Intact(p, expected) <=>
          files[p] = expected \/ Skeleton(files[p]) = Skeleton(expected)
    BY <1>3 DEF Intact
  <2>3. MaskImpl(expected) = MaskImpl(files[p]) <=> Skeleton(files[p]) = Skeleton(expected)
    BY DriftIsOfTheSkeleton
  <2> QED BY <2>1, <2>2, <2>3
<1> QED
  BY <1>2, <1>3

\* A checked project's report is the one of its spec and tree.
LEMMA CheckedIsCurrent ==
  ASSUME IInv, Checked
  PROVE  /\ report = CheckProject(Generated[spec], files)
         /\ LegalTree(Generated[spec]) /\ LegalTree(files)
BY GeneratedIsLegal DEF IInv, Checked, ReportIsCurrent

\* The invariant tells which files a current report says have drifted.
LEMMA DriftIsExactNow == IInv => DriftIsExact
<1> SUFFICES ASSUME IInv, Checked, NEW p \in DOMAIN Generated[spec],
                    \A l \in Range(Generated[spec][p]) : l.mark # "both"
             PROVE  p \in Reported({"missing", "drift"}) <=> ~Intact(p, Generated[spec][p])
  BY DEF DriftIsExact
<1> DEFINE generated == Generated[spec]
<1>1. /\ report = CheckProject(generated, files)
      /\ LegalTree(generated) /\ LegalTree(files)
  BY CheckedIsCurrent
<1>2. p \in Reported({"missing", "drift"}) <=>
        p \notin DOMAIN files \/ Drifts(p, generated[p], files[p])
  <2> HIDE DEF generated
  <2>1. Reported({"missing", "drift"}) =
           (DOMAIN generated \ DOMAIN files)
           \cup {q \in DOMAIN generated \cap DOMAIN files : Drifts(q, generated[q], files[q])}
    BY <1>1, ReportedDrift
  <2>2. p \in DOMAIN generated
    BY DEF generated
  <2> QED BY <2>1, <2>2
<1>3. CASE p \in DOMAIN files
  <2>1. LegalLines(generated[p]) /\ LegalLines(files[p])
    BY <1>1, <1>3 DEF LegalTree
  <2> QED BY <1>2, <1>3, <2>1, DriftIsLossOfSkeleton
<1>4. CASE p \notin DOMAIN files
  BY <1>2, <1>4 DEF Intact
<1> QED
  BY <1>3, <1>4

\* Drift and missing are exact, whatever the spec and the edits.
THEOREM ProjectDriftIsExact == Spec => []DriftIsExact
BY ProjectInvariant, DriftIsExactNow, PTL

\* A boundary violation names a file that is there.
LEMMA BoundaryFilesAreThere ==
  ASSUME NEW tree, NEW v \in BoundaryScan(tree)
  PROVE  v.kind = "boundary" /\ v.path \in DOMAIN tree
<1>1. \A p, mod : /\ Violation("boundary", p, mod).kind = "boundary"
                  /\ Violation("boundary", p, mod).path = p
  BY DEF Violation
<1>2. \A dirs : PythonUnder(tree, dirs) \subseteq DOMAIN tree
  BY DEF PythonUnder, FilesUnder
<1>3. \E p \in DOMAIN tree : \E mod : v = Violation("boundary", p, mod)
  <2>1. PICK ctx \in AllContexts(tree) : FoundIn(tree, ctx, v)
    BY BoundaryFindings
  <2> QED BY <1>2, <2>1 DEF FoundIn
<1> QED
  BY <1>1, <1>3

\* The invariant is about lists of lines, and a report about the files there.
LEMMA TypeNow == IInv => TypeOK
<1> SUFFICES ASSUME IInv
             PROVE  TypeOK
  OBVIOUS
<1>1. \A p \in DOMAIN files : IsList(files[p]) /\ \A l \in Range(files[p]) : l.mark \in Marks
  BY DEF IInv, LegalTree, LegalLines, LegalLine
<1>2. ASSUME Checked, NEW v \in report
      PROVE  /\ v.kind \in {"missing", "drift", "boundary"}
             /\ v.kind = "missing" <=> v.path \notin DOMAIN files
  <2> DEFINE generated == Generated[spec]
             D == {p \in DOMAIN generated \cap DOMAIN files : Drifts(p, generated[p], files[p])}
  <2>1. report = CheckProject(generated, files)
    BY <1>2, CheckedIsCurrent
  <2>2. \A p : /\ Violation("missing", p, "").path = p /\ Violation("missing", p, "").kind = "missing"
               /\ Violation("drift", p, "").path = p /\ Violation("drift", p, "").kind = "drift"
    BY DEF Violation
  <2> HIDE DEF generated
  <2>3. \/ \E p \in DOMAIN generated \ DOMAIN files : v = Violation("missing", p, "")
        \/ \E p \in D : v = Violation("drift", p, "")
        \/ v \in BoundaryScan(files)
    BY <1>2, <2>1 DEF CheckProject, SkeletonViolations
  <2>4. CASE \E p \in DOMAIN generated \ DOMAIN files : v = Violation("missing", p, "")
    <3>1. PICK p \in DOMAIN generated \ DOMAIN files : v = Violation("missing", p, "")
      BY <2>4
    <3>2. v.kind = "missing" /\ v.path = p
      BY <2>2, <3>1
    <3> QED BY <3>1, <3>2
  <2>5. CASE \E p \in D : v = Violation("drift", p, "")
    <3>1. D \subseteq DOMAIN files
      OBVIOUS
    <3> HIDE DEF D
    <3>2. PICK p \in D : v = Violation("drift", p, "")
      BY <2>5
    <3>3. v.kind = "drift" /\ v.path = p
      BY <2>2, <3>2
    <3> QED BY <3>1, <3>2, <3>3
  <2>6. CASE v \in BoundaryScan(files)
    BY <2>6, BoundaryFilesAreThere
  <2> QED BY <2>3, <2>4, <2>5, <2>6
<1> QED
  BY <1>1, <1>2 DEF TypeOK, IInv

\* The tree stays a tree of lines, and a report names files as they are there.
THEOREM ProjectTypeOK == Spec => []TypeOK
BY ProjectInvariant, TypeNow, PTL

-----------------------------------------------------------------------------
(* The two copies of the boundary rules.                                   *)

\* The directories that check names, as prefixes of a path.
LEMMA PathPrefixes ==
  ASSUME NEW p, IsList(p), NEW ctx
  PROVE  /\ IsPrefix(<<"src", "contexts">>, p) <=> Len(p) >= 2 /\ p[1] = "src" /\ p[2] = "contexts"
         /\ IsPrefix(<<"src", "contexts", ctx, "domain">>, p) <=>
              Len(p) >= 4 /\ p[1] = "src" /\ p[2] = "contexts" /\ p[3] = ctx /\ p[4] = "domain"
         /\ IsPrefix(<<"src", "contexts", ctx, "adapters", "web">>, p) <=>
              /\ Len(p) >= 5 /\ p[1] = "src" /\ p[2] = "contexts" /\ p[3] = ctx
              /\ p[4] = "adapters" /\ p[5] = "web"
<1>1. Len(p) \in Nat /\ DOMAIN p = 1..Len(p)
  BY ListShape
<1> DEFINE two == <<"src", "contexts">>
           four == <<"src", "contexts", ctx, "domain">>
           five == <<"src", "contexts", ctx, "adapters", "web">>
<1>2. IsList(two) /\ IsList(four) /\ IsList(five)
  <2>1. five \in Seq({"src", "contexts", ctx, "adapters", "web"})
    OBVIOUS
  <2>2. IsList(five)
    BY <2>1, SeqIsList
  <2> QED BY <2>2, ShortLists, LongerLists
<1>3. /\ DOMAIN two = {1, 2} /\ two[1] = "src" /\ two[2] = "contexts"
      /\ DOMAIN four = {1, 2, 3, 4}
      /\ four[1] = "src" /\ four[2] = "contexts" /\ four[3] = ctx /\ four[4] = "domain"
      /\ DOMAIN five = {1, 2, 3, 4, 5}
      /\ five[1] = "src" /\ five[2] = "contexts" /\ five[3] = ctx /\ five[4] = "adapters"
      /\ five[5] = "web"
  OBVIOUS
<1> HIDE DEF two, four, five
<1>4. IsPrefix(two, p) <=> Len(p) >= 2 /\ p[1] = "src" /\ p[2] = "contexts"
  <2>1. IsPrefix(two, p) <=> \A k \in DOMAIN two : k \in DOMAIN p /\ p[k] = two[k]
    BY <1>2, PrefixByPosition
  <2> QED BY <1>1, <1>3, <2>1
<1>5. IsPrefix(four, p) <=>
        Len(p) >= 4 /\ p[1] = "src" /\ p[2] = "contexts" /\ p[3] = ctx /\ p[4] = "domain"
  <2>1. IsPrefix(four, p) <=> \A k \in DOMAIN four : k \in DOMAIN p /\ p[k] = four[k]
    BY <1>2, PrefixByPosition
  <2> QED BY <1>1, <1>3, <2>1
<1>6. IsPrefix(five, p) <=>
        /\ Len(p) >= 5 /\ p[1] = "src" /\ p[2] = "contexts" /\ p[3] = ctx
        /\ p[4] = "adapters" /\ p[5] = "web"
  <2>1. IsPrefix(five, p) <=> \A k \in DOMAIN five : k \in DOMAIN p /\ p[k] = five[k]
    BY <1>2, PrefixByPosition
  <2> QED BY <1>1, <1>3, <2>1
<1> QED
  BY <1>4, <1>5, <1>6 DEF two, four, five

\* DomainPython and WebPython are what the scan visits, context by context.
LEMMA ScannedFiles ==
  ASSUME LegalTree(files)
  PROVE  /\ \A p : p \in DomainPython <=>
              \E ctx \in AllContexts(files) :
                ctx = p[3] /\ p \in PythonUnder(files, <<"src", "contexts", ctx, "domain">>)
         /\ \A p : p \in WebPython <=>
              \E ctx \in AllContexts(files) :
                ctx = p[3] /\ p \in PythonUnder(files, <<"src", "contexts", ctx, "adapters", "web">>)
         /\ \A ctx : \A p \in PythonUnder(files, <<"src", "contexts", ctx, "domain">>) : p[3] = ctx
         /\ \A ctx : \A p \in PythonUnder(files, <<"src", "contexts", ctx, "adapters", "web">>) :
              p[3] = ctx
         /\ DomainPython \cap WebPython = {}
<1>1. \A p \in DOMAIN files : IsList(p) /\ Len(p) \in Nat
  BY ListShape DEF LegalTree
<1>2. \A p, ctx : p \in PythonUnder(files, <<"src", "contexts", ctx, "domain">>) <=>
        /\ p \in DOMAIN files /\ Len(p) > 5 /\ p[1] = "src" /\ p[2] = "contexts" /\ p[3] = ctx
        /\ p[4] = "domain" /\ p[Len(p)] = "py"
  <2> SUFFICES ASSUME NEW p \in DOMAIN files, NEW ctx
               PROVE  p \in PythonUnder(files, <<"src", "contexts", ctx, "domain">>) <=>
                        /\ Len(p) > 5 /\ p[1] = "src" /\ p[2] = "contexts" /\ p[3] = ctx
                        /\ p[4] = "domain" /\ p[Len(p)] = "py"
    BY DEF PythonUnder, FilesUnder
  <2> DEFINE dirs == <<"src", "contexts", ctx, "domain">>
  <2>1. /\ IsPrefix(dirs, p) <=>
             Len(p) >= 4 /\ p[1] = "src" /\ p[2] = "contexts" /\ p[3] = ctx /\ p[4] = "domain"
        /\ Len(dirs) = 4
    <3>1. Len(dirs) = 4
      OBVIOUS
    <3> QED BY <1>1, <3>1, PathPrefixes
  <2> HIDE DEF dirs
  <2>2. p \in PythonUnder(files, dirs) <=> IsPrefix(dirs, p) /\ Len(p) > Len(dirs) + 1 /\ p[Len(p)] = "py"
    BY DEF PythonUnder, FilesUnder
  <2> QED BY <1>1, <2>1, <2>2 DEF dirs
<1>3. \A p, ctx : p \in PythonUnder(files, <<"src", "contexts", ctx, "adapters", "web">>) <=>
        /\ p \in DOMAIN files /\ Len(p) > 6 /\ p[1] = "src" /\ p[2] = "contexts" /\ p[3] = ctx
        /\ p[4] = "adapters" /\ p[5] = "web" /\ p[Len(p)] = "py"
  <2> SUFFICES ASSUME NEW p \in DOMAIN files, NEW ctx
               PROVE  p \in PythonUnder(files, <<"src", "contexts", ctx, "adapters", "web">>) <=>
                        /\ Len(p) > 6 /\ p[1] = "src" /\ p[2] = "contexts" /\ p[3] = ctx
                        /\ p[4] = "adapters" /\ p[5] = "web" /\ p[Len(p)] = "py"
    BY DEF PythonUnder, FilesUnder
  <2> DEFINE dirs == <<"src", "contexts", ctx, "adapters", "web">>
  <2>1. /\ IsPrefix(dirs, p) <=>
             /\ Len(p) >= 5 /\ p[1] = "src" /\ p[2] = "contexts" /\ p[3] = ctx
             /\ p[4] = "adapters" /\ p[5] = "web"
        /\ Len(dirs) = 5
    <3>1. Len(dirs) = 5
      OBVIOUS
    <3> QED BY <1>1, <3>1, PathPrefixes
  <2> HIDE DEF dirs
  <2>2. p \in PythonUnder(files, dirs) <=> IsPrefix(dirs, p) /\ Len(p) > Len(dirs) + 1 /\ p[Len(p)] = "py"
    BY DEF PythonUnder, FilesUnder
  <2> QED BY <1>1, <2>1, <2>2 DEF dirs
<1>4. \A ctx : ctx \in AllContexts(files) <=>
        \E q \in DOMAIN files : /\ Len(q) > 4 /\ q[1] = "src" /\ q[2] = "contexts"
                                /\ ~StartsWith(q[3], "__") /\ q[3] = ctx
  <2>1. \A q \in DOMAIN files :
          IsPrefix(<<"src", "contexts">>, q) <=> Len(q) >= 2 /\ q[1] = "src" /\ q[2] = "contexts"
    BY <1>1, PathPrefixes
  <2>2. \A q \in DOMAIN files : Len(q) > 4 => Len(q) >= 2
    BY <1>1
  <2> QED BY <2>1, <2>2 DEF AllContexts
<1>5. \A p \in DOMAIN files : (Len(p) > 5 => Len(p) > 4) /\ (Len(p) > 6 => Len(p) > 5)
  BY <1>1
<1>6. /\ \A p : p \in DomainPython <=>
           /\ p \in DOMAIN files /\ Len(p) > 5 /\ p[1] = "src" /\ p[2] = "contexts"
           /\ ~StartsWith(p[3], "__") /\ p[4] = "domain" /\ p[Len(p)] = "py"
      /\ \A p : p \in WebPython <=>
           /\ p \in DOMAIN files /\ Len(p) > 6 /\ p[1] = "src" /\ p[2] = "contexts"
           /\ ~StartsWith(p[3], "__") /\ p[4] = "adapters" /\ p[5] = "web" /\ p[Len(p)] = "py"
  BY <1>5 DEF DomainPython, WebPython, PythonIn
<1>7. \A ctx \in AllContexts(files) : ~StartsWith(ctx, "__")
  BY <1>4
<1>8. \A p \in DomainPython \cup WebPython : p[3] \in AllContexts(files)
  <2> SUFFICES ASSUME NEW p \in DomainPython \cup WebPython
               PROVE  p[3] \in AllContexts(files)
    OBVIOUS
  <2>1. /\ p \in DOMAIN files /\ Len(p) > 4 /\ p[1] = "src" /\ p[2] = "contexts"
        /\ ~StartsWith(p[3], "__")
    BY <1>5, <1>6
  <2> QED BY <1>4, <2>1
<1>9. ASSUME NEW p
      PROVE  p \in DomainPython <=>
               \E ctx \in AllContexts(files) :
                 ctx = p[3] /\ p \in PythonUnder(files, <<"src", "contexts", ctx, "domain">>)
  <2>1. p \in DomainPython => p \in PythonUnder(files, <<"src", "contexts", p[3], "domain">>)
    BY <1>2, <1>6
  <2>2. \A ctx \in AllContexts(files) :
          ctx = p[3] /\ p \in PythonUnder(files, <<"src", "contexts", ctx, "domain">>)
          => p \in DomainPython
    BY <1>2, <1>6, <1>7
  <2> QED BY <1>8, <2>1, <2>2
<1>10. ASSUME NEW p
       PROVE  p \in WebPython <=>
                \E ctx \in AllContexts(files) :
                  ctx = p[3] /\ p \in PythonUnder(files, <<"src", "contexts", ctx, "adapters", "web">>)
  <2>1. p \in WebPython => p \in PythonUnder(files, <<"src", "contexts", p[3], "adapters", "web">>)
    BY <1>3, <1>6
  <2>2. \A ctx \in AllContexts(files) :
          ctx = p[3] /\ p \in PythonUnder(files, <<"src", "contexts", ctx, "adapters", "web">>)
          => p \in WebPython
    BY <1>3, <1>6, <1>7
  <2> QED BY <1>8, <2>1, <2>2
<1>11. DomainPython \cap WebPython = {}
  BY <1>6
<1>12. \A ctx : \A p \in PythonUnder(files, <<"src", "contexts", ctx, "domain">>) : p[3] = ctx
  BY <1>2
<1>13. \A ctx : \A p \in PythonUnder(files, <<"src", "contexts", ctx, "adapters", "web">>) :
         p[3] = ctx
  BY <1>3
<1> QED
  BY <1>9, <1>10, <1>11, <1>12, <1>13

\* The files reported at the boundary, by their place and their imports.
LEMMA ReportedBoundary ==
  ASSUME NEW generated, report = CheckProject(generated, files), LegalTree(files), NEW p
  PROVE  p \in Reported({"boundary"}) <=>
           \/ p \in DomainPython /\ \E m \in DomainImports(files[p]) :
                                      DomainForbids(AllContexts(files), p[3], m)
           \/ p \in WebPython /\ \E m \in DomainImports(files[p]) : WebForbids(p[3], m)
<1> DEFINE all == AllContexts(files)
<1>1. /\ p \in DomainPython <=>
           \E ctx \in all : ctx = p[3] /\ p \in PythonUnder(files, <<"src", "contexts", ctx, "domain">>)
      /\ p \in WebPython <=>
           \E ctx \in all :
             ctx = p[3] /\ p \in PythonUnder(files, <<"src", "contexts", ctx, "adapters", "web">>)
      /\ \A ctx : \A q \in PythonUnder(files, <<"src", "contexts", ctx, "domain">>) : q[3] = ctx
      /\ \A ctx : \A q \in PythonUnder(files, <<"src", "contexts", ctx, "adapters", "web">>) : q[3] = ctx
  BY ScannedFiles
<1>2. \A q, mod, kind : /\ Violation("boundary", q, mod).kind = "boundary"
                        /\ Violation("boundary", q, mod).path = q
  BY DEF Violation
<1>3. \A v : v \in report /\ v.kind = "boundary" <=> v \in BoundaryScan(files)
  <2> SUFFICES ASSUME NEW v
               PROVE  v \in report /\ v.kind = "boundary" <=> v \in BoundaryScan(files)
    OBVIOUS
  <2>1. v \in report <=> v \in SkeletonViolations(generated, files) \/ v \in BoundaryScan(files)
    BY DEF CheckProject
  <2>2. v \in SkeletonViolations(generated, files) => v.kind # "boundary"
    <3>1. \A q : /\ Violation("missing", q, "").kind = "missing"
                 /\ Violation("drift", q, "").kind = "drift"
      BY DEF Violation
    <3>2. v \in SkeletonViolations(generated, files) =>
            \E q : v = Violation("missing", q, "") \/ v = Violation("drift", q, "")
      BY DEF SkeletonViolations
    <3> QED BY <3>1, <3>2
  <2>3. v \in BoundaryScan(files) => v.kind = "boundary"
    BY BoundaryFilesAreThere
  <2> QED BY <2>1, <2>2, <2>3
<1>4. p \in Reported({"boundary"}) <=> \E v \in BoundaryScan(files) : v.path = p
  BY <1>3 DEF Reported
<1>5. ASSUME NEW v \in BoundaryScan(files), v.path = p
      PROVE  \/ p \in DomainPython /\ \E m \in DomainImports(files[p]) : DomainForbids(all, p[3], m)
             \/ p \in WebPython /\ \E m \in DomainImports(files[p]) : WebForbids(p[3], m)
  <2>1. PICK ctx \in all : FoundIn(files, ctx, v)
    BY BoundaryFindings
  <2>2. CASE \E q \in PythonUnder(files, <<"src", "contexts", ctx, "domain">>) :
               \E m \in DomainImports(files[q]) :
                 DomainForbids(all, ctx, m) /\ v = Violation("boundary", q, m)
    <3>1. PICK q \in PythonUnder(files, <<"src", "contexts", ctx, "domain">>) :
               \E m \in DomainImports(files[q]) :
                 DomainForbids(all, ctx, m) /\ v = Violation("boundary", q, m)
      BY <2>2
    <3>2. PICK m \in DomainImports(files[q]) :
                 DomainForbids(all, ctx, m) /\ v = Violation("boundary", q, m)
      BY <3>1
    <3>3. q = p
      BY <1>2, <1>5, <3>2
    <3>4. p[3] = ctx
      BY <1>1, <3>3
    <3> QED BY <1>1, <3>2, <3>3, <3>4
  <2>3. CASE \E q \in PythonUnder(files, <<"src", "contexts", ctx, "adapters", "web">>) :
               \E m \in DomainImports(files[q]) :
                 WebForbids(ctx, m) /\ v = Violation("boundary", q, m)
    <3>1. PICK q \in PythonUnder(files, <<"src", "contexts", ctx, "adapters", "web">>) :
               \E m \in DomainImports(files[q]) :
                 WebForbids(ctx, m) /\ v = Violation("boundary", q, m)
      BY <2>3
    <3>2. PICK m \in DomainImports(files[q]) :
                 WebForbids(ctx, m) /\ v = Violation("boundary", q, m)
      BY <3>1
    <3>3. q = p
      BY <1>2, <1>5, <3>2
    <3>4. p[3] = ctx
      BY <1>1, <3>3
    <3> QED BY <1>1, <3>2, <3>3, <3>4
  <2> QED BY <2>1, <2>2, <2>3 DEF FoundIn
<1>6. ASSUME \/ p \in DomainPython /\ \E m \in DomainImports(files[p]) : DomainForbids(all, p[3], m)
             \/ p \in WebPython /\ \E m \in DomainImports(files[p]) : WebForbids(p[3], m)
      PROVE  \E v \in BoundaryScan(files) : v.path = p
  <2>1. \E m : p[3] \in all /\ FoundIn(files, p[3], Violation("boundary", p, m))
    BY <1>1, <1>6 DEF FoundIn
  <2> QED BY <1>2, <2>1, BoundaryFindings
<1> QED
  BY <1>4, <1>5, <1>6

\* The test visits the files that check visits, but for contexts without a
\* domain, and forbids what check forbids.
LEMMA TestAgreesNow == IInv => TestAgreesWithCheck
<1> SUFFICES ASSUME IInv, Checked
             PROVE  BoundaryTestPasses(files) <=>
                      \A p \in DomainPython \cup WebPython :
                        HasDomain(files, p[3]) => Parses(files[p]) /\ p \notin Reported({"boundary"})
  BY DEF TestAgreesWithCheck
<1> DEFINE all == AllContexts(files)
<1>1. report = CheckProject(Generated[spec], files) /\ LegalTree(files)
  BY CheckedIsCurrent
<1>2. /\ \A p : p \in DomainPython <=>
           \E ctx \in all : ctx = p[3] /\ p \in PythonUnder(files, <<"src", "contexts", ctx, "domain">>)
      /\ \A p : p \in WebPython <=>
           \E ctx \in all :
             ctx = p[3] /\ p \in PythonUnder(files, <<"src", "contexts", ctx, "adapters", "web">>)
      /\ \A ctx : \A p \in PythonUnder(files, <<"src", "contexts", ctx, "domain">>) : p[3] = ctx
      /\ \A ctx : \A p \in PythonUnder(files, <<"src", "contexts", ctx, "adapters", "web">>) : p[3] = ctx
      /\ DomainPython \cap WebPython = {}
  BY <1>1, ScannedFiles
<1>3. \A p : p \in Reported({"boundary"}) <=>
           \/ p \in DomainPython /\ \E m \in DomainImports(files[p]) : DomainForbids(all, p[3], m)
           \/ p \in WebPython /\ \E m \in DomainImports(files[p]) : WebForbids(p[3], m)
  BY <1>1, ReportedBoundary
<1>4. \A lines, ctx : TestPassesDomain(lines, ctx, all) <=>
        Parses(lines) /\ ~\E m \in DomainImports(lines) : DomainForbids(all, ctx, m)
  BY DEF TestPassesDomain, DomainForbids
<1>5. \A lines, ctx : TestPassesWebAdapter(lines, ctx) <=>
        Parses(lines) /\ ~\E m \in DomainImports(lines) : WebForbids(ctx, m)
  BY DEF TestPassesWebAdapter, WebForbids
<1>6. BoundaryTestPasses(files) <=>
        \A ctx \in all : HasDomain(files, ctx) =>
          /\ \A p \in PythonUnder(files, <<"src", "contexts", ctx, "domain">>) :
               TestPassesDomain(files[p], ctx, all)
          /\ \A p \in PythonUnder(files, <<"src", "contexts", ctx, "adapters", "web">>) :
               TestPassesWebAdapter(files[p], ctx)
  BY DEF BoundaryTestPasses
<1> HIDE DEF all
<1>7. BoundaryTestPasses(files) <=>
        /\ \A p \in DomainPython : HasDomain(files, p[3]) => TestPassesDomain(files[p], p[3], all)
        /\ \A p \in WebPython : HasDomain(files, p[3]) => TestPassesWebAdapter(files[p], p[3])
  <2>1. ASSUME BoundaryTestPasses(files)
        PROVE  /\ \A p \in DomainPython : HasDomain(files, p[3]) => TestPassesDomain(files[p], p[3], all)
               /\ \A p \in WebPython : HasDomain(files, p[3]) => TestPassesWebAdapter(files[p], p[3])
    <3>1. ASSUME NEW p \in DomainPython, HasDomain(files, p[3])
          PROVE  TestPassesDomain(files[p], p[3], all)
      <4>1. PICK ctx \in all : ctx = p[3] /\ p \in PythonUnder(files, <<"src", "contexts", ctx, "domain">>)
        BY <1>2, <3>1
      <4> QED BY <1>6, <2>1, <3>1, <4>1
    <3>2. ASSUME NEW p \in WebPython, HasDomain(files, p[3])
          PROVE  TestPassesWebAdapter(files[p], p[3])
      <4>1. PICK ctx \in all :
                   /\ ctx = p[3]
                   /\ p \in PythonUnder(files, <<"src", "contexts", ctx, "adapters", "web">>)
        BY <1>2, <3>2
      <4> QED BY <1>6, <2>1, <3>2, <4>1
    <3> QED BY <3>1, <3>2
  <2>2. ASSUME \A p \in DomainPython : HasDomain(files, p[3]) => TestPassesDomain(files[p], p[3], all),
               \A p \in WebPython : HasDomain(files, p[3]) => TestPassesWebAdapter(files[p], p[3])
        PROVE  BoundaryTestPasses(files)
    <3>1. ASSUME NEW ctx \in all, HasDomain(files, ctx),
                 NEW p \in PythonUnder(files, <<"src", "contexts", ctx, "domain">>)
          PROVE  TestPassesDomain(files[p], ctx, all)
      <4>1. p[3] = ctx /\ p \in DomainPython
        BY <1>2, <3>1
      <4> QED BY <2>2, <3>1, <4>1
    <3>2. ASSUME NEW ctx \in all, HasDomain(files, ctx),
                 NEW p \in PythonUnder(files, <<"src", "contexts", ctx, "adapters", "web">>)
          PROVE  TestPassesWebAdapter(files[p], ctx)
      <4>1. p[3] = ctx /\ p \in WebPython
        BY <1>2, <3>2
      <4> QED BY <2>2, <3>2, <4>1
    <3> QED BY <1>6, <3>1, <3>2
  <2> QED BY <2>1, <2>2
<1>8. \A p \in DomainPython : TestPassesDomain(files[p], p[3], all) <=>
        Parses(files[p]) /\ p \notin Reported({"boundary"})
  BY <1>2, <1>3, <1>4
<1>9. \A p \in WebPython : TestPassesWebAdapter(files[p], p[3]) <=>
        Parses(files[p]) /\ p \notin Reported({"boundary"})
  BY <1>2, <1>3, <1>5
<1> QED
  BY <1>7, <1>8, <1>9

\* The two copies of the boundary rules agree, whatever the tree.
THEOREM ProjectTestAgreesWithCheck == Spec => []TestAgreesWithCheck
BY ProjectInvariant, TestAgreesNow, PTL

-----------------------------------------------------------------------------
(* What passing means for the state machine.                               *)

\* A file masked to the single line of a generated state table has that line.
LEMMA StateTableSurvivesTheMask ==
  ASSUME NEW d, NEW lines, LegalLines(lines), MaskImpl(StateTable(d)) = MaskImpl(lines)
  PROVE  StateTable(d)[1] \in Range(lines)
<1> DEFINE text == <<"states", d.name, d.states,
                     [s \in Range(d.states) |-> IF s \in DOMAIN d.transitions THEN d.transitions[s] ELSE {}]>>
           line == Plain(text)
<1>1. StateTable(d) = <<line>>
  BY DEF StateTable
<1>2. line.mark = "plain" /\ line.text = text /\ Sentinel.text = <<"impl region">>
  BY DEF Plain, Line, Sentinel
<1>3. line # Sentinel
  <2>1. text[1] = "states" /\ <<"impl region">>[1] = "impl region"
    OBVIOUS
  <2> HIDE DEF text, line
  <2> QED BY <1>2, <2>1
<1> HIDE DEF line, text
<1>4. MaskImpl(lines) = <<line>>
  BY <1>1, <1>2, MaskOfOneLine
<1>5. line \in Range(MaskImpl(lines))
  BY <1>4, ShortLists
<1>6. line \in Range(lines)
  BY <1>3, <1>5, MaskKeepsMarkers
<1>7. <<line>>[1] = line
  OBVIOUS
<1> QED
  BY <1>1, <1>6, <1>7

\* The table holds the edges of the domain.
LEMMA StateTableHoldsTheEdges ==
  ASSUME NEW d
  PROVE  LET l == StateTable(d)[1]
         IN  /\ l.text[1] = "states"
             /\ l.text[3] = d.states
             /\ \A s, t \in Range(d.states) : t \in l.text[4][s] <=> <<s, t>> \in Edges(d)
<1> DEFINE allowed == [s \in Range(d.states) |-> IF s \in DOMAIN d.transitions THEN d.transitions[s] ELSE {}]
           text == <<"states", d.name, d.states, allowed>>
           l == StateTable(d)[1]
<1>1. l.text = text
  BY DEF StateTable, Plain, Line
<1>2. text[1] = "states" /\ text[3] = d.states /\ text[4] = allowed
  OBVIOUS
<1>3. ASSUME NEW s \in Range(d.states), NEW t \in Range(d.states)
      PROVE  t \in allowed[s] <=> <<s, t>> \in Edges(d)
  <2>1. allowed[s] = IF s \in DOMAIN d.transitions THEN d.transitions[s] ELSE {}
    OBVIOUS
  <2>2. <<s, t>> \in Edges(d) <=>
          \E frm \in DOMAIN d.transitions : \E to \in d.transitions[frm] : <<s, t>> = <<frm, to>>
    BY DEF Edges
  <2>3. <<s, t>> \in Edges(d) <=> s \in DOMAIN d.transitions /\ t \in d.transitions[s]
    BY <2>2
  <2> HIDE DEF allowed
  <2> QED BY <2>1, <2>3
<1> HIDE DEF l, text, allowed
<1>4. l.text[1] = "states" /\ l.text[3] = d.states /\ l.text[4] = allowed
  BY <1>1, <1>2
<1> QED
  BY <1>3, <1>4 DEF l

\* A project without drift has every generated state table's one line.
LEMMA PassRunsTheSpecNow == IInv => PassRunsTheSpec
<1> SUFFICES ASSUME IInv, Checked, Passes, spec \in PathsApart,
                    NEW c \in Range(spec.contexts), NEW d \in Range(Aggregates(c))
             PROVE  LET p == DomainFile(c, Snake[d.name] \o "_state")
                    IN  p \in DOMAIN files /\
                        \E l \in Range(files[p]) :
                          /\ l.text[1] = "states"
                          /\ l.text[3] = d.states
                          /\ \A s, t \in Range(d.states) : t \in l.text[4][s] <=> <<s, t>> \in Edges(d)
  BY DEF PassRunsTheSpec
<1> DEFINE p == DomainFile(c, Snake[d.name] \o "_state")
           table == Write(p, StateTable(d))
           generated == Generated[spec]
           writes == WritesOf[spec]
<1>1. spec \in Specs /\ WellTyped(spec) /\ SnakeTyped(spec)
  BY SpecsTyped DEF IInv
<1>2. /\ report = CheckProject(generated, files)
      /\ LegalTree(generated) /\ LegalTree(files)
  BY CheckedIsCurrent
<1>3. table \in Range(writes)
  BY <1>1, AggregateIsWritten DEF WritesOf
<1>4. table.path = p /\ table.lines = StateTable(d)
  BY DEF Write
<1>5. generated = WrittenTree(writes) /\ IsList(writes)
  BY <1>1, GeneratedIsLegal DEF LegalWrites
<1>6. \A v, w \in Range(writes) : v.path = w.path => v.lines = w.lines
  BY DEF PathsApart
<1>7. p[Len(p)] = "py"
  BY ContextPath, ShortLists DEF DomainFile
<1> HIDE DEF p, table, generated, writes
<1>8. p \in DOMAIN generated /\ generated[p] = StateTable(d)
  <2>1. /\ DOMAIN generated = {w.path : w \in Range(writes)}
        /\ \A q \in DOMAIN generated :
             \E w \in Range(writes) : w.path = q /\ generated[q] = w.lines
    BY <1>5, WrittenLines
  <2>2. p \in DOMAIN generated
    BY <1>3, <1>4, <2>1
  <2>3. PICK w \in Range(writes) : w.path = p /\ generated[p] = w.lines
    BY <2>1, <2>2
  <2> QED BY <1>3, <1>4, <1>6, <2>2, <2>3
<1>9. p \in DOMAIN files /\ ~Drifts(p, generated[p], files[p])
  <2>1. p \notin Reported({"missing", "drift"})
    BY DEF Passes, Reported
  <2>2. Reported({"missing", "drift"}) =
           (DOMAIN generated \ DOMAIN files)
           \cup {q \in DOMAIN generated \cap DOMAIN files : Drifts(q, generated[q], files[q])}
    BY <1>2, ReportedDrift
  <2> QED BY <1>8, <2>1, <2>2
<1>10. MaskImpl(StateTable(d)) = MaskImpl(files[p])
  BY <1>7, <1>8, <1>9 DEF Drifts, IsTable
<1>11. StateTable(d)[1] \in Range(files[p])
  BY <1>2, <1>9, <1>10, StateTableSurvivesTheMask DEF LegalTree
<1>12. LET l == StateTable(d)[1]
       IN  /\ l.text[1] = "states"
           /\ l.text[3] = d.states
           /\ \A s, t \in Range(d.states) : t \in l.text[4][s] <=> <<s, t>> \in Edges(d)
  BY StateTableHoldsTheEdges
<1> QED
  BY <1>9, <1>11, <1>12 DEF p

\* A project that passes runs the state machine of the spec it is checked
\* against.
THEOREM ProjectPassRunsTheSpec == Spec => []PassRunsTheSpec
BY ProjectInvariant, PassRunsTheSpecNow, PTL

-----------------------------------------------------------------------------
(* What crosses the boundary is forbidden.  A string is a sequence of       *)
(* characters, which the lemmas take as a hypothesis: the provers know      *)
(* strings only as different from one another.                             *)

IsJoined(joined, module, dot) ==
  /\ joined[1] = module[1]
  /\ \A n \in 2..Len(module) : joined[n] = (joined[n - 1] \o dot) \o module[n]

\* The recursive function in Dotted exists, and it joins part by part.
LEMMA DottedJoins ==
  ASSUME NEW module, IsList(module), module # <<>>
  PROVE  \E joined : IsJoined(joined, module, ".") /\ Dotted(module) = joined[Len(module)]
<1> DEFINE N == Len(module)
           Joins(g, m) ==
             g = [n \in 1..m |-> IF n = 1 THEN module[1] ELSE g[n - 1] \o "." \o module[n]]
           S == {m \in 0..N : \E g : Joins(g, m)}
<1>1. N \in Nat /\ N # 0
  BY ListShape DEF IsList
<1>2. \A m \in 0..N : m \in S
  <2>1. 0 \in S
    <3>1. Joins([n \in 1..0 |-> module[1]], 0)
      OBVIOUS
    <3>2. \E g : Joins(g, 0)
      <4> HIDE DEF Joins
      <4> QED BY <3>1
    <3>3. 0 \in 0..N
      BY <1>1
    <3> HIDE DEF Joins, N
    <3> QED BY <3>2, <3>3
  <2>2. ASSUME NEW k \in 0..(N - 1), k \in S
        PROVE  k + 1 \in S
    <3>1. PICK g : Joins(g, k)
      BY <2>2
    <3> DEFINE h == [n \in 1..(k + 1) |-> IF n = 1 THEN module[1] ELSE g[n - 1] \o "." \o module[n]]
    <3>2. \A n \in 1..k : h[n] = g[n]
      <4>1. \A n \in 1..k : g[n] = IF n = 1 THEN module[1] ELSE g[n - 1] \o "." \o module[n]
        BY <3>1
      <4>2. \A n \in 1..k : n \in 1..(k + 1)
        OBVIOUS
      <4> QED BY <4>1, <4>2
    <3>3. \A n \in 1..(k + 1) : n # 1 => n - 1 \in 1..k
      OBVIOUS
    <3>4. Joins(h, k + 1)
      BY <3>2, <3>3
    <3>5. k + 1 \in 0..N
      BY <1>1
    <3> QED BY <3>4, <3>5
  <2> HIDE DEF S, N
  <2> QED BY <2>1, <2>2, <1>1, BoundedInduction
<1> DEFINE together == CHOOSE g : Joins(g, N)
<1>3. Joins(together, N)
  <2>1. N \in 0..N
    BY <1>1
  <2>2. \E g : Joins(g, N)
    <3> HIDE DEF Joins, N
    <3> QED BY <2>1, <1>2
  <2> HIDE DEF Joins
  <2> QED BY <2>2
<1>4. Dotted(module) = together[N]
  BY DEF Dotted
<1> HIDE DEF together
<1>5. IsJoined(together, module, ".")
  <2>1. \A n \in 1..N : together[n] = IF n = 1 THEN module[1] ELSE together[n - 1] \o "." \o module[n]
    BY <1>3
  <2>2. 1 \in 1..N /\ \A n \in 2..N : n \in 1..N /\ n # 1
    BY <1>1
  <2> QED BY <2>1, <2>2 DEF IsJoined
<1> QED
  BY <1>4, <1>5

\* A word occurs wherever it stands in a name.
LEMMA OccursInside ==
  ASSUME NEW a, NEW word, NEW b, IsList(a), IsList(word), IsList(b)
  PROVE  Occurs(word, (a \o word) \o b)
<1> DEFINE front == a \o word
           name == front \o b
           part == SubSeq(name, Len(a) + 1, Len(a) + Len(word))
<1>1. /\ IsList(front) /\ Len(front) = Len(a) + Len(word)
      /\ \A k \in 1..Len(word) : front[Len(a) + k] = word[k]
  BY ListConcat
<1>2. Len(a) \in Nat /\ Len(word) \in Nat /\ Len(b) \in Nat /\ Len(front) \in Nat
  BY <1>1, ListShape
<1> HIDE DEF front
<1>3. /\ IsList(name) /\ Len(name) = Len(a) + Len(word) + Len(b)
      /\ \A k \in 1..Len(front) : name[k] = front[k]
  BY <1>1, <1>2, ListConcat
<1> HIDE DEF name
<1>4. \A k \in 1..Len(word) : name[Len(a) + k] = word[k]
  <2>1. \A k \in 1..Len(word) : Len(a) + k \in 1..Len(front)
    BY <1>1, <1>2
  <2> QED BY <1>1, <1>3, <2>1
<1>5. name \in Seq(Range(name))
  BY <1>3 DEF IsList
<1>6. /\ part \in Seq(Range(name)) /\ Len(part) = Len(word)
      /\ \A k \in 1..Len(word) : part[k] = name[Len(a) + k]
  <2>1. Len(name) \in Nat /\ Len(a) + Len(word) \in 0..Len(name) /\ Len(a) + 1 \in 1..(Len(name) + 1)
    BY <1>2, <1>3
  <2>2. part \in Seq(Range(name))
    BY <1>2, <1>5, <2>1
  <2>3. Len(part) = Len(word) /\ \A k \in 1..Len(word) : part[k] = name[Len(a) + k]
    BY <1>2, <1>5, <2>1
  <2> QED BY <2>2, <2>3
<1>7. part = word
  <2>1. IsList(part)
    BY <1>6, SeqIsList
  <2> HIDE DEF part
  <2> QED BY <1>4, <1>6, <2>1, ListEqual
<1>8. Len(a) \in 0..(Len(name) - Len(word))
  BY <1>2, <1>3
<1> QED
  BY <1>7, <1>8 DEF Occurs, name, front

Begins(a, x) == \E rest : IsList(rest) /\ x = a \o rest

\* A list begins with itself, and joining more to its end changes no beginning.
LEMMA BeginsWithMore ==
  /\ \A a : IsList(a) => Begins(a, a)
  /\ \A a, x, y : IsList(a) /\ IsList(y) /\ Begins(a, x) => Begins(a, x \o y)
<1>1. ASSUME NEW a, IsList(a)
      PROVE  Begins(a, a)
  BY <1>1, ListConcatNil, ShortLists DEF Begins
<1>2. ASSUME NEW a, NEW x, NEW y, IsList(a), IsList(y), Begins(a, x)
      PROVE  Begins(a, x \o y)
  <2>1. PICK rest : IsList(rest) /\ x = a \o rest
    BY <1>2 DEF Begins
  <2>2. (a \o rest) \o y = a \o (rest \o y)
    BY <1>2, <2>1, ListConcatAssociative
  <2>3. IsList(rest \o y)
    BY <1>2, <2>1, ListConcat
  <2> DEFINE more == rest \o y
  <2>4. IsList(more) /\ x \o y = a \o more
    BY <2>1, <2>2, <2>3
  <2> HIDE DEF more
  <2> QED BY <2>4 DEF Begins
<1> QED
  BY <1>1, <1>2

\* A module's dotted name begins with that of each package it is in.
LEMMA JoinedExtends ==
  ASSUME NEW dot, IsList(dot), NEW module, IsList(module),
         \A n \in 1..Len(module) : IsList(module[n]),
         NEW joined, IsJoined(joined, module, dot),
         NEW k \in 1..Len(module)
  PROVE  /\ \A n \in 1..Len(module) : IsList(joined[n])
         /\ Begins(joined[k], joined[Len(module)])
<1> DEFINE N == Len(module)
           S == {n \in 0..N : n > 0 => IsList(joined[n])}
           T == {n \in 0..N : n >= k => Begins(joined[k], joined[n])}
<1>1. N \in Nat
  BY ListShape
<1>2. joined[1] = module[1] /\ \A n \in 2..N : joined[n] = (joined[n - 1] \o dot) \o module[n]
  BY DEF IsJoined
<1>3. ASSUME NEW n \in 1..(N - 1), IsList(joined[n])
      PROVE  /\ joined[n + 1] = (joined[n] \o dot) \o module[n + 1]
             /\ IsList(module[n + 1]) /\ IsList(joined[n + 1])
  <2>1. n + 1 \in 2..N /\ n + 1 \in 1..N /\ (n + 1) - 1 = n
    BY <1>1
  <2>2. joined[n + 1] = (joined[n] \o dot) \o module[n + 1] /\ IsList(module[n + 1])
    BY <1>2, <2>1
  <2> DEFINE here == joined[n]
             last == module[n + 1]
             most == here \o dot
  <2>3. IsList(here) /\ IsList(last)
    BY <1>3, <2>2
  <2> HIDE DEF here, last
  <2>4. IsList(most)
    BY <2>3, ListConcat
  <2> HIDE DEF most
  <2>5. IsList(most \o last)
    BY <2>3, <2>4, ListConcat
  <2> QED BY <2>2, <2>5 DEF most, here, last
<1> HIDE DEF N
<1>4. \A n \in 0..N : n \in S
  <2>1. 0 \in S
    BY <1>1
  <2>2. ASSUME NEW n \in 0..(N - 1), n \in S
        PROVE  n + 1 \in S
    <3>1. n + 1 \in 0..N /\ n + 1 \in 1..N
      BY <1>1
    <3>2. CASE n = 0
      BY <1>2, <3>1, <3>2 DEF N
    <3>3. CASE n > 0
      <4>1. n \in 1..(N - 1) /\ IsList(joined[n])
        BY <1>1, <2>2, <3>3
      <4> QED BY <1>3, <3>1, <4>1
    <3> QED BY <3>2, <3>3
  <2> HIDE DEF S
  <2> QED BY <1>1, <2>1, <2>2, BoundedInduction
<1>5. \A n \in 1..N : IsList(joined[n])
  BY <1>1, <1>4
<1>6. k \in 1..N /\ IsList(joined[k])
  BY <1>5 DEF N
<1>7. \A n \in 0..N : n \in T
  <2>1. 0 \in T
    BY <1>1, <1>6
  <2>2. ASSUME NEW n \in 0..(N - 1), n \in T
        PROVE  n + 1 \in T
    <3>1. n + 1 \in 0..N /\ n + 1 \in 1..N
      BY <1>1
    <3>2. ASSUME n + 1 = k
          PROVE  Begins(joined[k], joined[n + 1])
      BY <1>6, <3>2, BeginsWithMore
    <3>3. ASSUME n >= k
          PROVE  Begins(joined[k], joined[n + 1])
      <4> DEFINE most == joined[n] \o dot
      <4>1. Begins(joined[k], joined[n]) /\ n \in 1..(N - 1)
        BY <1>1, <1>6, <2>2, <3>3
      <4>2. IsList(joined[n])
        BY <1>1, <1>5, <4>1
      <4>3. joined[n + 1] = most \o module[n + 1] /\ IsList(module[n + 1])
        BY <1>3, <4>1, <4>2
      <4>4. Begins(joined[k], most)
        BY <1>6, <4>1, BeginsWithMore
      <4> HIDE DEF most
      <4> QED BY <1>6, <4>3, <4>4, BeginsWithMore
    <3> QED BY <1>1, <1>6, <3>1, <3>2, <3>3
  <2> HIDE DEF T
  <2> QED BY <1>1, <2>1, <2>2, BoundedInduction
<1>8. N \in 0..N /\ N >= k
  BY <1>1, <1>6
<1>9. Begins(joined[k], joined[N])
  BY <1>7, <1>8
<1> QED
  BY <1>5, <1>9 DEF N

\* What a name begins with occurs in it, and so does the end of its beginning.
LEMMA BeginningOccurs ==
  ASSUME NEW name, NEW a, NEW word, IsList(a), IsList(word)
  PROVE  /\ Begins(word, name) => Occurs(word, name)
         /\ Begins(a \o word, name) => Occurs(word, name)
<1>1. ASSUME Begins(word, name)
      PROVE  Occurs(word, name)
  <2>1. PICK rest : IsList(rest) /\ name = word \o rest
    BY <1>1 DEF Begins
  <2>2. <<>> \o word = word /\ IsList(<<>>)
    BY ListConcatNil, ShortLists
  <2>3. Occurs(word, (<<>> \o word) \o rest)
    BY <2>1, <2>2, OccursInside
  <2> QED BY <2>1, <2>2, <2>3
<1>2. ASSUME Begins(a \o word, name)
      PROVE  Occurs(word, name)
  <2>1. PICK rest : IsList(rest) /\ name = (a \o word) \o rest
    BY <1>2 DEF Begins
  <2> QED BY <2>1, OccursInside
<1> QED
  BY <1>1, <1>2

\* What joins one more part to a dotted name.
LEMMA OneMorePart ==
  ASSUME NEW dot, IsList(dot), NEW front, NEW part, IsList(front), IsList(part)
  PROVE  IsList(front \o (dot \o part)) /\ (front \o dot) \o part = front \o (dot \o part)
<1>1. (front \o dot) \o part = front \o (dot \o part)
  BY ListConcatAssociative
<1> DEFINE last == dot \o part
<1>2. IsList(last)
  BY ListConcat
<1> HIDE DEF last
<1>3. IsList(front \o last)
  BY <1>2, ListConcat
<1> QED
  BY <1>1, <1>3 DEF last

\* A name that begins with three words has the last two of them in it.
LEMMA LastPartOccurs ==
  ASSUME NEW name, NEW a, NEW dot, NEW part, IsList(a), IsList(dot), IsList(part),
         Begins((a \o dot) \o part, name)
  PROVE  Occurs(dot \o part, name)
<1>1. IsList(a \o (dot \o part)) /\ (a \o dot) \o part = a \o (dot \o part)
  BY OneMorePart
<1>2. IsList(dot \o part)
  BY ListConcat
<1> DEFINE last == dot \o part
<1>3. Begins(a \o last, name) /\ IsList(last)
  BY <1>1, <1>2
<1> HIDE DEF last
<1>4. Occurs(last, name)
  BY <1>3, BeginningOccurs
<1> QED
  BY <1>4 DEF last

\* The parts of a module that occur in its dotted name.
LEMMA PartsOccur ==
  ASSUME IsList("."), NEW module, IsList(module), module # <<>>,
         \A n \in 1..Len(module) : IsList(module[n])
  PROVE  /\ IsList(Dotted(module))
         /\ Occurs(module[1], Dotted(module))
         /\ \A n \in 2..Len(module) : Occurs("." \o module[n], Dotted(module))
         /\ Len(module) > 1 => Occurs((module[1] \o ".") \o module[2], Dotted(module))
         /\ Len(module) > 2 =>
              /\ Occurs(module[3], Dotted(module))
              /\ Occurs(((module[1] \o ".") \o module[2]) \o ("." \o module[3]), Dotted(module))
<1> DEFINE dot == "."
           name == Dotted(module)
           N == Len(module)
<1>1. N \in Nat /\ N > 0
  BY ListShape DEF IsList
<1>2. PICK joined : IsJoined(joined, module, dot) /\ name = joined[N]
  BY DottedJoins
<1>3. IsList(dot)
  OBVIOUS
<1> HIDE DEF dot, name
<1>4. /\ \A n \in 1..N : IsList(joined[n])
      /\ \A k \in 1..N : Begins(joined[k], name)
  BY <1>2, <1>3, <1>1, JoinedExtends
<1>5. joined[1] = module[1] /\ \A n \in 2..N : joined[n] = (joined[n - 1] \o dot) \o module[n]
  BY <1>2 DEF IsJoined
<1> DEFINE first == module[1]
           second == module[2]
           third == module[3]
           two == (first \o dot) \o second
<1>6. IsList(name)
  BY <1>1, <1>2, <1>4
<1>7. ASSUME NEW n \in 2..N
      PROVE  Occurs(dot \o module[n], name)
  <2>1. n \in 1..N /\ n - 1 \in 1..N
    BY <1>1
  <2>2. /\ IsList(joined[n - 1]) /\ IsList(module[n])
        /\ Begins((joined[n - 1] \o dot) \o module[n], name)
    BY <1>4, <1>5, <2>1
  <2> QED BY <1>3, <2>2, LastPartOccurs
<1>8. Occurs(first, name)
  <2>1. 1 \in 1..N
    BY <1>1
  <2>2. IsList(first) /\ Begins(first, name)
    BY <1>4, <1>5, <2>1
  <2> HIDE DEF first
  <2> QED BY <2>2, BeginningOccurs
<1>9. ASSUME N > 1
      PROVE  joined[2] = two /\ IsList(two) /\ Occurs(two, name)
  <2>1. 2 \in 1..N /\ 2 \in 2..N /\ 2 - 1 = 1
    BY <1>1, <1>9
  <2>2. joined[2] = two
    BY <1>5, <2>1
  <2>3. IsList(two) /\ Begins(two, name)
    BY <1>4, <2>1, <2>2
  <2> HIDE DEF two
  <2> QED BY <2>2, <2>3, BeginningOccurs
<1>10. ASSUME N > 2
      PROVE  /\ Occurs(third, name)
             /\ Occurs(two \o (dot \o third), name)
  <2>1. 3 \in 1..N /\ 3 \in 2..N /\ 3 - 1 = 2 /\ N > 1
    BY <1>1, <1>10
  <2>2. joined[2] = two /\ IsList(two)
    BY <1>9, <2>1
  <2>3. joined[3] = (two \o dot) \o third
    BY <1>5, <2>1, <2>2
  <2>4. IsList(third) /\ Begins((two \o dot) \o third, name)
    BY <1>4, <2>1, <2>3
  <2> HIDE DEF two, third
  <2>5. (two \o dot) \o third = two \o (dot \o third)
    <3>1. IsList(two) /\ IsList(dot) /\ IsList(third)
      BY <1>3, <2>2, <2>4
    <3>2. IsList(two \o (dot \o third)) /\ (two \o dot) \o third = two \o (dot \o third)
      BY <3>1, OneMorePart
    <3> QED BY <3>2
  <2>6. IsList(two \o dot) /\ IsList(dot \o third)
    BY <1>3, <2>2, <2>4, ListConcat
  <2> DEFINE most == two \o dot
             last == dot \o third
             whole == two \o last
  <2>7. /\ IsList(most) /\ IsList(last) /\ Begins(most \o third, name) /\ Begins(whole, name)
        /\ whole = two \o last
    BY <2>4, <2>5, <2>6
  <2>8. IsList(whole)
    <3> HIDE DEF last
    <3> QED BY <2>2, <2>7, ListConcat
  <2> HIDE DEF most, last, whole
  <2>9. Occurs(third, name)
    BY <2>4, <2>7, BeginningOccurs
  <2>10. Occurs(whole, name)
    BY <2>7, <2>8, BeginningOccurs
  <2> QED BY <2>9, <2>10 DEF last, whole
<1> QED
  BY <1>6, <1>7, <1>8, <1>9, <1>10 DEF dot, name

\* A module that crosses the boundary is forbidden by the substrings of its
\* dotted name.
LEMMA CrossingIsForbidden ==
  ASSUME \A s \in STRING : IsList(s), NEW module, IsModule(module), NEW ctx, NEW all
  PROVE  /\ \/ module[1] \in Frameworks
            \/ /\ module[1] = "contexts" /\ Len(module) > 1
               /\ \/ module[2] \in all \ {ctx}
                  \/ (Len(module) > 2 /\ module[3] \in {"adapters", "application", "ports"})
            => DomainForbids(all, ctx, Dotted(module))
         /\ Len(module) > 2 /\ module[1] = "contexts" /\ module[2] = ctx /\ module[3] = "domain"
            => WebForbids(ctx, Dotted(module))
<1>1. /\ IsList(module) /\ module # <<>>
      /\ \A n \in 1..Len(module) : IsList(module[n])
  <2>1. module \in Seq(STRING) /\ module # <<>>
    BY DEF IsModule
  <2>2. IsList(module)
    BY <2>1, SeqIsList
  <2>3. \A n \in 1..Len(module) : module[n] \in STRING
    BY <2>1
  <2> QED BY <2>1, <2>2, <2>3
<1>2. IsList(".") /\ IsList("domain")
  BY Spelling
<1> DEFINE name == Dotted(module)
           word(n) == module[n]
           two == (module[1] \o ".") \o module[2]
<1>3. /\ Occurs(module[1], name)
      /\ Len(module) > 1 => Occurs(two, name)
      /\ Len(module) > 2 =>
           /\ Occurs(module[3], name) /\ Occurs("." \o module[3], name)
           /\ Occurs(two \o ("." \o module[3]), name)
  <2>1. Len(module) > 2 => 3 \in 2..Len(module)
    BY <1>1, ListShape
  <2> QED BY <1>1, <1>2, <2>1, PartsOccur
<1> HIDE DEF name
<1>4. ASSUME module[1] \in Frameworks
      PROVE  DomainForbids(all, ctx, name)
  <2>1. module[1] \in ForbiddenImports
    BY <1>4 DEF Frameworks, ForbiddenImports
  <2> QED BY <1>3, <2>1 DEF DomainForbids
<1>5. ASSUME module[1] = "contexts", Len(module) > 1, module[2] \in all \ {ctx}
      PROVE  DomainForbids(all, ctx, name)
  <2>1. two = "contexts." \o module[2]
    BY <1>5, Spelling
  <2>2. Occurs("contexts." \o module[2], name)
    BY <1>3, <1>5, <2>1
  <2> QED BY <1>5, <2>2 DEF DomainForbids
<1>6. ASSUME Len(module) > 2, module[3] \in {"adapters", "application", "ports"}
      PROVE  DomainForbids(all, ctx, name)
  <2>1. module[3] = "ports" => "." \o module[3] = ".ports"
    BY Spelling
  <2>2. \E f \in ForbiddenImports : Occurs(f, name)
    <3>1. "adapters" \in ForbiddenImports /\ "application" \in ForbiddenImports /\ ".ports" \in ForbiddenImports
      BY DEF ForbiddenImports
    <3>2. CASE module[3] = "adapters"
      BY <1>3, <1>6, <3>1, <3>2
    <3>3. CASE module[3] = "application"
      BY <1>3, <1>6, <3>1, <3>3
    <3>4. CASE module[3] = "ports"
      BY <1>3, <1>6, <2>1, <3>1, <3>4
    <3> QED BY <1>6, <3>2, <3>3, <3>4
  <2> QED BY <2>2 DEF DomainForbids
<1>7. ASSUME Len(module) > 2, module[1] = "contexts", module[2] = ctx, module[3] = "domain"
      PROVE  WebForbids(ctx, name)
  <2>1. two = "contexts." \o ctx /\ "." \o module[3] = ".domain"
    BY <1>7, Spelling
  <2>2. Occurs(two \o ("." \o module[3]), name)
    BY <1>3, <1>7
  <2> QED BY <2>1, <2>2 DEF WebForbids
<1> QED
  BY <1>4, <1>5, <1>6, <1>7 DEF name

\* An import that crosses the boundary from a file that parses is reported.
LEMMA CrossingsNow ==
  ASSUME \A s \in STRING : IsList(s)
  PROVE  IInv => CrossingsReported
<1> SUFFICES ASSUME IInv, Checked, NEW p \in DomainPython \cup WebPython, Parses(files[p]),
                    NEW i \in ImportsOf(p), SpelledOut(i),
                    IF p \in DomainPython THEN CrossesBoundary(p[3], i.real)
                                          ELSE IsPrefix(<<"contexts", p[3], "domain">>, i.real)
             PROVE  p \in Reported({"boundary"})
  BY DEF CrossingsReported
<1> DEFINE all == AllContexts(files)
           module == i.real
           name == Dotted(module)
<1>1. report = CheckProject(Generated[spec], files) /\ LegalTree(files)
  BY CheckedIsCurrent
<1>2. /\ \A q \in DomainPython : q[3] \in all
      /\ p \in DOMAIN files
  <2>1. \A q : q \in DomainPython =>
          \E ctx \in all : ctx = q[3] /\ q \in PythonUnder(files, <<"src", "contexts", ctx, "domain">>)
    BY <1>1, ScannedFiles
  <2>2. p \in DOMAIN files
    BY DEF DomainPython, WebPython, PythonIn
  <2> HIDE DEF all
  <2> QED BY <2>1, <2>2
<1>3. IsModule(module) /\ name \in DomainImports(files[p])
  <2>1. PICK l \in Range(files[p]) : i \in l.imports
    BY DEF ImportsOf
  <2>2. IsModule(module)
    BY <1>1, <1>2, <2>1 DEF LegalTree, LegalLines, LegalLine
  <2>3. i.seen = name
    BY DEF SpelledOut
  <2>4. i.seen \in DomainImports(files[p])
    BY <2>1 DEF DomainImports
  <2> QED BY <2>2, <2>3, <2>4
<1> HIDE DEF module, name
<1>4. CASE p \in DomainPython
  <2>1. CrossesBoundary(p[3], module)
    BY <1>4 DEF module
  <2>2. \/ module[1] \in Frameworks
        \/ /\ module[1] = "contexts" /\ Len(module) > 1
           /\ \/ module[2] \in all \ {p[3]}
              \/ (Len(module) > 2 /\ module[3] \in {"adapters", "application", "ports"})
    <3> HIDE DEF all
    <3> QED BY <1>2, <2>1 DEF CrossesBoundary
  <2>3. DomainForbids(all, p[3], name)
    <3> HIDE DEF all
    <3> QED BY <1>3, <2>2, CrossingIsForbidden DEF name
  <2> HIDE DEF all
  <2>4. \E m \in DomainImports(files[p]) : DomainForbids(AllContexts(files), p[3], m)
    BY <1>3, <2>3 DEF all
  <2> QED BY <1>1, <1>4, <2>4, ReportedBoundary
<1>5. CASE p \notin DomainPython
  <2>1. p \in WebPython /\ IsPrefix(<<"contexts", p[3], "domain">>, module)
    BY <1>5 DEF module
  <2>2. Len(module) > 2 /\ module[1] = "contexts" /\ module[2] = p[3] /\ module[3] = "domain"
    <3> DEFINE triple == <<"contexts", p[3], "domain">>
    <3>1. /\ IsList(triple) /\ Len(triple) = 3
          /\ triple[1] = "contexts" /\ triple[2] = p[3] /\ triple[3] = "domain"
      BY LongerLists
    <3>2. IsList(module)
      BY <1>3, SeqIsList DEF IsModule
    <3>3. IsPrefix(triple, module)
      BY <2>1
    <3> HIDE DEF triple
    <3>4. Len(triple) <= Len(module) /\ \A k \in 1..Len(triple) : module[k] = triple[k]
      BY <3>1, <3>2, <3>3, PrefixByPosition
    <3>5. Len(module) \in Nat
      BY <3>2, ListShape
    <3> QED BY <3>1, <3>4, <3>5
  <2>3. WebForbids(p[3], name)
    BY <1>3, <2>2, CrossingIsForbidden DEF name
  <2>4. \E m \in DomainImports(files[p]) : WebForbids(p[3], m)
    BY <1>3, <2>3
  <2> QED BY <1>1, <2>1, <2>4, ReportedBoundary
<1> QED
  BY <1>4, <1>5

\* Every import that is spelled out and crosses the boundary is reported,
\* whatever the names and the edits.  The hypothesis is what TLA+ says of
\* strings, that each of them is a sequence.
THEOREM ProjectCrossingsReported ==
  ASSUME \A s \in STRING : IsList(s)
  PROVE  Spec => []CrossingsReported
<1>1. IInv => CrossingsReported
  BY CrossingsNow
<1> QED
  BY <1>1, ProjectInvariant, PTL

-----------------------------------------------------------------------------
(* What a tree fresh from scaffold is reported for.                        *)

\* Nothing is missing from a fresh tree and nothing drifts.
LEMMA FreshTreeIsWholeNow ==
  ASSUME IInv, Checked, files = Generated[spec]
  PROVE  Reported({"missing", "drift"}) = {} /\ (Passes <=> Reported({"boundary"}) = {})
<1>1. report = CheckProject(files, files) /\ LegalTree(files)
  BY CheckedIsCurrent
<1>2. \A p \in DOMAIN files : ~Drifts(p, files[p], files[p])
  <2> SUFFICES ASSUME NEW p \in DOMAIN files
               PROVE  ~Drifts(p, files[p], files[p])
    OBVIOUS
  <2>1. IsList(files[p])
    BY <1>1 DEF LegalTree, LegalLines
  <2>2. IsPrefix(files[p], files[p])
    BY <2>1, PrefixByPosition
  <2> QED BY <2>2 DEF Drifts
<1>3. Reported({"missing", "drift"}) =
        (DOMAIN files \ DOMAIN files)
        \cup {q \in DOMAIN files \cap DOMAIN files : Drifts(q, files[q], files[q])}
  BY <1>1, ReportedDrift
<1>4. Reported({"missing", "drift"}) = {}
  BY <1>2, <1>3
<1>5. \A v \in report : v.kind \in {"missing", "drift", "boundary"}
  BY TypeNow DEF TypeOK
<1>6. Reported({"boundary"}) = {} => report = {}
  BY <1>4, <1>5 DEF Reported
<1> QED
  BY <1>4, <1>6 DEF Passes, Reported

\* The verdict on a tree fresh from scaffold is that of the boundary scan.
THEOREM ProjectFreshTreeIsWhole ==
  Spec => [](Checked /\ files = Generated[spec] =>
               Reported({"missing", "drift"}) = {} /\ (Passes <=> Reported({"boundary"}) = {}))
<1>1. IInv => (Checked /\ files = Generated[spec] =>
                 Reported({"missing", "drift"}) = {} /\ (Passes <=> Reported({"boundary"}) = {}))
  BY FreshTreeIsWholeNow
<1> QED
  BY <1>1, ProjectInvariant, PTL

\* What occurs in a word occurs where that word does.
LEMMA OccursTransitive ==
  ASSUME NEW word, NEW x, NEW name, IsList(word), IsList(x), IsList(name),
         Occurs(word, x), Occurs(x, name)
  PROVE  Occurs(word, name)
<1> DEFINE m == Len(word)
           n == Len(x)
<1>1. m \in Nat /\ n \in Nat /\ Len(name) \in Nat
  BY ListShape
<1>2. PICK i \in 0..(n - m) : SubSeq(x, i + 1, i + m) = word
  BY DEF Occurs
<1>3. PICK j \in 0..(Len(name) - n) : SubSeq(name, j + 1, j + n) = x
  BY DEF Occurs
<1> DEFINE part == SubSeq(name, (j + i) + 1, (j + i) + m)
<1>4. x \in Seq(Range(x)) /\ name \in Seq(Range(name))
  BY DEF IsList
<1>5. \A k \in 1..m : word[k] = x[i + k]
  <2>1. \A k \in 1..m : SubSeq(x, i + 1, i + m)[k] = x[i + k]
    BY <1>1, <1>2, <1>4
  <2> QED BY <1>2, <2>1
<1>6. \A k \in 1..n : x[k] = name[j + k]
  <2>1. \A k \in 1..n : SubSeq(name, j + 1, j + n)[k] = name[j + k]
    BY <1>1, <1>3, <1>4
  <2> QED BY <1>3, <2>1
<1>7. \A k \in 1..m : word[k] = name[(j + i) + k]
  <2>1. \A k \in 1..m : i + k \in 1..n /\ j + (i + k) = (j + i) + k
    BY <1>1, <1>2
  <2> QED BY <1>5, <1>6, <2>1
<1>8. j + i \in 0..(Len(name) - m)
  BY <1>1, <1>2, <1>3
<1>9. /\ part \in Seq(Range(name)) /\ Len(part) = m
      /\ \A k \in 1..m : part[k] = name[(j + i) + k]
  BY <1>1, <1>4, <1>8
<1>10. part = word
  <2>1. IsList(part)
    BY <1>9, SeqIsList
  <2> HIDE DEF part
  <2> QED BY <1>7, <1>9, <2>1, ListEqual
<1> QED
  BY <1>8, <1>10 DEF Occurs

\* A class and an evaluator are Python.
LEMMA GeneratedParses ==
  ASSUME NEW c, NEW d, NEW text, NEW imports, text[1] = "evaluator"
  PROVE  Parses(AggregateClass(c, d)) /\ Parses(<<Importing(text, imports)>>)
<1>1. Unparsable.text = <<"syntax error">> /\ <<"syntax error">>[1] = "syntax error"
  BY DEF Unparsable, Plain, Line
<1> DEFINE first == Importing(<<"aggregate", d.name, c.name, d.states[1]>>,
             {Own(c, <<"domain", Snake[d.name] \o "_state">>), Own(c, <<"domain", "exceptions">>)})
           open == Line("open", <<"impl", <<"only here">>>>, {})
           rules == Plain(<<"rules", d.guards, d.invariants, d.relationship_invariants>>)
           close == Line("close", <<"end impl">>, {})
           lone == Importing(text, imports)
<1>2. AggregateClass(c, d) = <<first>> \o ((<<open>> \o <<rules>>) \o <<close>>)
  BY DEF AggregateClass, ImplBlock
<1>3. /\ first.text[1] = "aggregate" /\ open.text[1] = "impl" /\ rules.text[1] = "rules"
      /\ close.text[1] = "end impl" /\ lone.text[1] = "evaluator"
  BY DEF Importing, Plain, Line
<1> HIDE DEF first, open, rules, close, lone
<1>4. IsList(<<open>> \o <<rules>>) /\ Range(<<open>> \o <<rules>>) = {open, rules}
  BY ShortLists, ListConcat
<1> DEFINE two == <<open>> \o <<rules>>
           three == two \o <<close>>
<1>5. IsList(three) /\ Range(three) = {open, rules, close}
  <2> HIDE DEF two
  <2>1. IsList(two) /\ Range(two) = {open, rules}
    BY <1>4 DEF two
  <2> QED BY <2>1, ShortLists, ListConcat
<1>6. Range(AggregateClass(c, d)) = {first, open, rules, close}
  <2> HIDE DEF three
  <2>1. AggregateClass(c, d) = <<first>> \o three
    BY <1>2 DEF three, two
  <2> QED BY <1>5, <2>1, ShortLists, ListConcat
<1>7. Unparsable \notin {first, open, rules, close, lone}
  BY <1>1, <1>3
<1>8. Range(<<lone>>) = {lone}
  BY ShortLists
<1> QED
  BY <1>6, <1>7, <1>8 DEF Parses, lone

\* What a spec's writes leave in the tree, of a spec whose files all survive.
LEMMA FreshFile ==
  ASSUME NEW s \in Specs, WellTyped(s), SnakeTyped(s), s \in PathsApart,
         NEW w \in Range(Writes(s))
  PROVE  w.path \in DOMAIN Generated[s] /\ Generated[s][w.path] = w.lines
<1> DEFINE writes == WritesOf[s]
           generated == Generated[s]
<1>1. w \in Range(writes)
  BY DEF WritesOf
<1>2. generated = WrittenTree(writes) /\ IsList(writes)
  BY GeneratedIsLegal DEF LegalWrites
<1>3. \A v, u \in Range(writes) : v.path = u.path => v.lines = u.lines
  BY DEF PathsApart
<1> HIDE DEF writes, generated
<1>4. /\ DOMAIN generated = {v.path : v \in Range(writes)}
      /\ \A q \in DOMAIN generated : \E v \in Range(writes) : v.path = q /\ generated[q] = v.lines
  BY <1>2, WrittenLines
<1>5. w.path \in DOMAIN generated
  BY <1>1, <1>4
<1>6. PICK v \in Range(writes) : v.path = w.path /\ generated[w.path] = v.lines
  BY <1>4, <1>5
<1> QED
  BY <1>1, <1>3, <1>5, <1>6 DEF generated

\* The words that occur in the name of a module of the context's own domain.
LEMMA OwnModuleWords ==
  ASSUME \A s \in STRING : IsList(s), NEW ctx \in STRING, NEW last \in STRING,
         NEW module, module = <<"contexts", ctx, "domain", last>>
  PROVE  /\ IsList(Dotted(module))
         /\ Occurs("." \o ctx, Dotted(module))
         /\ Occurs("." \o last, Dotted(module))
         /\ Occurs(("contexts." \o ctx) \o ".domain", Dotted(module))
<1>1. "." \in STRING /\ "contexts" \in STRING /\ "domain" \in STRING
  BY Spelling
<1>2. IsList(".")
  BY <1>1
<1>3. /\ Len(module) = 4
      /\ module[1] = "contexts" /\ module[2] = ctx /\ module[3] = "domain" /\ module[4] = last
  OBVIOUS
<1>4. IsList(module) /\ module # <<>>
  BY <1>3, LongerLists
<1>5. \A n \in 1..Len(module) : IsList(module[n])
  <2>1. IsList("contexts") /\ IsList(ctx) /\ IsList("domain") /\ IsList(last)
    BY <1>1
  <2>2. \A n \in 1..4 : n = 1 \/ n = 2 \/ n = 3 \/ n = 4
    OBVIOUS
  <2> QED BY <1>3, <2>1, <2>2
<1> DEFINE name == Dotted(module)
           two == (module[1] \o ".") \o module[2]
<1>6. /\ IsList(name)
      /\ \A n \in 2..Len(module) : Occurs("." \o module[n], name)
      /\ Len(module) > 2 => Occurs(two \o ("." \o module[3]), name)
  BY <1>2, <1>4, <1>5, PartsOccur
<1> HIDE DEF name
<1>7. 2 \in 2..Len(module) /\ 4 \in 2..Len(module) /\ Len(module) > 2
  BY <1>3
<1>8. Occurs("." \o ctx, name) /\ Occurs("." \o last, name)
  BY <1>3, <1>6, <1>7
<1>9. two = "contexts." \o ctx /\ "." \o module[3] = ".domain"
  BY <1>3, Spelling
<1>10. Occurs(("contexts." \o ctx) \o ".domain", name)
  BY <1>6, <1>7, <1>9
<1> QED
  BY <1>6, <1>8, <1>10 DEF name

\* If the import that a domain file starts with is not forbidden, neither the
\* name of its context nor its own holds a forbidden word, nor is the context
\* another's beginning.
LEMMA AllowedImportIsApart ==
  ASSUME \A s \in STRING : IsList(s), NEW ctx \in STRING, NEW last \in STRING, NEW all,
         \A other \in all : other \in STRING,
         ~DomainForbids(all, ctx, Dotted(<<"contexts", ctx, "domain", last>>))
  PROVE  /\ \A f \in ForbiddenImports : ~Occurs(f, "." \o ctx) /\ ~Occurs(f, "." \o last)
         /\ \A other \in all : other # ctx => ~Occurs("contexts." \o other, ("contexts." \o ctx) \o ".domain")
<1> DEFINE module == <<"contexts", ctx, "domain", last>>
           name == Dotted(module)
           two == "contexts." \o ctx
           dotdomain == "." \o "domain"
           three == two \o ".domain"
<1>1. /\ IsList(name) /\ Occurs("." \o ctx, name) /\ Occurs("." \o last, name)
      /\ Occurs(three, name)
  BY OwnModuleWords
<1>2. /\ \A f \in ForbiddenImports : ~Occurs(f, name)
      /\ \A other \in all : other # ctx => ~Occurs("contexts." \o other, name)
  BY DEF DomainForbids
<1> HIDE DEF name
<1>3. /\ IsList(".") /\ IsList("contexts") /\ IsList("domain") /\ IsList(ctx) /\ IsList(last)
      /\ \A f \in ForbiddenImports : IsList(f)
      /\ \A other \in all : IsList(other)
  BY Spelling
<1>4. IsList("." \o ctx) /\ IsList("." \o last)
  BY <1>3, ListConcat
<1>5. IsList("contexts.")
  <2>1. IsList("contexts" \o ".")
    BY <1>3, ListConcat
  <2> QED BY <2>1, Spelling
<1>6. IsList(".domain")
  <2>1. IsList("." \o "domain")
    BY <1>3, ListConcat
  <2> QED BY <2>1, Spelling
<1>7. IsList(two)
  BY <1>3, <1>5, ListConcat
<1>8. IsList(three)
  <2> HIDE DEF two
  <2> QED BY <1>6, <1>7, ListConcat
<1> HIDE DEF two, three
<1>9. ASSUME NEW f \in ForbiddenImports
      PROVE  ~Occurs(f, "." \o ctx) /\ ~Occurs(f, "." \o last)
  <2> DEFINE a == "." \o ctx
             b == "." \o last
  <2>1. /\ IsList(f) /\ IsList(a) /\ IsList(b) /\ IsList(name)
        /\ Occurs(a, name) /\ Occurs(b, name) /\ ~Occurs(f, name)
    BY <1>1, <1>2, <1>3, <1>4
  <2> HIDE DEF a, b
  <2>2. ~Occurs(f, a)
    BY <2>1, OccursTransitive
  <2>3. ~Occurs(f, b)
    BY <2>1, OccursTransitive
  <2> QED BY <2>2, <2>3 DEF a, b
<1>10. ASSUME NEW other \in all, other # ctx
       PROVE  ~Occurs("contexts." \o other, three)
  <2> DEFINE a == "contexts." \o other
  <2>1. IsList(a)
    BY <1>3, <1>5, ListConcat
  <2>2. ~Occurs(a, name)
    BY <1>2, <1>10
  <2> HIDE DEF a
  <2>3. ~Occurs(a, three)
    BY <1>1, <1>8, <2>1, <2>2, OccursTransitive
  <2> QED BY <2>3 DEF a
<1> QED
  BY <1>9, <1>10 DEF three, two

\* A module of the domain, by its four parts.
LEMMA OwnModule ==
  ASSUME NEW c, NEW last
  PROVE  Own(c, <<"domain", last>>).seen = Dotted(<<"contexts", c.name, "domain", last>>)
<1> DEFINE front == <<"contexts", c.name>>
           back == <<"domain", last>>
           four == <<"contexts", c.name, "domain", last>>
<1>1. /\ IsList(front) /\ Len(front) = 2 /\ front[1] = "contexts" /\ front[2] = c.name
      /\ IsList(back) /\ Len(back) = 2 /\ back[1] = "domain" /\ back[2] = last
      /\ IsList(four) /\ Len(four) = 4
      /\ four[1] = "contexts" /\ four[2] = c.name /\ four[3] = "domain" /\ four[4] = last
  BY ShortLists, LongerLists
<1>2. Own(c, <<"domain", last>>).seen = Dotted(front \o back)
  BY DEF Own, Import
<1> HIDE DEF front, back, four
<1>3. front \o back = four
  <2>1. IsList(front) /\ IsList(back) /\ IsList(four)
    BY <1>1
  <2>2. /\ IsList(front \o back)
        /\ Range(front \o back) = Range(front) \cup Range(back)
        /\ Len(front \o back) = Len(front) + Len(back)
        /\ \A k \in 1..Len(front) : (front \o back)[k] = front[k]
        /\ \A k \in 1..Len(back) : (front \o back)[Len(front) + k] = back[k]
    BY <2>1, ListConcat
  <2>3. \A k \in 1..4 : (front \o back)[k] = four[k]
    <3>1. /\ (front \o back)[1] = four[1] /\ (front \o back)[2] = four[2]
          /\ (front \o back)[3] = four[3] /\ (front \o back)[4] = four[4]
      <4>1. 1 \in 1..2 /\ 2 \in 1..2 /\ 2 + 1 = 3 /\ 2 + 2 = 4
        OBVIOUS
      <4> QED BY <1>1, <2>2, <4>1
    <3>2. \A k \in 1..4 : k = 1 \/ k = 2 \/ k = 3 \/ k = 4
      OBVIOUS
    <3> QED BY <3>1, <3>2
  <2>4. IsList(front \o back) /\ Len(front \o back) = 4
    BY <1>1, <2>2
  <2> DEFINE both == front \o back
  <2>5. IsList(both) /\ Len(both) = Len(four) /\ \A k \in 1..Len(both) : both[k] = four[k]
    BY <1>1, <2>3, <2>4
  <2> HIDE DEF both
  <2>6. both = four
    BY <2>1, <2>5, ListEqual
  <2> QED BY <2>6 DEF both
<1> QED
  BY <1>2, <1>3 DEF four

\* What passes in a fresh tree is not forbidden.
LEMMA FreshImportIsAllowed ==
  ASSUME IInv, Checked, Passes, files = Generated[spec], spec \in PathsApart,
         NEW c \in Range(spec.contexts), ~StartsWith(c.name, "__"),
         NEW file, NEW lines, Write(DomainFile(c, file), lines) \in Range(Writes(spec)),
         Parses(lines), NEW last, NEW line \in Range(lines), Own(c, <<"domain", last>>) \in line.imports
  PROVE  ~DomainForbids(AllContexts(files), c.name, Dotted(<<"contexts", c.name, "domain", last>>))
<1> DEFINE p == DomainFile(c, file)
           dirs == <<"domain">>
           import == Own(c, <<"domain", last>>)
<1>1. spec \in Specs /\ WellTyped(spec) /\ SnakeTyped(spec)
  BY SpecsTyped DEF IInv
<1>2. Write(p, lines).path = p /\ Write(p, lines).lines = lines
  BY DEF Write
<1>3. p \in DOMAIN files /\ files[p] = lines
  BY <1>1, <1>2, FreshFile
<1>4. /\ IsList(dirs) /\ Len(dirs) = 1 /\ dirs[1] = "domain" /\ p = InContext(c, dirs, file)
  BY ShortLists DEF DomainFile
<1>5. /\ IsList(p) /\ Len(p) = Len(dirs) + 5
      /\ p[1] = "src" /\ p[2] = "contexts" /\ p[3] = c.name
      /\ \A k \in 1..Len(dirs) : p[3 + k] = dirs[k]
      /\ p[Len(p)] = "py"
  <2> HIDE DEF dirs
  <2>1. IsList(dirs)
    BY <1>4
  <2>2. p = InContext(c, dirs, file)
    BY <1>4
  <2> HIDE DEF p
  <2> QED BY <2>1, <2>2, ContextPathParts
<1> HIDE DEF p, dirs, import
<1>6. p \in DomainPython /\ p[3] = c.name
  <2>1. 1 \in 1..1 /\ 3 + 1 = 4 /\ 1 + 5 = 6
    OBVIOUS
  <2>2. p[4] = "domain" /\ Len(p) = 6
    BY <1>4, <1>5, <2>1
  <2>3. Len(p) > 5
    BY <2>2
  <2>4. ~StartsWith(p[3], "__")
    BY <1>5
  <2> QED BY <1>3, <1>5, <2>2, <2>3, <2>4 DEF DomainPython, PythonIn
<1>7. import.seen \in DomainImports(files[p])
  BY <1>3 DEF DomainImports, import
<1>8. p \notin Reported({"boundary"})
  BY DEF Passes, Reported
<1>9. report = CheckProject(Generated[spec], files) /\ LegalTree(files)
  BY CheckedIsCurrent
<1>10. ~\E m \in DomainImports(files[p]) : DomainForbids(AllContexts(files), p[3], m)
  BY <1>6, <1>8, <1>9, ReportedBoundary
<1>11. ~DomainForbids(AllContexts(files), c.name, import.seen)
  BY <1>6, <1>7, <1>10
<1> QED
  BY <1>11, OwnModule DEF import

\* Every context that is scanned and has its package is found.
LEMMA FreshContexts ==
  ASSUME IInv, files = Generated[spec], spec \in PathsApart,
         NEW c \in Range(spec.contexts), ~StartsWith(c.name, "__")
  PROVE  c.name \in AllContexts(files)
<1> DEFINE p == InContext(c, <<>>, "__init__")
           package == Write(p, <<>>)
<1>1. spec \in Specs /\ WellTyped(spec) /\ SnakeTyped(spec)
  BY SpecsTyped DEF IInv
<1>2. package \in Range(Writes(spec)) /\ package.path = p
  <2>1. TypedContext(c) /\ Range(EmitContext(c, spec.web)) \subseteq Range(Writes(spec))
    BY <1>1, ContextIsWritten
  <2>2. package \in Range(EmitContext(c, spec.web))
    BY <2>1, PartsAreWritten
  <2> QED BY <2>1, <2>2 DEF Write
<1> HIDE DEF package
<1>3. p \in DOMAIN files
  BY <1>1, <1>2, FreshFile
<1> DEFINE dirs == <<>>
<1>4. IsList(dirs) /\ Len(dirs) = 0 /\ p = InContext(c, dirs, "__init__")
  BY ShortLists
<1> HIDE DEF dirs, p
<1>5. IsList(p) /\ Len(p) = 5 /\ p[1] = "src" /\ p[2] = "contexts" /\ p[3] = c.name
  <2>1. IsList(dirs)
    BY <1>4
  <2>2. /\ IsList(p) /\ Len(p) = Len(dirs) + 5
        /\ p[1] = "src" /\ p[2] = "contexts" /\ p[3] = c.name
        /\ \A k \in 1..Len(dirs) : p[3 + k] = dirs[k]
        /\ p[Len(p)] = "py"
    <3>1. p = InContext(c, dirs, "__init__")
      BY <1>4
    <3> QED BY <2>1, <3>1, ContextPathParts
  <2> QED BY <1>4, <2>2
<1>6. IsPrefix(<<"src", "contexts">>, p) /\ Len(p) > 4
  <2>1. /\ IsPrefix(<<"src", "contexts">>, p) <=> Len(p) >= 2 /\ p[1] = "src" /\ p[2] = "contexts"
        /\ IsPrefix(<<"src", "contexts", c.name, "domain">>, p) <=>
             Len(p) >= 4 /\ p[1] = "src" /\ p[2] = "contexts" /\ p[3] = c.name /\ p[4] = "domain"
    BY <1>5, PathPrefixes
  <2> QED BY <1>5, <2>1
<1> QED
  BY <1>3, <1>5, <1>6 DEF AllContexts

\* A tree fresh from scaffold that passes is of a spec whose names are apart.
LEMMA FreshPassNow ==
  ASSUME \A s \in STRING : IsList(s),
         IInv, Checked, Passes, files = Generated[spec], spec \in PathsApart
  PROVE  spec \in NamesApart
<1> DEFINE scanned == {c \in Range(spec.contexts) : ~StartsWith(c.name, "__")}
           all == AllContexts(files)
           core == {x \in scanned : Aggregates(x) # <<>> \/ x.decision_tables # <<>>}
<1>1. spec \in Specs /\ WellTyped(spec) /\ SnakeTyped(spec)
  BY SpecsTyped DEF IInv
<1>2. \A c \in Range(spec.contexts) : c.name \in STRING
  BY <1>1 DEF WellTyped
<1>3. \A c \in scanned : c.name \in all
  BY FreshContexts
<1>4. \A c \in scanned : TypedContext(c)
  BY <1>1, ContextIsWritten
<1> DEFINE named == {c.name : c \in scanned}
<1>5. named \subseteq all /\ \A other \in named : other \in STRING
  BY <1>2, <1>3
<1> HIDE DEF all
<1>6. ASSUME NEW c \in scanned, NEW last \in STRING,
             ~DomainForbids(all, c.name, Dotted(<<"contexts", c.name, "domain", last>>))
      PROVE  /\ \A f \in ForbiddenImports : ~Occurs(f, "." \o c.name) /\ ~Occurs(f, "." \o last)
             /\ \A other \in named :
                  other # c.name => ~Occurs("contexts." \o other, ("contexts." \o c.name) \o ".domain")
  <2> DEFINE module == Dotted(<<"contexts", c.name, "domain", last>>)
  <2> HIDE DEF named, scanned, module
  <2>1. ~DomainForbids(named, c.name, module)
    BY <1>5, <1>6 DEF DomainForbids, module
  <2>2. c.name \in STRING
    BY <1>2 DEF scanned
  <2> QED BY <1>5, <2>1, <2>2, AllowedImportIsApart DEF module
<1>7. ASSUME NEW c \in scanned, NEW d \in Range(Aggregates(c))
      PROVE  /\ \A f \in ForbiddenImports :
                  ~Occurs(f, "." \o c.name) /\ ~Occurs(f, "." \o (Snake[d.name] \o "_state"))
             /\ \A other \in named :
                  other # c.name => ~Occurs("contexts." \o other, ("contexts." \o c.name) \o ".domain")
  <2> DEFINE last == Snake[d.name] \o "_state"
             head == <<"aggregate", d.name, c.name, d.states[1]>>
             line == Importing(head, {Own(c, <<"domain", last>>), Own(c, <<"domain", "exceptions">>)})
             block == ImplBlock(<<"only here">>,
                        <<Plain(<<"rules", d.guards, d.invariants, d.relationship_invariants>>)>>)
  <2>1. /\ Write(DomainFile(c, Snake[d.name]), AggregateClass(c, d)) \in Range(Writes(spec))
        /\ d \in Range(c.domains)
    BY <1>1, AggregateIsWritten
  <2>2. last \in STRING
    BY <1>1, <2>1 DEF SnakeTyped
  <2>3. AggregateClass(c, d) = <<line>> \o block
    BY DEF AggregateClass
  <2>4. Own(c, <<"domain", last>>) \in line.imports
    BY DEF Importing, Line
  <2> HIDE DEF last, line
  <2>5. line \in Range(AggregateClass(c, d))
    <3>1. IsList(block)
      <4>1. LegalLines(<<Plain(<<"rules", d.guards, d.invariants, d.relationship_invariants>>)>>)
        BY LegalOneLine
      <4>2. LegalLines(block)
        BY <4>1, LegalImplBlock
      <4> QED BY <4>2 DEF LegalLines
    <3> HIDE DEF block
    <3> QED BY <2>3, <3>1, ShortLists, ListConcat
  <2>6. Parses(AggregateClass(c, d))
    <3>1. <<"evaluator">>[1] = "evaluator"
      OBVIOUS
    <3> QED BY <3>1, GeneratedParses
  <2>7. ~DomainForbids(all, c.name, Dotted(<<"contexts", c.name, "domain", last>>))
    BY <2>1, <2>4, <2>5, <2>6, FreshImportIsAllowed DEF all
  <2> QED BY <1>6, <2>2, <2>7 DEF last
<1>8. ASSUME NEW c \in scanned, NEW t \in Range(c.decision_tables)
      PROVE  /\ \A f \in ForbiddenImports : ~Occurs(f, "." \o c.name)
             /\ \A other \in named :
                  other # c.name => ~Occurs("contexts." \o other, ("contexts." \o c.name) \o ".domain")
  <2> DEFINE slug == TableSlug(t)
             text == <<"evaluator", c.name, slug, t.id, t.kind, Columns(t)>>
             import == Own(c, <<"domain", "exceptions">>)
             line == Importing(text, {import})
  <2>1. Write(DomainFile(c, slug \o "_table"), <<line>>) \in Range(Writes(spec))
    BY <1>1, EvaluatorIsWritten
  <2>2. text[1] = "evaluator"
    OBVIOUS
  <2>3. import \in line.imports
    BY DEF Importing, Line
  <2> HIDE DEF text, slug
  <2>4. Parses(<<line>>)
    BY <2>2, GeneratedParses
  <2> HIDE DEF line
  <2>5. line \in Range(<<line>>)
    BY ShortLists
  <2>6. ~DomainForbids(all, c.name, Dotted(<<"contexts", c.name, "domain", "exceptions">>))
    BY <2>1, <2>3, <2>4, <2>5, FreshImportIsAllowed DEF all
  <2>7. "exceptions" \in STRING
    BY WordsAreStrings
  <2> QED BY <1>6, <2>6, <2>7
<1>9. ASSUME NEW c \in core
      PROVE  /\ \A f \in ForbiddenImports :
                  /\ ~Occurs(f, "." \o c.name)
                  /\ \A d \in Range(Aggregates(c)) : ~Occurs(f, "." \o (Snake[d.name] \o "_state"))
             /\ \A other \in scanned :
                  other.name # c.name =>
                    ~Occurs("contexts." \o other.name, ("contexts." \o c.name) \o ".domain")
  <2>1. \E x : x \in Range(Aggregates(c)) \/ x \in Range(c.decision_tables)
    <3>1. IsList(Aggregates(c)) /\ IsList(c.decision_tables)
      BY <1>4, AggregatesAreDomains DEF TypedContext
    <3>2. \A s : IsList(s) /\ s # <<>> => s[1] \in Range(s)
      <4> SUFFICES ASSUME NEW s, IsList(s), s # <<>>
                   PROVE  s[1] \in Range(s)
        OBVIOUS
      <4>1. 1 \in DOMAIN s
        BY ListShape DEF IsList
      <4> QED BY <4>1 DEF Range
    <3> QED BY <3>1, <3>2
  <2>2. /\ \A f \in ForbiddenImports : ~Occurs(f, "." \o c.name)
        /\ \A other \in named :
             other # c.name => ~Occurs("contexts." \o other, ("contexts." \o c.name) \o ".domain")
    BY <1>7, <1>8, <2>1
  <2> QED BY <1>7, <2>2
<1> QED
  BY <1>1, <1>9 DEF NamesApart

-----------------------------------------------------------------------------
(* A tree whose names are apart passes.                                    *)

\* The word stands in the name behind its first i characters.
StandsAt(word, name, i) ==
  i \in 0..(Len(name) - Len(word)) /\ \A k \in 1..Len(word) : name[i + k] = word[k]

\* To occur is to stand somewhere.
LEMMA OccursIsStanding ==
  ASSUME NEW word, NEW name, IsList(word), IsList(name)
  PROVE  Occurs(word, name) <=> \E i \in Nat : StandsAt(word, name, i)
<1>1. Len(word) \in Nat /\ Len(name) \in Nat /\ name \in Seq(Range(name))
  BY ListShape
<1>2. ASSUME NEW i \in 0..(Len(name) - Len(word))
      PROVE  SubSeq(name, i + 1, i + Len(word)) = word <=> StandsAt(word, name, i)
  <2> DEFINE part == SubSeq(name, i + 1, i + Len(word))
  <2>1. /\ part \in Seq(Range(name)) /\ Len(part) = Len(word)
        /\ \A k \in 1..Len(word) : part[k] = name[i + k]
    <3>1. i + 1 \in 1..(Len(name) + 1) /\ i + Len(word) \in i..Len(name)
      BY <1>1
    <3>2. /\ part \in Seq(Range(name)) /\ Len(part) = (i + Len(word)) - (i + 1) + 1
          /\ \A k \in 1..Len(part) : part[k] = name[i + 1 + k - 1]
      BY <1>1, <3>1
    <3>3. Len(part) = Len(word) /\ \A k \in 1..Len(word) : i + 1 + k - 1 = i + k
      BY <1>1, <3>2
    <3> QED BY <3>2, <3>3
  <2>2. IsList(part)
    BY <2>1, SeqIsList
  <2> HIDE DEF part
  <2>3. part = word <=> \A k \in 1..Len(word) : part[k] = word[k]
    BY <2>1, <2>2, ListEqual
  <2>4. part = word <=> \A k \in 1..Len(word) : name[i + k] = word[k]
    BY <2>1, <2>3
  <2> QED BY <1>2, <2>4 DEF part, StandsAt
<1>3. \A i : StandsAt(word, name, i) => i \in 0..(Len(name) - Len(word)) /\ i \in Nat
  BY <1>1 DEF StandsAt
<1> QED
  BY <1>1, <1>2, <1>3 DEF Occurs

\* A character of a word that is not the dot.
LEMMA OtherCharacter ==
  ASSUME NEW dot, IsList(dot), Len(dot) = 1, NEW word, IsList(word),
         NEW k \in 1..Len(word), SubSeq(word, k, k) # dot
  PROVE  word[k] # dot[1]
<1> DEFINE part == SubSeq(word, k, k)
<1>1. Len(word) \in Nat /\ word \in Seq(Range(word))
  BY ListShape
<1>2. part \in Seq(Range(word)) /\ Len(part) = 1 /\ part[1] = word[k]
  BY <1>1
<1>3. IsList(part)
  BY <1>2, SeqIsList
<1> HIDE DEF part
<1>4. ASSUME word[k] = dot[1]
      PROVE  part = dot
  <2>1. \A j \in 1..Len(part) : part[j] = dot[j]
    BY <1>2, <1>4
  <2> QED BY <1>2, <1>3, <2>1, ListEqual
<1> QED
  BY <1>4 DEF part

\* What the first character of the dot and what is behind it become.
LEMMA DotJoins ==
  ASSUME NEW y, IsList(y), NEW dot, IsList(dot)
  PROVE  Len(dot) = 1 =>
           /\ IsList(dot \o y) /\ Len(dot \o y) = 1 + Len(y) /\ (dot \o y)[1] = dot[1]
           /\ \A k \in 1..Len(y) : (dot \o y)[1 + k] = y[k]
<1>1. /\ IsList(dot \o y) /\ Range(dot \o y) = Range(dot) \cup Range(y)
      /\ Len(dot \o y) = Len(dot) + Len(y)
      /\ \A k \in 1..Len(dot) : (dot \o y)[k] = dot[k]
      /\ \A k \in 1..Len(y) : (dot \o y)[Len(dot) + k] = y[k]
  BY ListConcat
<1>2. 1 \in 1..1
  OBVIOUS
<1> QED
  BY <1>1, <1>2

\* A word whose only dot may be its first character occurs in one of the parts
\* that a dot joins, the dot counted to the second.
LEMMA WordIsInOnePart ==
  ASSUME NEW dot, IsList(dot), Len(dot) = 1, NEW f, IsList(f),
         \A k \in 2..Len(f) : f[k] # dot[1],
         NEW a, IsList(a), NEW b, IsList(b), Occurs(f, a \o (dot \o b))
  PROVE  Occurs(f, a) \/ Occurs(f, dot \o b)
<1> DEFINE t == dot \o b
           name == a \o t
<1>1. IsList(t) /\ Len(t) = 1 + Len(b) /\ t[1] = dot[1]
  BY DotJoins
<1> HIDE DEF t
<1>2. /\ IsList(name) /\ Range(name) = Range(a) \cup Range(t) /\ Len(name) = Len(a) + Len(t)
      /\ \A k \in 1..Len(a) : name[k] = a[k]
      /\ \A k \in 1..Len(t) : name[Len(a) + k] = t[k]
  <2>1. IsList(t)
    BY <1>1
  <2> QED BY <2>1, ListConcat
<1> HIDE DEF name
<1>3. Len(a) \in Nat /\ Len(f) \in Nat /\ Len(t) \in Nat /\ Len(t) > 0
  BY <1>1, ListShape
<1>4. PICK i \in Nat : StandsAt(f, name, i)
  BY <1>2, OccursIsStanding DEF name, t
<1>5. i \in 0..(Len(name) - Len(f)) /\ \A k \in 1..Len(f) : name[i + k] = f[k]
  BY <1>4 DEF StandsAt
<1>6. CASE i + Len(f) <= Len(a)
  <2>1. i \in 0..(Len(a) - Len(f))
    BY <1>3, <1>6
  <2>2. \A k \in 1..Len(f) : i + k \in 1..Len(a)
    BY <1>3, <1>6
  <2>3. StandsAt(f, a, i)
    BY <1>2, <1>5, <2>1, <2>2 DEF StandsAt
  <2> QED BY <2>3, OccursIsStanding
<1>7. CASE Len(a) <= i
  <2> DEFINE j == i - Len(a)
  <2>1. j \in Nat /\ j \in 0..(Len(t) - Len(f))
    BY <1>2, <1>3, <1>5, <1>7
  <2>2. \A k \in 1..Len(f) : j + k \in 1..Len(t) /\ Len(a) + (j + k) = i + k
    BY <1>2, <1>3, <1>5, <1>7
  <2>3. StandsAt(f, t, j)
    BY <1>2, <1>5, <2>1, <2>2 DEF StandsAt
  <2> QED BY <1>1, <2>1, <2>3, OccursIsStanding DEF t
<1>8. CASE i < Len(a) /\ Len(a) < i + Len(f)
  <2> DEFINE k == (Len(a) + 1) - i
  <2>1. k \in 2..Len(f) /\ k \in 1..Len(f) /\ i + k = Len(a) + 1
    BY <1>3, <1>8
  <2>2. f[k] = name[Len(a) + 1]
    BY <1>5, <2>1
  <2>3. name[Len(a) + 1] = t[1]
    BY <1>2, <1>3
  <2> QED BY <1>1, <2>1, <2>2, <2>3
<1> QED
  BY <1>3, <1>6, <1>7, <1>8

\* A word that is longer by v than the beginning of a name leaves v for the
\* rest of the name.
LEMMA EndIsInTheRest ==
  ASSUME NEW a, IsList(a), NEW v, IsList(v), NEW b, IsList(b), Occurs(a \o v, a \o b)
  PROVE  Occurs(v, b)
<1> DEFINE word == a \o v
           name == a \o b
<1>1. /\ IsList(word) /\ Len(word) = Len(a) + Len(v)
      /\ \A k \in 1..Len(v) : word[Len(a) + k] = v[k]
  BY ListConcat
<1>2. /\ IsList(name) /\ Len(name) = Len(a) + Len(b)
      /\ \A k \in 1..Len(b) : name[Len(a) + k] = b[k]
  BY ListConcat
<1> HIDE DEF word, name
<1>3. Len(a) \in Nat /\ Len(v) \in Nat /\ Len(b) \in Nat
  BY ListShape
<1>4. PICK i \in Nat : StandsAt(word, name, i)
  BY <1>1, <1>2, OccursIsStanding DEF word, name
<1>5. i \in 0..(Len(name) - Len(word)) /\ \A k \in 1..Len(word) : name[i + k] = word[k]
  BY <1>4 DEF StandsAt
<1>6. i \in 0..(Len(b) - Len(v))
  BY <1>1, <1>2, <1>3, <1>5
<1>7. ASSUME NEW k \in 1..Len(v)
      PROVE  b[i + k] = v[k]
  <2>1. /\ Len(a) + k \in 1..Len(word) /\ i + k \in 1..Len(b)
        /\ i + (Len(a) + k) = Len(a) + (i + k)
    BY <1>1, <1>3, <1>6
  <2>2. name[i + (Len(a) + k)] = word[Len(a) + k]
    BY <1>5, <2>1
  <2> QED BY <1>1, <1>2, <2>1, <2>2
<1>8. StandsAt(v, b, i)
  BY <1>6, <1>7 DEF StandsAt
<1> QED
  BY <1>8, OccursIsStanding

\* A word of two parts, joined by its only dot, that occurs in three.  If the
\* first is longer than the second of the name it occurs in the first two.
LEMMA PairIsInTheFront ==
  ASSUME NEW dot, IsList(dot), Len(dot) = 1, NEW w, IsList(w), NEW x, IsList(x),
         NEW q, IsList(q), NEW r, IsList(r), NEW s, IsList(s),
         \A k \in 1..Len(w) : w[k] # dot[1],
         \A k \in 1..Len(x) : x[k] # dot[1],
         \A k \in 1..Len(s) : s[k] # dot[1],
         Len(r) < Len(w),
         Occurs(w \o (dot \o x), (q \o (dot \o r)) \o (dot \o s))
  PROVE  Occurs(w \o (dot \o x), q \o (dot \o r))
<1> DEFINE dx == dot \o x
           dr == dot \o r
           ds == dot \o s
           word == w \o dx
           p == q \o dr
           name == p \o ds
<1>1. \A y : IsList(y) =>
        /\ IsList(dot \o y) /\ Len(dot \o y) = 1 + Len(y) /\ (dot \o y)[1] = dot[1]
        /\ \A k \in 1..Len(y) : (dot \o y)[1 + k] = y[k]
  BY DotJoins
<1>2. /\ IsList(dx) /\ Len(dx) = 1 + Len(x) /\ dx[1] = dot[1]
      /\ \A k \in 1..Len(x) : dx[1 + k] = x[k]
  BY <1>1
<1>3. /\ IsList(dr) /\ Len(dr) = 1 + Len(r) /\ dr[1] = dot[1]
  BY <1>1
<1>4. /\ IsList(ds) /\ Len(ds) = 1 + Len(s) /\ ds[1] = dot[1]
      /\ \A k \in 1..Len(s) : ds[1 + k] = s[k]
  BY <1>1
<1> HIDE DEF dx, dr, ds
<1>5. /\ IsList(word) /\ Range(word) = Range(w) \cup Range(dx) /\ Len(word) = Len(w) + Len(dx)
      /\ \A k \in 1..Len(w) : word[k] = w[k]
      /\ \A k \in 1..Len(dx) : word[Len(w) + k] = dx[k]
  <2>1. IsList(dx)
    BY <1>2
  <2> QED BY <2>1, ListConcat
<1>6. /\ IsList(p) /\ Range(p) = Range(q) \cup Range(dr) /\ Len(p) = Len(q) + Len(dr)
      /\ \A k \in 1..Len(q) : p[k] = q[k]
      /\ \A k \in 1..Len(dr) : p[Len(q) + k] = dr[k]
  <2>1. IsList(dr)
    BY <1>3
  <2> QED BY <2>1, ListConcat
<1> HIDE DEF word, p
<1>7. /\ IsList(name) /\ Range(name) = Range(p) \cup Range(ds) /\ Len(name) = Len(p) + Len(ds)
      /\ \A k \in 1..Len(p) : name[k] = p[k]
      /\ \A k \in 1..Len(ds) : name[Len(p) + k] = ds[k]
  <2>1. IsList(p) /\ IsList(ds)
    BY <1>4, <1>6
  <2> QED BY <2>1, ListConcat
<1> HIDE DEF name
<1>8. Len(w) \in Nat /\ Len(x) \in Nat /\ Len(q) \in Nat /\ Len(r) \in Nat /\ Len(s) \in Nat
  BY ListShape
<1>9. PICK i \in Nat : StandsAt(word, name, i)
  BY <1>5, <1>7, OccursIsStanding DEF word, name, p, dx, dr, ds
<1>10. i \in 0..(Len(name) - Len(word)) /\ \A k \in 1..Len(word) : name[i + k] = word[k]
  BY <1>9 DEF StandsAt
<1>11. name[Len(p) + 1] = dot[1] /\ name[Len(q) + 1] = dot[1]
  <2>1. 1 \in 1..Len(ds) /\ 1 \in 1..Len(dr) /\ Len(q) + 1 \in 1..Len(p)
    BY <1>3, <1>4, <1>6, <1>8
  <2> QED BY <1>3, <1>4, <1>6, <1>7, <2>1
<1>12. CASE i + Len(word) <= Len(p)
  <2>1. i \in 0..(Len(p) - Len(word))
    BY <1>2, <1>3, <1>5, <1>6, <1>8, <1>12
  <2>2. \A k \in 1..Len(word) : i + k \in 1..Len(p)
    BY <1>2, <1>3, <1>5, <1>6, <1>8, <1>12
  <2>3. StandsAt(word, p, i)
    BY <1>7, <1>10, <2>1, <2>2 DEF StandsAt
  <2>4. Occurs(word, p)
    BY <1>5, <1>6, <2>3, OccursIsStanding
  <2> QED BY <2>4 DEF word, p, dx, dr
<1>13. CASE Len(p) < i + Len(word)
  <2>1. name[i + (Len(w) + 1)] = dot[1]
    <3>1. Len(w) + 1 \in 1..Len(word) /\ 1 \in 1..Len(dx)
      BY <1>2, <1>5, <1>8
    <3> QED BY <1>2, <1>5, <1>10, <3>1
  <2>2. i + (Len(w) + 1) <= Len(p) + 1
    <3> SUFFICES ASSUME ~(i + (Len(w) + 1) <= Len(p) + 1)
                 PROVE  FALSE
      OBVIOUS
    <3> DEFINE k == (i + Len(w)) - Len(p)
    <3>1. /\ k \in 1..Len(s) /\ 1 + k \in 1..Len(ds)
          /\ Len(p) + (1 + k) = i + (Len(w) + 1)
      <4>1. Len(p) \in Nat /\ Len(ds) = 1 + Len(s)
        BY <1>3, <1>4, <1>6, <1>8
      <4>2. i + (Len(w) + (1 + Len(x))) <= Len(p) + (1 + Len(s))
        BY <1>2, <1>4, <1>5, <1>7, <1>10
      <4> QED BY <1>8, <4>1, <4>2
    <3>2. name[Len(p) + (1 + k)] = ds[1 + k] /\ ds[1 + k] = s[k]
      BY <1>4, <1>7, <3>1
    <3>3. s[k] # dot[1]
      BY <3>1
    <3> QED BY <2>1, <3>1, <3>2, <3>3
  <2>3. i + (Len(w) + 1) >= Len(p) + 1
    <3> SUFFICES ASSUME i + (Len(w) + 1) < Len(p) + 1
                 PROVE  FALSE
      OBVIOUS
    <3> DEFINE k == (Len(p) - i) - Len(w)
    <3>1. /\ k \in 1..Len(x) /\ 1 + k \in 1..Len(dx) /\ Len(w) + (1 + k) \in 1..Len(word)
          /\ i + (Len(w) + (1 + k)) = Len(p) + 1
      BY <1>2, <1>3, <1>5, <1>6, <1>8, <1>10, <1>13
    <3>2. /\ name[i + (Len(w) + (1 + k))] = word[Len(w) + (1 + k)]
          /\ word[Len(w) + (1 + k)] = dx[1 + k] /\ dx[1 + k] = x[k]
      BY <1>2, <1>5, <1>10, <3>1
    <3>3. x[k] # dot[1]
      BY <3>1
    <3> QED BY <1>11, <3>1, <3>2, <3>3
  <2>4. i + Len(w) = Len(p)
    <3>1. Len(p) \in Nat
      BY <1>3, <1>6, <1>8
    <3> QED BY <1>8, <2>2, <2>3, <3>1
  <2> DEFINE k == (Len(q) + 1) - i
  <2>5. k \in 1..Len(w) /\ k \in 1..Len(word) /\ i + k = Len(q) + 1
    BY <1>2, <1>3, <1>5, <1>6, <1>8, <2>4
  <2>6. name[Len(q) + 1] = w[k]
    BY <1>5, <1>10, <2>5
  <2>7. w[k] # dot[1]
    BY <2>5
  <2> QED BY <1>11, <2>6, <2>7
<1>14. Len(p) \in Nat /\ Len(word) \in Nat
  BY <1>2, <1>3, <1>5, <1>6, <1>8
<1> QED
  BY <1>12, <1>13, <1>14

\* The parts of an import of the context's own.
LEMMA OwnParts ==
  ASSUME NEW front, IsList(front), NEW rest, IsList(rest)
  PROVE  Len(front) = 2 =>
           /\ IsList(front \o rest) /\ Len(front \o rest) = 2 + Len(rest)
           /\ (front \o rest)[1] = front[1] /\ (front \o rest)[2] = front[2]
           /\ \A k \in 1..Len(rest) : (front \o rest)[2 + k] = rest[k]
<1>1. /\ IsList(front \o rest) /\ Range(front \o rest) = Range(front) \cup Range(rest)
      /\ Len(front \o rest) = Len(front) + Len(rest)
      /\ \A k \in 1..Len(front) : (front \o rest)[k] = front[k]
      /\ \A k \in 1..Len(rest) : (front \o rest)[Len(front) + k] = rest[k]
  BY ListConcat
<1>2. 1 \in 1..2 /\ 2 \in 1..2
  OBVIOUS
<1> QED
  BY <1>1, <1>2

\* The name that the import of a module of the context's own shows, by the number
\* of parts behind the context's name.
ShowsParts(c, rest, dot) ==
  LET two == ("contexts" \o dot) \o c.name
      three == two \o (dot \o rest[1])
      four == three \o (dot \o rest[2])
      five == four \o (dot \o rest[3])
  IN  /\ IsList(two)
      /\ Len(rest) = 1 => Own(c, rest).seen = three
      /\ Len(rest) = 2 => Own(c, rest).seen = four
      /\ Len(rest) = 3 => Own(c, rest).seen = five

LEMMA OwnIsDotted ==
  ASSUME NEW dot, dot = ".", IsList(dot), IsList("contexts"), NEW c, IsList(c.name),
         NEW rest, IsList(rest), Len(rest) \in 1..3, \A k \in 1..Len(rest) : IsList(rest[k])
  PROVE  ShowsParts(c, rest, dot)
<1> DEFINE N == Len(rest)
           two == ("contexts" \o dot) \o c.name
           three == two \o (dot \o rest[1])
           four == three \o (dot \o rest[2])
           five == four \o (dot \o rest[3])
<1>0. /\ N \in 1..3 /\ Len(rest) = N /\ \A k \in 1..N : IsList(rest[k])
      /\ two = ("contexts" \o dot) \o c.name
      /\ three = two \o (dot \o rest[1])
      /\ four = three \o (dot \o rest[2])
      /\ five = four \o (dot \o rest[3])
  OBVIOUS
<1> HIDE DEF N, two, three, four, five
<1> SUFFICES /\ IsList(two)
             /\ N = 1 => Own(c, rest).seen = three
             /\ N = 2 => Own(c, rest).seen = four
             /\ N = 3 => Own(c, rest).seen = five
  BY DEF ShowsParts, N, two, three, four, five
<1> USE <1>0
<1> DEFINE front == <<"contexts", c.name>>
           module == front \o rest
<1>1. IsList(front) /\ Len(front) = 2 /\ front[1] = "contexts" /\ front[2] = c.name
  BY ShortLists
<1>2. Own(c, rest).seen = Dotted(module)
  BY DEF Own, Import
<1> HIDE DEF front
<1>3. /\ IsList(front \o rest) /\ Len(front \o rest) = 2 + Len(rest)
      /\ (front \o rest)[1] = front[1] /\ (front \o rest)[2] = front[2]
      /\ \A k \in 1..Len(rest) : (front \o rest)[2 + k] = rest[k]
  BY <1>1, OwnParts
<1>4. /\ IsList(module) /\ Len(module) = 2 + N
      /\ module[1] = "contexts" /\ module[2] = c.name
      /\ \A k \in 1..N : module[2 + k] = rest[k]
  BY <1>1, <1>3
<1> HIDE DEF module
<1>5. module # <<>>
  <2>1. Len(module) # 0
    BY <1>4
  <2> QED BY <2>1, ShortLists
<1>6. PICK joined : IsJoined(joined, module, ".") /\ Dotted(module) = joined[Len(module)]
  BY <1>4, <1>5, DottedJoins
<1>7. /\ joined[1] = module[1] /\ Own(c, rest).seen = joined[2 + N]
      /\ \A n \in 2..(2 + N) : joined[n] = (joined[n - 1] \o dot) \o module[n]
  BY <1>2, <1>4, <1>6 DEF IsJoined
<1>8. joined[2] = two
  <2>1. 2 \in 2..(2 + N) /\ 2 - 1 = 1
    OBVIOUS
  <2> QED BY <1>4, <1>7, <2>1
<1>9. IsList(two)
  <2> DEFINE part == c.name
             word == "contexts"
  <2>1. IsList(part) /\ IsList(word) /\ two = (word \o dot) \o part
    OBVIOUS
  <2> HIDE DEF part, word
  <2>2. IsList(word \o (dot \o part)) /\ (word \o dot) \o part = word \o (dot \o part)
    BY <2>1, OneMorePart
  <2> QED BY <2>1, <2>2
<1>10. ASSUME NEW k \in 1..N, IsList(joined[1 + k])
       PROVE  joined[2 + k] = joined[1 + k] \o (dot \o rest[k]) /\ IsList(joined[2 + k])
  <2>1. 2 + k \in 2..(2 + N) /\ (2 + k) - 1 = 1 + k
    OBVIOUS
  <2> DEFINE part == rest[k]
             f == joined[1 + k]
  <2>2. joined[2 + k] = (f \o dot) \o part
    BY <1>4, <1>7, <2>1
  <2>3. IsList(part) /\ IsList(f)
    BY <1>10
  <2> HIDE DEF part, f
  <2>4. IsList(f \o (dot \o part)) /\ (f \o dot) \o part = f \o (dot \o part)
    BY <2>3, OneMorePart
  <2> QED BY <2>2, <2>4 DEF part, f
<1>11. /\ 1 \in 1..N
       /\ N > 1 => 2 \in 1..N
       /\ N > 2 => N > 1 /\ 3 \in 1..N
       /\ N = 2 => N > 1
       /\ N = 3 => N > 2
  OBVIOUS
<1>12. joined[3] = three /\ IsList(three)
  <2>1. 1 + 1 = 2 /\ 2 + 1 = 3
    OBVIOUS
  <2>2. joined[3] = joined[2] \o (dot \o rest[1]) /\ IsList(joined[3])
    BY <1>8, <1>9, <1>10, <1>11, <2>1
  <2>3. joined[3] = three
    BY <1>8, <2>2
  <2> QED BY <2>2, <2>3
<1>13. ASSUME N > 1
       PROVE  joined[4] = four /\ IsList(four)
  <2>1. 1 + 2 = 3 /\ 2 + 2 = 4 /\ 2 \in 1..N
    BY <1>11, <1>13
  <2>2. joined[4] = joined[3] \o (dot \o rest[2]) /\ IsList(joined[4])
    BY <1>10, <1>12, <2>1
  <2>3. joined[4] = four
    BY <1>12, <2>2
  <2> QED BY <2>2, <2>3
<1>14. ASSUME N > 2
       PROVE  joined[5] = five
  <2>1. 1 + 3 = 4 /\ 2 + 3 = 5 /\ 3 \in 1..N /\ N > 1
    BY <1>11, <1>14
  <2>2. joined[5] = joined[4] \o (dot \o rest[3])
    BY <1>10, <1>13, <2>1
  <2> QED BY <1>13, <2>1, <2>2
<1>15. 2 + 1 = 3 /\ 2 + 2 = 4 /\ 2 + 3 = 5
  OBVIOUS
<1> QED
  BY <1>7, <1>9, <1>11, <1>12, <1>13, <1>14, <1>15

\* A forbidden word that is in none of four parts is not in the name they make.
LEMMA WordInNoPart ==
  ASSUME NEW dot, IsList(dot), Len(dot) = 1, NEW f, IsList(f),
         \A k \in 2..Len(f) : f[k] # dot[1],
         NEW w, IsList(w), NEW x, IsList(x), NEW r, IsList(r), NEW s, IsList(s),
         ~Occurs(f, w), ~Occurs(f, dot \o x), ~Occurs(f, dot \o r), ~Occurs(f, dot \o s)
  PROVE  ~Occurs(f, (((w \o dot) \o x) \o (dot \o r)) \o (dot \o s))
<1> DEFINE two == (w \o dot) \o x
           three == two \o (dot \o r)
<1>1. IsList(w \o (dot \o x)) /\ two = w \o (dot \o x)
  BY OneMorePart
<1>2. ~Occurs(f, two)
  <2>1. Occurs(f, w \o (dot \o x)) => Occurs(f, w) \/ Occurs(f, dot \o x)
    BY WordIsInOnePart
  <2> QED BY <1>1, <2>1
<1>3. IsList(two)
  BY <1>1
<1> HIDE DEF two
<1>4. IsList(three)
  BY <1>3, OneMorePart
<1>5. ~Occurs(f, three)
  <2>1. Occurs(f, two \o (dot \o r)) => Occurs(f, two) \/ Occurs(f, dot \o r)
    BY <1>3, WordIsInOnePart
  <2> QED BY <1>2, <2>1
<1> HIDE DEF three
<1>6. Occurs(f, three \o (dot \o s)) => Occurs(f, three) \/ Occurs(f, dot \o s)
  BY <1>4, WordIsInOnePart
<1> QED
  BY <1>5, <1>6 DEF three, two

\* A word without a dot, character by character.
LEMMA DotlessWord ==
  ASSUME NEW dot, dot = ".", IsList(dot), Len(dot) = 1, NEW word, IsList(word)
  PROVE  /\ NoDot(word) => \A k \in 1..Len(word) : word[k] # dot[1]
         /\ (\A k \in 2..Len(word) : SubSeq(word, k, k) # ".")
            => \A k \in 2..Len(word) : word[k] # dot[1]
<1>1. \A k \in 1..Len(word) : SubSeq(word, k, k) # dot => word[k] # dot[1]
  BY OtherCharacter
<1>2. \A k \in 2..Len(word) : k \in 1..Len(word)
  BY ListShape
<1> QED
  BY <1>1, <1>2 DEF NoDot

\* The import of a module of the context's own domain is not forbidden, if
\* neither the context's name nor the module's holds a forbidden word, and no
\* other context's is its beginning.
LEMMA CoreImportAllowed ==
  ASSUME \A s \in STRING : IsList(s), NEW c, c.name \in STRING, NEW last \in STRING, NoDot(last),
         NEW all, \A other \in all : other \in STRING /\ NoDot(other),
         \A f \in ForbiddenImports : ~Occurs(f, "." \o c.name) /\ ~Occurs(f, "." \o last),
         \A other \in all :
           other # c.name => ~Occurs("contexts." \o other, ("contexts." \o c.name) \o ".domain")
  PROVE  ~DomainForbids(all, c.name, Own(c, <<"domain", last>>).seen)
<1> DEFINE dot == "."
           w == "contexts"
           r == "domain"
           x == c.name
           rest == <<"domain", last>>
           two == (w \o dot) \o x
           three == two \o (dot \o r)
           four == three \o (dot \o last)
           seen == Own(c, rest).seen
<1>1. /\ IsList(dot) /\ IsList(w) /\ IsList(r) /\ IsList(x) /\ IsList(last)
      /\ \A f \in ForbiddenImports : IsList(f)
      /\ \A other \in all : IsList(other)
  BY Spelling
<1>2. Len(dot) = 1 /\ Len(r) < Len(w) /\ dot = "." /\ w = "contexts"
  BY PackagesApart
<1>3. seen = four
  <2>1. IsList(rest) /\ Len(rest) = 2 /\ rest[1] = r /\ rest[2] = last
    BY ShortLists
  <2>2. \A k \in 1..Len(rest) : IsList(rest[k])
    <3>1. \A k \in 1..2 : k = 1 \/ k = 2
      OBVIOUS
    <3> HIDE DEF rest, r
    <3> QED BY <1>1, <2>1, <3>1
  <2>3. Len(rest) \in 1..3
    BY <2>1
  <2>4. IsList("contexts") /\ IsList(c.name)
    BY <1>1
  <2> HIDE DEF dot, rest
  <2>5. ShowsParts(c, rest, dot)
    BY <1>1, <1>2, <2>1, <2>2, <2>3, <2>4, OwnIsDotted
  <2> QED BY <2>1, <2>5 DEF ShowsParts
<1> HIDE DEF seen
<1>4. ASSUME NEW f \in ForbiddenImports
      PROVE  ~Occurs(f, seen)
  <2>1. /\ ~Occurs(f, w) /\ ~Occurs(f, dot \o x) /\ ~Occurs(f, dot \o r) /\ ~Occurs(f, dot \o last)
        /\ \A k \in 2..Len(f) : SubSeq(f, k, k) # "."
    BY Spelling, PackagesApart
  <2> HIDE DEF dot, w, r, x
  <2>2. \A k \in 2..Len(f) : f[k] # dot[1]
    BY <1>1, <1>2, <2>1, DotlessWord
  <2>3. ~Occurs(f, (((w \o dot) \o x) \o (dot \o r)) \o (dot \o last))
    BY <1>1, <1>2, <2>1, <2>2, WordInNoPart
  <2> QED BY <1>3, <2>3
<1>5. ASSUME NEW other \in all, other # c.name, Occurs("contexts." \o other, seen)
      PROVE  FALSE
  <2>1. "contexts." \o other = w \o (dot \o other)
    <3>1. "contexts." = w \o dot
      BY Spelling
    <3> HIDE DEF w, dot
    <3>2. (w \o dot) \o other = w \o (dot \o other)
      BY <1>1, OneMorePart
    <3> QED BY <3>1, <3>2
  <2>2. two = "contexts." \o c.name /\ dot \o r = ".domain" /\ NoDot(w) /\ NoDot(other) /\ NoDot(last)
    BY Spelling, PackagesApart
  <2> HIDE DEF dot, w, r, x
  <2>3. IsList(two)
    <3>1. IsList(w \o (dot \o x)) /\ two = w \o (dot \o x)
      BY <1>1, OneMorePart
    <3> QED BY <3>1
  <2> HIDE DEF two
  <2>4. Occurs(w \o (dot \o other), (two \o (dot \o r)) \o (dot \o last))
    BY <1>3, <1>5, <2>1
  <2>5. /\ \A k \in 1..Len(w) : w[k] # dot[1]
        /\ \A k \in 1..Len(other) : other[k] # dot[1]
        /\ \A k \in 1..Len(last) : last[k] # dot[1]
    BY <1>1, <1>2, <2>2, DotlessWord
  <2>6. Occurs(w \o (dot \o other), two \o (dot \o r))
    BY <1>1, <1>2, <2>3, <2>4, <2>5, PairIsInTheFront
  <2> QED BY <1>5, <2>1, <2>2, <2>6
<1> QED
  BY <1>4, <1>5 DEF DomainForbids, seen

\* What a web adapter imports of its own context is not its domain.
LEMMA WebImportAllowed ==
  ASSUME \A s \in STRING : IsList(s), NEW c, c.name \in STRING, NEW import \in WebImports(c)
  PROVE  ~WebForbids(c.name, import.seen)
<1> DEFINE dot == "."
           domain == ".domain"
           app == dot \o "application"
           adapters == dot \o "adapters"
           web == dot \o "web"
           two == ("contexts" \o dot) \o c.name
<1>1. /\ IsList(dot) /\ IsList("contexts") /\ IsList("domain") /\ IsList("application")
      /\ IsList("adapters") /\ IsList("web") /\ IsList("serializers") /\ IsList("views")
      /\ IsList(c.name) /\ dot = "."
  BY Spelling, WordsAreStrings
<1>2. IsList(domain)
  <2>1. IsList("." \o "domain")
    BY <1>1, ListConcat
  <2> QED BY <2>1, Spelling
<1>3. two \o domain = "contexts." \o c.name \o ".domain"
  BY Spelling
<1>4. IsList(two)
  <2> DEFINE word == "contexts"
             part == c.name
  <2>1. IsList(word) /\ IsList(part) /\ IsList(dot) /\ two = (word \o dot) \o part
    BY <1>1
  <2> HIDE DEF dot, word, part, two
  <2>2. IsList(word \o (dot \o part)) /\ (word \o dot) \o part = word \o (dot \o part)
    BY <2>1, OneMorePart
  <2> QED BY <2>1, <2>2
<1>5. IsList(app) /\ IsList(adapters) /\ IsList(web)
  BY <1>1, ListConcat
<1>6. \A rest : IsList(rest) /\ ~Occurs(domain, rest) => ~WebForbids(c.name, two \o rest)
  <2> HIDE DEF two, domain
  <2> SUFFICES ASSUME NEW rest, IsList(rest), Occurs(two \o domain, two \o rest)
               PROVE  Occurs(domain, rest)
    BY <1>3 DEF WebForbids
  <2> QED BY <1>2, <1>4, EndIsInTheRest
<1>7. CASE import = Own(c, <<"application">>)
  <2> DEFINE rest == <<"application">>
  <2>1. IsList(rest) /\ Len(rest) = 1 /\ rest[1] = "application"
    BY ShortLists
  <2> HIDE DEF rest, dot
  <2>2. Len(rest) \in 1..3 /\ \A k \in 1..Len(rest) : IsList(rest[k])
    <3>1. \A k \in 1..1 : k = 1
      OBVIOUS
    <3>2. 1 \in 1..3
      OBVIOUS
    <3> QED BY <1>1, <2>1, <3>1, <3>2
  <2>3. ShowsParts(c, rest, dot)
    BY <1>1, <2>1, <2>2, OwnIsDotted
  <2>4. Own(c, rest).seen = two \o app
    BY <2>1, <2>3 DEF ShowsParts
  <2>5. ~Occurs(domain, app)
    BY PackagesApart DEF dot
  <2> QED BY <1>5, <1>6, <1>7, <2>4, <2>5 DEF rest
<1>8. ASSUME NEW file \in {"serializers", "views"}, import = Own(c, <<"adapters", "web", file>>)
      PROVE  ~WebForbids(c.name, import.seen)
  <2> DEFINE rest == <<"adapters", "web", file>>
             last == dot \o file
             tail == adapters \o (web \o last)
  <2>1. /\ IsList(rest) /\ Len(rest) = 3
        /\ rest[1] = "adapters" /\ rest[2] = "web" /\ rest[3] = file
    BY LongerLists
  <2>2. IsList(file)
    BY <1>1
  <2>3. IsList(last)
    BY <1>1, <2>2, ListConcat
  <2>4. ~Occurs(domain, tail)
    BY PackagesApart
  <2> HIDE DEF rest, dot
  <2>5. Len(rest) \in 1..3 /\ \A k \in 1..Len(rest) : IsList(rest[k])
    <3>1. \A k \in 1..3 : k = 1 \/ k = 2 \/ k = 3
      OBVIOUS
    <3>2. 3 \in 1..3
      OBVIOUS
    <3> QED BY <1>1, <2>1, <2>2, <3>1, <3>2
  <2>6. ShowsParts(c, rest, dot)
    BY <1>1, <2>1, <2>5, OwnIsDotted
  <2>7. Own(c, rest).seen = ((two \o adapters) \o web) \o last
    BY <2>1, <2>6 DEF ShowsParts
  <2> HIDE DEF two, adapters, web, last, domain
  <2>8. IsList(two \o adapters) /\ IsList(web \o last)
    BY <1>4, <1>5, <2>3, ListConcat
  <2>9. ((two \o adapters) \o web) \o last = (two \o adapters) \o (web \o last)
    <3> DEFINE front == two \o adapters
    <3>1. IsList(front) /\ IsList(web) /\ IsList(last)
      BY <1>5, <2>3, <2>8
    <3> HIDE DEF front
    <3>2. (front \o web) \o last = front \o (web \o last)
      BY <3>1, ListConcatAssociative
    <3> QED BY <3>2 DEF front
  <2>10. (two \o adapters) \o (web \o last) = two \o tail
    <3> DEFINE end == web \o last
    <3>1. IsList(two) /\ IsList(adapters) /\ IsList(end)
      BY <1>4, <1>5, <2>8
    <3> HIDE DEF end
    <3>2. (two \o adapters) \o end = two \o (adapters \o end)
      BY <3>1, ListConcatAssociative
    <3> QED BY <3>2 DEF end
  <2>11. IsList(tail)
    BY <1>5, <2>8, ListConcat
  <2>12. ~WebForbids(c.name, two \o tail)
    BY <1>6, <2>4, <2>11
  <2> QED BY <1>8, <2>7, <2>9, <2>10, <2>12 DEF rest
<1> QED
  BY <1>7, <1>8 DEF WebImports

\* Every file of a tree is a write of its spec.
LEMMA FilesAreWrites ==
  ASSUME NEW s \in Specs
  PROVE  \A q \in DOMAIN Generated[s] :
           \E v \in Range(Writes(s)) : v.path = q /\ v.lines = Generated[s][q]
<1> DEFINE writes == Writes(s)
           tree == Generated[s]
<1>1. tree = WrittenTree(writes) /\ IsList(writes)
  BY GeneratedIsLegal DEF LegalWrites, WritesOf
<1> HIDE DEF writes, tree
<1>2. /\ DOMAIN WrittenTree(writes) = {v.path : v \in Range(writes)}
      /\ \A q \in DOMAIN WrittenTree(writes) :
           \E v \in Range(writes) : v.path = q /\ WrittenTree(writes)[q] = v.lines
  BY <1>1, WrittenLines
<1>3. \A q \in DOMAIN tree : \E v \in Range(writes) : v.path = q /\ v.lines = tree[q]
  BY <1>1, <1>2
<1> QED
  BY <1>3 DEF writes, tree

\* Every file of a fresh tree is a write of its spec, of no context or of one.
LEMMA FreshFileIsPlaced ==
  ASSUME IInv, files = Generated[spec], NEW p \in DOMAIN files, Len(p) > 4, p[1] = "src"
  PROVE  \E c \in Range(spec.contexts) : \E v : v.path = p /\ v.lines = files[p] /\ Placed(c, v)
<1>1. spec \in Specs /\ WellTyped(spec) /\ SnakeTyped(spec)
  BY SpecsTyped DEF IInv
<1>2. \A q \in DOMAIN Generated[spec] :
        \E v \in Range(Writes(spec)) : v.path = q /\ v.lines = Generated[spec][q]
  BY <1>1, FilesAreWrites
<1>3. PICK v \in Range(Writes(spec)) : v.path = p /\ v.lines = files[p]
  BY <1>2
<1>4. BelongsTo(spec, v)
  BY <1>1, EveryFileIsPlaced
<1>5. ~Elsewhere(v)
  <2>1. IsList(p)
    BY <1>1, GeneratedIsLegal DEF LegalTree
  <2>2. Len(p) \in Nat
    BY <2>1, ListShape
  <2>3. Len(p) # 4
    BY <2>2
  <2> QED BY <1>3, <2>3 DEF Elsewhere
<1> QED
  BY <1>3, <1>4, <1>5 DEF BelongsTo

\* A context that is found in a fresh tree is one of its spec.
LEMMA FoundContexts ==
  ASSUME IInv, files = Generated[spec], NEW other \in AllContexts(files)
  PROVE  /\ \E c \in Range(spec.contexts) : c.name = other /\ ~StartsWith(c.name, "__")
         /\ other \in STRING /\ NoDot(other)
<1>1. spec \in Specs /\ WellTyped(spec) /\ ValidSpec(spec)
  BY SpecsTyped, SpecsValid DEF IInv
<1>2. PICK q \in DOMAIN files : /\ IsPrefix(<<"src", "contexts">>, q) /\ Len(q) > 4
                                /\ ~StartsWith(q[3], "__") /\ q[3] = other
  BY DEF AllContexts
<1>3. IsList(q)
  BY <1>1, GeneratedIsLegal DEF LegalTree
<1>4. q[1] = "src"
  BY <1>2, <1>3, PathPrefixes
<1>5. PICK c \in Range(spec.contexts) : \E v : v.path = q /\ v.lines = files[q] /\ Placed(c, v)
  BY <1>2, <1>4, FreshFileIsPlaced
<1>6. q[3] = c.name
  BY <1>5 DEF Placed
<1>7. c.name \in STRING /\ c.name \in Identifiers
  BY <1>1 DEF WellTyped, ValidSpec, ValidContext, ValidIdent
<1> QED
  BY <1>2, <1>6, <1>7, NamesHaveNoDot

\* What a domain file of a spec with names apart imports is not forbidden.
LEMMA ApartImportIsAllowed ==
  ASSUME \A s \in STRING : IsList(s),
         IInv, files = Generated[spec], spec \in NamesApart,
         NEW c \in Range(spec.contexts), ~StartsWith(c.name, "__"), HasCore(c),
         NEW import \in CoreImports(c)
  PROVE  ~DomainForbids(AllContexts(files), c.name, import.seen)
<1> DEFINE all == AllContexts(files)
           apart(last) == \A f \in ForbiddenImports : ~Occurs(f, "." \o c.name) /\ ~Occurs(f, "." \o last)
<1>1. spec \in Specs /\ WellTyped(spec) /\ SnakeTyped(spec)
  BY SpecsTyped DEF IInv
<1>2. /\ \A f \in ForbiddenImports :
           /\ ~Occurs(f, "." \o c.name)
           /\ \A d \in Range(Aggregates(c)) : ~Occurs(f, "." \o (Snake[d.name] \o "_state"))
      /\ \A x \in Range(spec.contexts) : ~StartsWith(x.name, "__") /\ x.name # c.name =>
           ~Occurs("contexts." \o x.name, ("contexts." \o c.name) \o ".domain")
  BY DEF NamesApart, HasCore
<1>3. /\ \A other \in all : other \in STRING /\ NoDot(other)
      /\ \A other \in all :
           other # c.name => ~Occurs("contexts." \o other, ("contexts." \o c.name) \o ".domain")
  <2> SUFFICES ASSUME NEW other \in all
               PROVE  /\ other \in STRING /\ NoDot(other)
                      /\ other # c.name =>
                           ~Occurs("contexts." \o other, ("contexts." \o c.name) \o ".domain")
    OBVIOUS
  <2>1. /\ \E x \in Range(spec.contexts) : x.name = other /\ ~StartsWith(x.name, "__")
        /\ other \in STRING /\ NoDot(other)
    BY FoundContexts
  <2> QED BY <1>2, <2>1
<1>4. c.name \in STRING
  BY <1>1 DEF WellTyped
<1> HIDE DEF all
<1>5. ASSUME NEW last \in STRING, NoDot(last), apart(last)
      PROVE  ~DomainForbids(all, c.name, Own(c, <<"domain", last>>).seen)
  BY <1>3, <1>4, <1>5, CoreImportAllowed
<1>6. CASE import = Own(c, <<"domain", "exceptions">>)
  <2>1. "exceptions" \in STRING /\ NoDot("exceptions") /\ apart("exceptions")
    BY <1>2, WordsAreStrings, PackagesApart
  <2> HIDE DEF apart
  <2> QED BY <1>5, <1>6, <2>1 DEF all
<1>7. ASSUME NEW d \in Range(Aggregates(c)), import = Own(c, <<"domain", Snake[d.name] \o "_state">>)
      PROVE  ~DomainForbids(all, c.name, import.seen)
  <2> DEFINE last == Snake[d.name] \o "_state"
  <2>1. d \in Range(c.domains)
    <3>1. IsList(c.domains)
      BY <1>1 DEF WellTyped
    <3> QED BY <3>1, AggregatesAreDomains
  <2>2. last \in STRING /\ NoDot(last) /\ apart(last)
    BY <1>1, <1>2, <2>1, NamesHaveNoDot DEF SnakeTyped
  <2> HIDE DEF apart, last
  <2> QED BY <1>5, <1>7, <2>2 DEF last
<1> QED
  BY <1>6, <1>7 DEF CoreImports, all

\* A fresh tree of a spec whose names are apart passes.
LEMMA FreshApartNow ==
  ASSUME \A s \in STRING : IsList(s),
         IInv, Checked, files = Generated[spec], spec \in NamesApart
  PROVE  Passes
<1> DEFINE all == AllContexts(files)
<1>1. report = CheckProject(Generated[spec], files) /\ LegalTree(files)
  BY CheckedIsCurrent
<1>2. spec \in Specs /\ WellTyped(spec)
  BY SpecsTyped DEF IInv
<1>3. ASSUME NEW p, NEW m \in DomainImports(files[p])
      PROVE  \E l \in Range(files[p]) : \E i \in l.imports : m = i.seen
  BY <1>3 DEF DomainImports
<1>4. \A p \in DomainPython \cup WebPython :
        /\ p \in DOMAIN files /\ Len(p) > 4 /\ p[1] = "src" /\ ~StartsWith(p[3], "__")
        /\ p \in DomainPython => p[4] = "domain"
        /\ p \in WebPython => p[4] = "adapters"
  <2>1. \A p \in DOMAIN files : Len(p) > 5 => Len(p) > 4
    <3>1. \A p \in DOMAIN files : Len(p) \in Nat
      BY <1>1, ListShape DEF LegalTree
    <3> QED BY <3>1
  <2> QED BY <2>1 DEF DomainPython, WebPython, PythonIn
<1>5. ASSUME NEW p \in DomainPython, NEW m \in DomainImports(files[p])
      PROVE  ~DomainForbids(all, p[3], m)
  <2>1. PICK c \in Range(spec.contexts) : \E v : v.path = p /\ v.lines = files[p] /\ Placed(c, v)
    BY <1>4, FreshFileIsPlaced
  <2>2. /\ p[3] = c.name /\ ~StartsWith(c.name, "__")
        /\ \/ ImportsWithin(files[p], {})
           \/ HasCore(c) /\ ImportsWithin(files[p], CoreImports(c))
    BY <1>4, <2>1 DEF Placed
  <2>3. PICK l \in Range(files[p]) : \E i \in l.imports : m = i.seen
    BY <1>3
  <2>4. PICK i \in l.imports : m = i.seen
    BY <2>3
  <2>5. HasCore(c) /\ i \in CoreImports(c)
    BY <2>2, <2>4 DEF ImportsWithin
  <2> QED BY <2>2, <2>4, <2>5, ApartImportIsAllowed
<1>6. ASSUME NEW p \in WebPython, NEW m \in DomainImports(files[p])
      PROVE  ~WebForbids(p[3], m)
  <2>1. PICK c \in Range(spec.contexts) : \E v : v.path = p /\ v.lines = files[p] /\ Placed(c, v)
    BY <1>4, FreshFileIsPlaced
  <2>2. p[3] = c.name /\ ImportsWithin(files[p], WebImports(c))
    BY <1>4, <2>1 DEF Placed
  <2>3. PICK l \in Range(files[p]) : \E i \in l.imports : m = i.seen
    BY <1>3
  <2>4. PICK i \in l.imports : m = i.seen
    BY <2>3
  <2>5. i \in WebImports(c)
    BY <2>2, <2>4 DEF ImportsWithin
  <2>6. c.name \in STRING
    BY <1>2 DEF WellTyped
  <2> QED BY <2>2, <2>4, <2>5, <2>6, WebImportAllowed
<1> HIDE DEF all
<1>7. \A p : p \notin Reported({"boundary"})
  BY <1>1, <1>5, <1>6, ReportedBoundary DEF all
<1> QED
  BY <1>7, FreshTreeIsWholeNow

\* A tree fresh from scaffold passes its own check exactly if the names of its
\* spec are apart: a forbidden word in the name of a context or of an aggregate,
\* or a context's name that another's begins with, is reported at once, and
\* nothing else that is generated can be.  The hypothesis is again the one about
\* strings.
THEOREM ProjectFreshVerdict ==
  ASSUME \A s \in STRING : IsList(s)
  PROVE  Spec => []FreshVerdict
<1>1. IInv => FreshVerdict
  BY FreshPassNow, FreshApartNow DEF FreshVerdict
<1> QED
  BY <1>1, ProjectInvariant, PTL

\* Names that are apart are enough for a fresh tree to pass, even where two
\* artefacts of the spec share a file and one of them is lost.
THEOREM ProjectFreshApartPasses ==
  ASSUME \A s \in STRING : IsList(s)
  PROVE  Spec => [](Checked /\ files = Generated[spec] /\ spec \in NamesApart => Passes)
<1>1. IInv => (Checked /\ files = Generated[spec] /\ spec \in NamesApart => Passes)
  BY FreshApartNow
<1> QED
  BY <1>1, ProjectInvariant, PTL
=============================================================================
