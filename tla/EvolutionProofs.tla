-------------------------- MODULE EvolutionProofs --------------------------
(***************************************************************************)
(* Evolution for every set of spec files: what a chain of gated merges     *)
(* keeps, and that a live instance always fits the spec in force.          *)
(***************************************************************************)
EXTENDS Evolution, ListLemmas

Verdicts == {"pass", "review", "reject"}

-----------------------------------------------------------------------------
(* Extension is reflexive and transitive, level by level.                  *)

\* A dictionary extends itself and what its extensions extend.
LEMMA ExtendsOrder ==
  ASSUME NEW f, NEW g, NEW h
  PROVE  /\ Extends(f, f)
         /\ Extends(f, g) /\ Extends(g, h) => Extends(f, h)
BY DEF Extends

\* The same of domains: states, edges, ports and rules survive two merges if
\* they survive each.
LEMMA ExtendsDomainOrder ==
  ASSUME NEW a, NEW b, NEW c
  PROVE  /\ ExtendsDomain(a, a)
         /\ ExtendsDomain(a, b) /\ ExtendsDomain(b, c) => ExtendsDomain(a, c)
<1>1. ExtendsDomain(a, a)
  BY ExtendsOrder DEF ExtendsDomain
<1>2. ASSUME ExtendsDomain(a, b), ExtendsDomain(b, c)
      PROVE  ExtendsDomain(a, c)
  <2>1. /\ Extends(ById(a.guards), ById(c.guards))
        /\ Extends(ById(a.invariants), ById(c.invariants))
        /\ Extends(ById(a.formulas), ById(c.formulas))
    BY <1>2, ExtendsOrder DEF ExtendsDomain
  <2>2. /\ c.kind = a.kind
        /\ Range(a.states) \subseteq Range(c.states)
        /\ Edges(a) \subseteq Edges(c)
        /\ Range(a.ports_out) \subseteq Range(c.ports_out)
    BY <1>2 DEF ExtendsDomain
  <2> QED
    BY <2>1, <2>2 DEF ExtendsDomain
<1> QED
  BY <1>1, <1>2

\* The same of contexts.
LEMMA ExtendsContextOrder ==
  ASSUME NEW a, NEW b, NEW c
  PROVE  /\ ExtendsContext(a, a)
         /\ ExtendsContext(a, b) /\ ExtendsContext(b, c) => ExtendsContext(a, c)
<1>1. ExtendsContext(a, a)
  BY ExtendsDomainOrder DEF ExtendsContext
<1>2. ASSUME ExtendsContext(a, b), ExtendsContext(b, c)
      PROVE  ExtendsContext(a, c)
  BY <1>2, ExtendsDomainOrder DEF ExtendsContext
<1> QED
  BY <1>1, <1>2

\* The same of whole specs.
LEMMA ExtendsSpecOrder ==
  ASSUME NEW a, NEW b, NEW c
  PROVE  /\ ExtendsSpec(a, a)
         /\ ExtendsSpec(a, b) /\ ExtendsSpec(b, c) => ExtendsSpec(a, c)
<1>1. ExtendsSpec(a, a)
  BY ExtendsContextOrder DEF ExtendsSpec
<1>2. ASSUME ExtendsSpec(a, b), ExtendsSpec(b, c)
      PROVE  ExtendsSpec(a, c)
  BY <1>2, ExtendsContextOrder DEF ExtendsSpec
<1> QED
  BY <1>1, <1>2

-----------------------------------------------------------------------------
(* What a verdict tells of the report.                                     *)

\* The verdict is one of the report's, and none of them is more severe.
LEMMA VerdictIsWorst ==
  ASSUME NEW changes, \A c \in changes : c.verdict \in Verdicts
  PROVE  /\ Verdict(changes) \in Verdicts
         /\ \A c \in changes : Severity[c.verdict] <= Severity[Verdict(changes)]
         /\ Verdict(changes) # "pass" => \E c \in changes : c.verdict = Verdict(changes)
<1> DEFINE V == {"pass"} \cup {c.verdict : c \in changes}
           Worst(v) == v \in V /\ \A w \in V : Severity[w] <= Severity[v]
<1>1. V \subseteq Verdicts /\ "pass" \in V
  BY DEF Verdicts
<1>2. \E v \in V : \A w \in V : Severity[w] <= Severity[v]
  <2>1. CASE "reject" \in V
    BY <1>1, <2>1 DEF Verdicts, Severity
  <2>2. CASE "reject" \notin V /\ "review" \in V
    BY <1>1, <2>2 DEF Verdicts, Severity
  <2>3. CASE "reject" \notin V /\ "review" \notin V
    BY <1>1, <2>3 DEF Verdicts, Severity
  <2> QED
    BY <2>1, <2>2, <2>3
<1>3. Verdict(changes) = CHOOSE v \in V : \A w \in V : Severity[w] <= Severity[v]
  BY DEF Verdict
<1>4. Verdict(changes) \in V /\ \A w \in V : Severity[w] <= Severity[Verdict(changes)]
  <2> HIDE DEF V
  <2> QED BY <1>2, <1>3
<1> QED
  BY <1>1, <1>4

-----------------------------------------------------------------------------
(* The report is exact, level by level: a change other than "pass" exists  *)
(* exactly if the extension fails, a "reject" exactly if a rule is lost.   *)

Lossy(changes) == \E c \in changes : c.verdict # "pass"
Refused(changes) == \E c \in changes : c.verdict = "reject"
Graded(changes) == \A c \in changes : c.verdict \in Verdicts

\* Comparing two collections: only what disappeared counts.
LEMMA AddedRemoved ==
  ASSUME NEW kind, NEW where, NEW old, NEW new, NEW loss \in Verdicts
  PROVE  /\ Graded(Added(kind, where, old, new)) /\ ~Lossy(Added(kind, where, old, new))
         /\ Graded(Removed(loss, kind, where, old, new))
         /\ Lossy(Removed(loss, kind, where, old, new)) <=>
              loss # "pass" /\ ~(old \subseteq new)
         /\ Refused(Removed(loss, kind, where, old, new)) <=>
              loss = "reject" /\ ~(old \subseteq new)
<1>1. \A c \in Added(kind, where, old, new) : c.verdict = "pass"
  BY DEF Added, Change
<1>2. \A c \in Removed(loss, kind, where, old, new) : c.verdict = loss
  BY DEF Removed, Change
<1>3. Removed(loss, kind, where, old, new) = {} <=> old \subseteq new
  BY DEF Removed
<1> QED
  BY <1>1, <1>2, <1>3, Zenon DEF Graded, Lossy, Refused, Verdicts

\* Collections whose losses are refused.
LEMMA RefusedLosses ==
  ASSUME NEW gain, NEW drop, NEW where, NEW old, NEW new
  PROVE  /\ Graded(Added(gain, where, old, new) \cup Removed("reject", drop, where, old, new))
         /\ Lossy(Added(gain, where, old, new) \cup Removed("reject", drop, where, old, new))
              <=> ~(old \subseteq new)
         /\ Refused(Added(gain, where, old, new) \cup Removed("reject", drop, where, old, new))
              <=> ~(old \subseteq new)
<1>1. \A c \in Added(gain, where, old, new) : c.verdict = "pass"
  BY DEF Added, Change
<1>2. \A c \in Removed("reject", drop, where, old, new) : c.verdict = "reject"
  BY DEF Removed, Change
<1>3. Removed("reject", drop, where, old, new) = {} <=> old \subseteq new
  BY DEF Removed
<1> QED
  BY <1>1, <1>2, <1>3 DEF Graded, Lossy, Refused, Verdicts

\* Collections whose losses are reviewed.
LEMMA ReviewedLosses ==
  ASSUME NEW gain, NEW drop, NEW where, NEW old, NEW new
  PROVE  /\ Graded(Added(gain, where, old, new) \cup Removed("review", drop, where, old, new))
         /\ ~Refused(Added(gain, where, old, new) \cup Removed("review", drop, where, old, new))
         /\ Lossy(Added(gain, where, old, new) \cup Removed("review", drop, where, old, new))
              <=> ~(old \subseteq new)
<1>1. \A c \in Added(gain, where, old, new) : c.verdict = "pass"
  BY DEF Added, Change
<1>2. \A c \in Removed("review", drop, where, old, new) : c.verdict = "review"
  BY DEF Removed, Change
<1>3. Removed("review", drop, where, old, new) = {} <=> old \subseteq new
  BY DEF Removed
<1> QED
  BY <1>1, <1>2, <1>3 DEF Graded, Lossy, Refused, Verdicts

\* A report put together from parts.
LEMMA Parts ==
  ASSUME NEW A, NEW B
  PROVE  /\ Graded(A \cup B) <=> Graded(A) /\ Graded(B)
         /\ Lossy(A \cup B) <=> Lossy(A) \/ Lossy(B)
         /\ Refused(A \cup B) <=> Refused(A) \/ Refused(B)
         /\ Graded(A) /\ ~Lossy(A) => ~Refused(A)
BY DEF Graded, Lossy, Refused

\* A report put together from one part per common key.
LEMMA PartsOf ==
  ASSUME NEW F
  PROVE  /\ Graded(UNION F) <=> \A x \in F : Graded(x)
         /\ Lossy(UNION F) <=> \E x \in F : Lossy(x)
         /\ Refused(UNION F) <=> \E x \in F : Refused(x)
BY DEF Graded, Lossy, Refused

\* Guards, invariants and formulas: dropping an id is refused, rewording one
\* is reviewed.
LEMMA DiffByIdExact ==
  ASSUME NEW where, NEW label, NEW old, NEW new
  PROVE  LET D == DiffById(where, label, old, new)
         IN  /\ Graded(D)
             /\ Lossy(D) <=> ~Extends(ById(old), ById(new))
             /\ Refused(D) <=> ~(DOMAIN ById(old) \subseteq DOMAIN ById(new))
<1> DEFINE o == ById(old)
           n == ById(new)
           A == Added(<<label, "add">>, where, DOMAIN o, DOMAIN n)
           R == Removed("reject", <<label, "remove">>, where, DOMAIN o, DOMAIN n)
           C == {Change("review", <<label, "change">>, where) :
                   i \in {j \in DOMAIN o \cap DOMAIN n : o[j] # n[j]}}
<1>1. Graded(A) /\ ~Lossy(A) /\ Graded(R)
      /\ (Lossy(R) <=> ~(DOMAIN o \subseteq DOMAIN n))
      /\ (Refused(R) <=> ~(DOMAIN o \subseteq DOMAIN n))
  BY AddedRemoved DEF Verdicts
<1>2. Graded(C) /\ ~Refused(C)
      /\ (Lossy(C) <=> \E j \in DOMAIN o \cap DOMAIN n : o[j] # n[j])
  <2>1. \A c \in C : c.verdict = "review"
    BY DEF Change
  <2>2. C = {} <=> ~\E j \in DOMAIN o \cap DOMAIN n : o[j] # n[j]
    OBVIOUS
  <2> HIDE DEF C, o, n
  <2> QED
    BY <2>1, <2>2 DEF Graded, Lossy, Refused, Verdicts
<1>3. DiffById(where, label, old, new) = (A \cup R) \cup C
  BY DEF DiffById
<1>4. Extends(o, n) <=> DOMAIN o \subseteq DOMAIN n /\ \A j \in DOMAIN o \cap DOMAIN n : o[j] = n[j]
  BY DEF Extends
<1> HIDE DEF A, R, C
<1>5. Graded(A \cup R) /\ (Lossy(A \cup R) <=> Lossy(R)) /\ (Refused(A \cup R) <=> Refused(R))
  BY <1>1, Parts
<1>6. /\ Graded((A \cup R) \cup C)
      /\ Lossy((A \cup R) \cup C) <=> Lossy(R) \/ Lossy(C)
      /\ Refused((A \cup R) \cup C) <=> Refused(R)
  BY <1>2, <1>5, Parts
<1>7. Lossy(R) \/ Lossy(C) <=> ~Extends(o, n)
  BY <1>1, <1>2, <1>4
<1> QED
  BY <1>1, <1>3, <1>6, <1>7

\* A domain: kind, states and rule ids are refused, the rest is reviewed.
LEMMA DiffDomainExact ==
  ASSUME NEW where, NEW a, NEW b
  PROVE  LET D == DiffDomain(where, a, b)
         IN  /\ Graded(D)
             /\ Lossy(D) <=> ~ExtendsDomain(a, b)
             /\ Refused(D) <=> ~KeepsDomain(a, b)
<1> DEFINE K == Removed("reject", <<"domain", "kind">>, where, {a.kind}, {b.kind})
           S == DiffStates(where, a, b)
           E == DiffTransitions(where, a, b)
           G == DiffById(where, "guard", a.guards, b.guards)
           I == DiffById(where, "invariant", a.invariants, b.invariants)
           F == DiffById(where, "formula", a.formulas, b.formulas)
           P == DiffPorts(where, a, b)
<1>1. DiffDomain(where, a, b) = K \cup S \cup E \cup G \cup I \cup F \cup P
  BY DEF DiffDomain
<1>2. /\ Graded(K) /\ (Lossy(K) <=> b.kind # a.kind) /\ (Refused(K) <=> b.kind # a.kind)
  <2>1. {a.kind} \subseteq {b.kind} <=> b.kind = a.kind
    OBVIOUS
  <2> QED
    BY <2>1, AddedRemoved, Zenon DEF Verdicts
<1>3. /\ Graded(S)
      /\ Lossy(S) <=> ~(Range(a.states) \subseteq Range(b.states))
      /\ Refused(S) <=> ~(Range(a.states) \subseteq Range(b.states))
  BY RefusedLosses DEF DiffStates
<1>4. /\ Graded(E) /\ ~Refused(E) /\ (Lossy(E) <=> ~(Edges(a) \subseteq Edges(b)))
  BY ReviewedLosses DEF DiffTransitions
<1>5. /\ Graded(P) /\ ~Refused(P)
      /\ (Lossy(P) <=> ~(Range(a.ports_out) \subseteq Range(b.ports_out)))
  BY ReviewedLosses DEF DiffPorts
<1>6. /\ Graded(G) /\ (Lossy(G) <=> ~Extends(ById(a.guards), ById(b.guards)))
      /\ (Refused(G) <=> ~(DOMAIN ById(a.guards) \subseteq DOMAIN ById(b.guards)))
  BY DiffByIdExact
<1>7. /\ Graded(I) /\ (Lossy(I) <=> ~Extends(ById(a.invariants), ById(b.invariants)))
      /\ (Refused(I) <=> ~(DOMAIN ById(a.invariants) \subseteq DOMAIN ById(b.invariants)))
  BY DiffByIdExact
<1>8. /\ Graded(F) /\ (Lossy(F) <=> ~Extends(ById(a.formulas), ById(b.formulas)))
      /\ (Refused(F) <=> ~(DOMAIN ById(a.formulas) \subseteq DOMAIN ById(b.formulas)))
  BY DiffByIdExact
<1> HIDE DEF K, S, E, G, I, F, P
<1> DEFINE D == K \cup S \cup E \cup G \cup I \cup F \cup P
<1>9. Graded(D) <=> /\ Graded(K) /\ Graded(S) /\ Graded(E) /\ Graded(G)
                    /\ Graded(I) /\ Graded(F) /\ Graded(P)
  BY DEF Graded
<1>10. Lossy(D) <=> \/ Lossy(K) \/ Lossy(S) \/ Lossy(E) \/ Lossy(G)
                    \/ Lossy(I) \/ Lossy(F) \/ Lossy(P)
  BY DEF Lossy
<1>11. Refused(D) <=> \/ Refused(K) \/ Refused(S) \/ Refused(E) \/ Refused(G)
                      \/ Refused(I) \/ Refused(F) \/ Refused(P)
  BY DEF Refused
<1> HIDE DEF D
<1> QED
  BY <1>1, <1>2, <1>3, <1>4, <1>5, <1>6, <1>7, <1>8, <1>9, <1>10, <1>11
     DEF D, ExtendsDomain, KeepsDomain

\* A table kept under its name: shape is refused, versioning is reviewed.
LEMMA DiffTableExact ==
  ASSUME NEW where, NEW a, NEW b
  PROVE  LET D == DiffTable(where, a, b)
         IN  /\ Graded(D)
             /\ Lossy(D) <=> ~(Shape(b) = Shape(a) /\ b.versioned = a.versioned)
             /\ Refused(D) <=> Shape(b) # Shape(a)
<1> DEFINE D == DiffTable(where, a, b)
<1>1. CASE Shape(a) # Shape(b)
  <2>1. D = {Change("reject", <<"decision_table", "shape">>, where)}
    BY <1>1 DEF DiffTable
  <2>2. Graded(D) /\ Lossy(D) /\ Refused(D)
    BY <2>1 DEF Change, Graded, Lossy, Refused, Verdicts
  <2> QED
    BY <2>2, <1>1
<1>2. CASE Shape(a) = Shape(b)
  <2>1. D = Removed("review", <<"decision_table", "versioned">>, where, {a.versioned}, {b.versioned})
    BY <1>2 DEF DiffTable
  <2>2. \A c \in D : c.verdict = "review"
    BY <2>1 DEF Removed, Change
  <2>3. D = {} <=> b.versioned = a.versioned
    BY <2>1 DEF Removed
  <2>4. Graded(D) /\ ~Refused(D) /\ (Lossy(D) <=> b.versioned # a.versioned)
    BY <2>2, <2>3 DEF Graded, Lossy, Refused, Verdicts
  <2> QED
    BY <2>4, <1>2
<1> QED
  BY <1>1, <1>2

\* A context, from its domains, tables and relations.
LEMMA DiffContextExact ==
  ASSUME NEW a, NEW b
  PROVE  LET D == DiffContext(a, b)
         IN  /\ Graded(D)
             /\ Lossy(D) <=> ~ExtendsContext(a, b)
             /\ Refused(D) <=> ~KeepsContext(a, b)
<1> DEFINE ad == ByName(a.domains)
           bd == ByName(b.domains)
           at == ByName(a.decision_tables)
           bt == ByName(b.decision_tables)
           X == Added(<<"domain", "add">>, <<a.name>>, DOMAIN ad, DOMAIN bd)
                \cup Removed("reject", <<"domain", "remove">>, <<a.name>>, DOMAIN ad, DOMAIN bd)
           M == {DiffDomain(<<a.name, g>>, ad[g], bd[g]) : g \in DOMAIN ad \cap DOMAIN bd}
           Y == Added(<<"decision_table", "add">>, <<a.name>>, DOMAIN at, DOMAIN bt)
                \cup Removed("reject", <<"decision_table", "remove">>, <<a.name>>, DOMAIN at, DOMAIN bt)
           U == UNION M
           N == {DiffTable(<<a.name, t>>, at[t], bt[t]) : t \in DOMAIN at \cap DOMAIN bt}
           Z == Added(<<"relation", "add">>, <<a.name>>, Range(a.relations), Range(b.relations))
                \cup Removed("review", <<"relation", "remove">>, <<a.name>>,
                             Range(a.relations), Range(b.relations))
           V == UNION N
<1>1. DiffContext(a, b) = X \cup U \cup Y \cup V \cup Z
  BY DEF DiffContext
<1>2. Graded(X) /\ (Lossy(X) <=> ~(DOMAIN ad \subseteq DOMAIN bd))
      /\ (Refused(X) <=> ~(DOMAIN ad \subseteq DOMAIN bd))
  BY RefusedLosses
<1>3. Graded(Y) /\ (Lossy(Y) <=> ~(DOMAIN at \subseteq DOMAIN bt))
      /\ (Refused(Y) <=> ~(DOMAIN at \subseteq DOMAIN bt))
  BY RefusedLosses
<1>4. Graded(Z) /\ ~Refused(Z)
      /\ (Lossy(Z) <=> ~(Range(a.relations) \subseteq Range(b.relations)))
  BY ReviewedLosses
<1>5. /\ Graded(U)
      /\ Lossy(U) <=> \E g \in DOMAIN ad \cap DOMAIN bd : ~ExtendsDomain(ad[g], bd[g])
      /\ Refused(U) <=> \E g \in DOMAIN ad \cap DOMAIN bd : ~KeepsDomain(ad[g], bd[g])
  <2>1. \A g \in DOMAIN ad \cap DOMAIN bd :
          LET P == DiffDomain(<<a.name, g>>, ad[g], bd[g])
          IN  /\ Graded(P)
              /\ Lossy(P) <=> ~ExtendsDomain(ad[g], bd[g])
              /\ Refused(P) <=> ~KeepsDomain(ad[g], bd[g])
    <3> HIDE DEF ad, bd
    <3> QED BY DiffDomainExact
  <2>2. /\ Graded(UNION M) <=> \A x \in M : Graded(x)
        /\ Lossy(UNION M) <=> \E x \in M : Lossy(x)
        /\ Refused(UNION M) <=> \E x \in M : Refused(x)
    <3> HIDE DEF M
    <3> QED BY PartsOf
  <2> HIDE DEF ad, bd
  <2> QED
    BY <2>1, <2>2, Zenon
<1>6. /\ Graded(V)
      /\ Lossy(V) <=> \E t \in DOMAIN at \cap DOMAIN bt :
            ~(Shape(bt[t]) = Shape(at[t]) /\ bt[t].versioned = at[t].versioned)
      /\ Refused(V) <=> \E t \in DOMAIN at \cap DOMAIN bt : Shape(bt[t]) # Shape(at[t])
  <2>1. \A t \in DOMAIN at \cap DOMAIN bt :
          LET P == DiffTable(<<a.name, t>>, at[t], bt[t])
          IN  /\ Graded(P)
              /\ Lossy(P) <=> ~(Shape(bt[t]) = Shape(at[t]) /\ bt[t].versioned = at[t].versioned)
              /\ Refused(P) <=> Shape(bt[t]) # Shape(at[t])
    <3> HIDE DEF at, bt
    <3> QED BY DiffTableExact
  <2>2. /\ Graded(UNION N) <=> \A x \in N : Graded(x)
        /\ Lossy(UNION N) <=> \E x \in N : Lossy(x)
        /\ Refused(UNION N) <=> \E x \in N : Refused(x)
    <3> HIDE DEF N
    <3> QED BY PartsOf
  <2> HIDE DEF at, bt
  <2> QED
    BY <2>1, <2>2, Zenon
<1>7. ExtendsContext(a, b) <=>
         /\ DOMAIN ad \subseteq DOMAIN bd
         /\ \A g \in DOMAIN ad : ExtendsDomain(ad[g], bd[g])
         /\ DOMAIN at \subseteq DOMAIN bt
         /\ \A t \in DOMAIN at : Shape(bt[t]) = Shape(at[t]) /\ bt[t].versioned = at[t].versioned
         /\ Range(a.relations) \subseteq Range(b.relations)
  BY DEF ExtendsContext
<1>8. KeepsContext(a, b) <=>
         /\ DOMAIN ad \subseteq DOMAIN bd
         /\ \A g \in DOMAIN ad : KeepsDomain(ad[g], bd[g])
         /\ DOMAIN at \subseteq DOMAIN bt
         /\ \A t \in DOMAIN at : Shape(bt[t]) = Shape(at[t])
  BY DEF KeepsContext
<1> HIDE DEF ad, bd, at, bt, X, M, Y, N, Z, U, V
<1> DEFINE D == X \cup U \cup Y \cup V \cup Z
<1>9. /\ Graded(D) <=> Graded(X) /\ Graded(U) /\ Graded(Y) /\ Graded(V) /\ Graded(Z)
      /\ Lossy(D) <=> Lossy(X) \/ Lossy(U) \/ Lossy(Y) \/ Lossy(V) \/ Lossy(Z)
      /\ Refused(D) <=> Refused(X) \/ Refused(U) \/ Refused(Y) \/ Refused(V) \/ Refused(Z)
  BY DEF Graded, Lossy, Refused
<1> HIDE DEF D
<1>10. Graded(D)
  BY <1>2, <1>3, <1>4, <1>5, <1>6, <1>9
<1>11. Lossy(D) <=> ~ExtendsContext(a, b)
  BY <1>2, <1>3, <1>4, <1>5, <1>6, <1>9, <1>7
<1>12. Refused(D) <=> ~KeepsContext(a, b)
  BY <1>2, <1>3, <1>4, <1>5, <1>6, <1>9, <1>8
<1>13. DiffContext(a, b) = D
  BY <1>1 DEF D
<1> QED
  BY <1>10, <1>11, <1>12, <1>13

\* A whole spec.
LEMMA DiffSpecsExact ==
  ASSUME NEW old, NEW new
  PROVE  LET D == DiffSpecs(old, new)
         IN  /\ Graded(D)
             /\ Lossy(D) <=> ~ExtendsSpec(old, new)
             /\ Refused(D) <=> ~KeepsSpec(old, new)
<1> DEFINE o == ByName(old.contexts)
           n == ByName(new.contexts)
           X == Added(<<"context", "add">>, <<>>, DOMAIN o, DOMAIN n)
                \cup Removed("reject", <<"context", "remove">>, <<>>, DOMAIN o, DOMAIN n)
           M == {DiffContext(o[c], n[c]) : c \in DOMAIN o \cap DOMAIN n}
           U == UNION M
<1>1. DiffSpecs(old, new) = X \cup U
  BY DEF DiffSpecs
<1>2. Graded(X) /\ (Lossy(X) <=> ~(DOMAIN o \subseteq DOMAIN n))
      /\ (Refused(X) <=> ~(DOMAIN o \subseteq DOMAIN n))
  <2>1. PICK w : w = <<>>
    OBVIOUS
  <2>2. X = Added(<<"context", "add">>, w, DOMAIN o, DOMAIN n)
            \cup Removed("reject", <<"context", "remove">>, w, DOMAIN o, DOMAIN n)
    BY <2>1
  <2> HIDE DEF X, o, n
  <2> QED
    BY <2>2, RefusedLosses
<1>3. /\ Graded(U)
      /\ Lossy(U) <=> \E c \in DOMAIN o \cap DOMAIN n : ~ExtendsContext(o[c], n[c])
      /\ Refused(U) <=> \E c \in DOMAIN o \cap DOMAIN n : ~KeepsContext(o[c], n[c])
  <2>1. \A c \in DOMAIN o \cap DOMAIN n :
          LET P == DiffContext(o[c], n[c])
          IN  /\ Graded(P)
              /\ Lossy(P) <=> ~ExtendsContext(o[c], n[c])
              /\ Refused(P) <=> ~KeepsContext(o[c], n[c])
    <3> HIDE DEF o, n
    <3> QED BY DiffContextExact
  <2>2. /\ Graded(U) <=> \A x \in M : Graded(x)
        /\ Lossy(U) <=> \E x \in M : Lossy(x)
        /\ Refused(U) <=> \E x \in M : Refused(x)
    <3> HIDE DEF M
    <3> QED BY PartsOf
  <2> HIDE DEF o, n, U
  <2> QED
    BY <2>1, <2>2, Zenon
<1>4. /\ ExtendsSpec(old, new) <=>
           DOMAIN o \subseteq DOMAIN n /\ \A c \in DOMAIN o : ExtendsContext(o[c], n[c])
      /\ KeepsSpec(old, new) <=>
           DOMAIN o \subseteq DOMAIN n /\ \A c \in DOMAIN o : KeepsContext(o[c], n[c])
  BY DEF ExtendsSpec, KeepsSpec
<1> HIDE DEF o, n, X, M, U
<1>5. Graded(X \cup U) /\ (Lossy(X \cup U) <=> Lossy(X) \/ Lossy(U))
      /\ (Refused(X \cup U) <=> Refused(X) \/ Refused(U))
  BY <1>2, <1>3, Parts
<1>6. Lossy(X \cup U) <=> ~ExtendsSpec(old, new)
  BY <1>2, <1>3, <1>4, <1>5
<1>7. Refused(X \cup U) <=> ~KeepsSpec(old, new)
  BY <1>2, <1>3, <1>4, <1>5
<1> QED
  BY <1>1, <1>5, <1>6, <1>7

-----------------------------------------------------------------------------
(* The verdict and the exit code, for every pair of specs.                 *)

\* The gate refuses exactly the proposals that lose a protected rule and asks
\* for review exactly for those that lose something else.
THEOREM VerdictIsExact ==
  ASSUME NEW old, NEW new
  PROVE  Verdict(DiffSpecs(old, new)) =
           IF ~KeepsSpec(old, new) THEN "reject"
           ELSE IF ~ExtendsSpec(old, new) THEN "review" ELSE "pass"
<1> DEFINE D == DiffSpecs(old, new)
           V == {"pass"} \cup {c.verdict : c \in D}
<1>1. Graded(D) /\ (Lossy(D) <=> ~ExtendsSpec(old, new)) /\ (Refused(D) <=> ~KeepsSpec(old, new))
  BY DiffSpecsExact
<1>2. Refused(D) => Lossy(D)
  BY DEF Refused, Lossy
<1>3. /\ Verdict(D) \in Verdicts
      /\ \A c \in D : Severity[c.verdict] <= Severity[Verdict(D)]
      /\ Verdict(D) # "pass" => \E c \in D : c.verdict = Verdict(D)
  <2> HIDE DEF D
  <2> QED
    BY <1>1, VerdictIsWorst DEF Graded
<1> HIDE DEF D
<1>4. CASE Refused(D)
  <2>1. Severity["reject"] <= Severity[Verdict(D)]
    BY <1>3, <1>4 DEF Refused
  <2>2. Verdict(D) = "reject"
    BY <2>1, <1>3 DEF Severity, Verdicts
  <2> QED
    BY <2>2, <1>1, <1>4 DEF D
<1>5. CASE ~Refused(D) /\ Lossy(D)
  <2>1. PICK c \in D : c.verdict = "review"
    BY <1>1, <1>5 DEF Graded, Lossy, Refused, Verdicts
  <2>2. Severity["review"] <= Severity[Verdict(D)]
    BY <2>1, <1>3
  <2>3. Verdict(D) # "reject"
    BY <1>3, <1>5 DEF Refused
  <2>4. Verdict(D) = "review"
    BY <2>2, <2>3, <1>3 DEF Severity, Verdicts
  <2> QED
    BY <2>4, <1>1, <1>5 DEF D
<1>6. CASE ~Lossy(D)
  <2>1. Verdict(D) = "pass"
    BY <1>3, <1>6 DEF Lossy
  <2> QED
    BY <2>1, <1>1, <1>2, <1>6 DEF D
<1> QED
  BY <1>4, <1>5, <1>6

\* What the exit codes of a run mean.
LEMMA GateExitMeans ==
  ASSUME NEW old, NEW new, NEW a \in BOOLEAN
  PROVE  /\ GateExit(old, new, a) \in {0, 1, 2, 4, 5}
         /\ GateExit(old, new, a) = 0 =>
              ValidSpec(new) /\ (ExtendsSpec(old, new) \/ (a /\ ~KeepsSpec(old, new)))
         /\ GateExit(old, new, a) \in {0, 4, 5} /\ ~a =>
              GateExit(old, new, a) = IF ~KeepsSpec(old, new) THEN 5
                                      ELSE IF ~ExtendsSpec(old, new) THEN 4 ELSE 0
<1> DEFINE v == Verdict(DiffSpecs(old, new))
<1>1. v = IF ~KeepsSpec(old, new) THEN "reject"
          ELSE IF ~ExtendsSpec(old, new) THEN "review" ELSE "pass"
  BY VerdictIsExact
<1>2. GateExit(old, new, a) =
        IF ~ValidSpec(old) \/ ~ValidSpec(new) THEN 2
        ELSE IF DiffRaises(old, new) THEN 1
        ELSE IF v = "reject" /\ ~a THEN 5
        ELSE IF v = "review" THEN 4 ELSE 0
  BY DEF GateExit
<1> HIDE DEF v
<1> QED
  BY <1>1, <1>2

-----------------------------------------------------------------------------
(* Instances and the domains they live in.                                 *)

\* The domain an instance belongs to passed the validators.
LEMMA DomainIsValid ==
  ASSUME NEW spec, WellTyped(spec), ValidSpec(spec),
         NEW ctx, NEW agg, HasDomain(spec, ctx, agg)
  PROVE  /\ ValidDomain(DomainAt(spec, ctx, agg))
         /\ IsList(DomainAt(spec, ctx, agg).states)
<1> DEFINE c == ByName(spec.contexts)[ctx]
           d == ByName(c.domains)[agg]
<1>1. c \in Range(spec.contexts)
  BY ByNameIsItem DEF WellTyped, HasDomain
<1>2. d \in Range(c.domains)
  <2>1. IsList(c.domains) /\ agg \in DOMAIN ByName(c.domains)
    BY <1>1 DEF WellTyped, HasDomain
  <2> HIDE DEF c
  <2> QED
    BY <2>1, ByNameIsItem
<1>3. DomainAt(spec, ctx, agg) = d
  BY DEF DomainAt
<1> HIDE DEF c, d
<1>4. ValidDomain(d) /\ IsList(d.states)
  BY <1>1, <1>2 DEF ValidSpec, ValidContext, WellTyped
<1> QED
  BY <1>3, <1>4

\* An instance that fits a spec fits whatever extends it.
LEMMA FitsExtension ==
  ASSUME NEW old, NEW new, ExtendsSpec(old, new), NEW inst, Fits(inst, old)
  PROVE  /\ Fits(inst, new)
         /\ ExtendsDomain(DomainAt(old, inst.ctx, inst.agg), DomainAt(new, inst.ctx, inst.agg))
<1>1. inst.ctx \in DOMAIN ByName(old.contexts) /\ inst.ctx \in DOMAIN ByName(new.contexts)
      /\ ExtendsContext(ByName(old.contexts)[inst.ctx], ByName(new.contexts)[inst.ctx])
  BY DEF Fits, HasDomain, ExtendsSpec
<1>2. /\ HasDomain(new, inst.ctx, inst.agg)
      /\ ExtendsDomain(DomainAt(old, inst.ctx, inst.agg), DomainAt(new, inst.ctx, inst.agg))
  BY <1>1 DEF Fits, HasDomain, DomainAt, ExtendsContext
<1> QED
  BY <1>2 DEF Fits, ExtendsDomain

\* What can be reached in a domain can be reached in an extension of it.
LEMMA ReachableGrows ==
  ASSUME NEW a, NEW b, ExtendsDomain(a, b), NEW s,
         \A e \in Edges(a) : e[1] \in Range(a.states) => e[2] \in Range(a.states),
         s \in Range(a.states)
  PROVE  Reachable(a, s) \subseteq Reachable(b, s)
<1> SUFFICES ASSUME NEW t \in Reachable(a, s),
                    NEW S \in SUBSET Range(b.states),
                    s \in S, \A e \in Edges(b) : e[1] \in S => e[2] \in S
             PROVE  t \in S
  <2>1. Range(a.states) \subseteq Range(b.states)
    BY DEF ExtendsDomain
  <2> QED
    BY <2>1 DEF Reachable
<1> DEFINE R == S \cap Range(a.states)
<1>1. R \in SUBSET Range(a.states) /\ s \in R
  OBVIOUS
<1>2. \A e \in Edges(a) : e[1] \in R => e[2] \in R
  BY DEF ExtendsDomain
<1>3. t \in R
  <2> HIDE DEF R
  <2> QED BY <1>1, <1>2 DEF Reachable
<1> QED
  BY <1>3

-----------------------------------------------------------------------------
(* The inductive invariant.  Conservative alone is not inductive: a merge  *)
(* is safe because the exit code it reads is that of the pair at hand, and *)
(* an instance stays in its enum because the spec in force is valid.       *)

\* The first state.
LEMMA InitIInv == Init => IInv
<1> SUFFICES ASSUME Init
             PROVE  IInv
  OBVIOUS
<1>1. TypeOK
  BY DEF Init, TypeOK
<1>2. ExitIsCurrent
  BY DEF Init, ExitIsCurrent
<1>3. Conservative
  BY ExtendsSpecOrder DEF Init, Conservative
<1>4. LiveInstanceFits
  BY DEF Init, LiveInstanceFits
<1> QED
  BY <1>1, <1>2, <1>3, <1>4 DEF IInv

\* What a merge does to the spec in force.
LEMMA MergeExtends ==
  ASSUME IInv, Merge
  PROVE  /\ ValidSpec(draft)
         /\ ApprovedBreak <=> ~ExtendsSpec(main, draft)
         /\ ~ExtendsSpec(main, draft) => ~KeepsSpec(main, draft) /\ allow
         /\ ~KeepsSpec(main, draft) => ~ExtendsSpec(main, draft)
<1>1. exit = GateExit(main, draft, allow) /\ exit = 0 /\ allow \in BOOLEAN
  BY DEF IInv, TypeOK, ExitIsCurrent, Merge, NotRun
<1>2. ValidSpec(draft) /\ (ExtendsSpec(main, draft) \/ (allow /\ ~KeepsSpec(main, draft)))
  BY <1>1, GateExitMeans
<1>3. ApprovedBreak <=> allow /\ ~KeepsSpec(main, draft)
  BY VerdictIsExact DEF ApprovedBreak
<1>4. ~KeepsSpec(main, draft) => ~ExtendsSpec(main, draft)
  <2> SUFFICES ASSUME ExtendsSpec(main, draft)
               PROVE  KeepsSpec(main, draft)
    OBVIOUS
  <2>1. \A a, b : ExtendsDomain(a, b) => KeepsDomain(a, b)
    BY DEF ExtendsDomain, KeepsDomain, Extends
  <2>2. \A a, b : ExtendsContext(a, b) => KeepsContext(a, b)
    BY <2>1 DEF ExtendsContext, KeepsContext
  <2> QED
    BY <2>2 DEF ExtendsSpec, KeepsSpec
<1> QED
  BY <1>2, <1>3, <1>4

\* A new proposal has no gate run behind it yet.
LEMMA ProposeIInv ==
  ASSUME IInv, NEW new \in Specs, Propose(new)
  PROVE  IInv'
BY DEF IInv, Propose, TypeOK, ExitIsCurrent, Conservative, LiveInstanceFits, Fits, NotRun

\* A gate run leaves the verdict of the pair at hand.
LEMMA RunGateIInv ==
  ASSUME IInv, NEW a \in BOOLEAN, RunGate(a)
  PROVE  IInv'
<1>1. TypeOK'
  BY GateExitMeans DEF IInv, RunGate, TypeOK
<1>2. ExitIsCurrent'
  BY DEF IInv, RunGate, ExitIsCurrent
<1>3. Conservative' /\ LiveInstanceFits'
  BY DEF IInv, RunGate, Conservative, LiveInstanceFits
<1> QED
  BY <1>1, <1>2, <1>3 DEF IInv

\* A merge that was not an approved break only adds to the spec in force.
LEMMA MergeIInv ==
  ASSUME IInv, Merge
  PROVE  IInv'
<1>1. TypeOK'
  BY MergeExtends DEF IInv, Merge, TypeOK, NotRun
<1>2. ExitIsCurrent'
  BY DEF Merge, ExitIsCurrent, NotRun
<1>3. Conservative'
  <2>1. CASE ApprovedBreak
    BY <2>1, ExtendsSpecOrder DEF Merge, Conservative
  <2>2. CASE ~ApprovedBreak
    <3>1. ExtendsSpec(main, draft) /\ ExtendsSpec(approved, main)
      BY <2>2, MergeExtends DEF IInv, Conservative
    <3> QED
      BY <3>1, <2>2, ExtendsSpecOrder DEF Merge, Conservative
  <2> QED
    BY <2>1, <2>2
<1>4. LiveInstanceFits'
  <2>1. CASE ApprovedBreak
    BY <2>1 DEF Merge, LiveInstanceFits
  <2>2. CASE ~ApprovedBreak
    <3>1. ExtendsSpec(main, draft)
      BY <2>2, MergeExtends
    <3> QED
      BY <3>1, <2>2, FitsExtension DEF IInv, Merge, LiveInstanceFits
  <2> QED
    BY <2>1, <2>2
<1> QED
  BY <1>1, <1>2, <1>3, <1>4 DEF IInv

\* A new instance starts in a state of its enum.
LEMMA CreateIInv ==
  ASSUME IInv, NEW ctx \in Identifiers, NEW agg \in Identifiers, Create(ctx, agg)
  PROVE  IInv'
<1> DEFINE d == DomainAt(main, ctx, agg)
<1>1. ValidDomain(d) /\ IsList(d.states) /\ d.kind = "aggregate"
  BY SpecsTyped, DomainIsValid DEF IInv, TypeOK, Create
<1>2. d.states[1] \in Range(d.states) /\ Range(d.states) \subseteq Identifiers
  <2> HIDE DEF d
  <2>1. d.states # <<>> /\ \A s \in Range(d.states) : s \in Identifiers
    BY <1>1 DEF ValidDomain, ValidAggregate, ValidIdent
  <2>2. 1 \in DOMAIN d.states
    BY <1>1, <2>1 DEF IsList
  <2> QED
    BY <2>1, <2>2 DEF Range
<1>3. instance' = [ctx |-> ctx, agg |-> agg, state |-> d.states[1]] /\ UNCHANGED <<main, draft, allow, exit, approved>>
  BY DEF Create
<1>4. Fits(instance', main)
  BY <1>1, <1>2, <1>3 DEF Fits, Create
<1> HIDE DEF d
<1>5. TypeOK'
  BY <1>2, <1>3 DEF IInv, TypeOK
<1>6. ExitIsCurrent' /\ Conservative'
  BY <1>3 DEF IInv, ExitIsCurrent, Conservative
<1>7. LiveInstanceFits'
  BY <1>3, <1>4 DEF LiveInstanceFits
<1> QED
  BY <1>5, <1>6, <1>7 DEF IInv

\* _transition moves an instance within its enum.
LEMMA TransitionIInv ==
  ASSUME IInv, NEW to \in Identifiers, Transition(to)
  PROVE  IInv'
<1> DEFINE d == DomainAt(main, instance.ctx, instance.agg)
<1>1. Fits(instance, main)
  BY DEF IInv, LiveInstanceFits, Transition
<1>2. ValidDomain(d) /\ d.kind = "aggregate"
  BY <1>1, SpecsTyped, DomainIsValid DEF IInv, TypeOK, Fits
<1>3. to \in Range(d.states)
  <2>1. <<instance.state, to>> \in Edges(d)
    BY DEF Transition
  <2> HIDE DEF d
  <2> QED
    BY <1>2, <2>1 DEF ValidDomain, ValidAggregate
<1>4. instance \in [ctx : Identifiers, agg : Identifiers, state : Identifiers]
  BY DEF IInv, TypeOK, Transition
<1>5. /\ instance' = [instance EXCEPT !.state = to]
      /\ instance'.ctx = instance.ctx /\ instance'.agg = instance.agg /\ instance'.state = to
      /\ UNCHANGED <<main, draft, allow, exit, approved>>
  BY <1>4 DEF Transition
<1>6. Fits(instance', main)
  BY <1>1, <1>3, <1>5 DEF Fits
<1>7. TypeOK'
  BY <1>4, <1>5 DEF IInv, TypeOK
<1>8. ExitIsCurrent' /\ Conservative'
  BY <1>5 DEF IInv, ExitIsCurrent, Conservative
<1>9. LiveInstanceFits'
  BY <1>5, <1>6 DEF LiveInstanceFits
<1> QED
  BY <1>7, <1>8, <1>9 DEF IInv

\* Every step keeps the invariant.
LEMMA NextIInv == IInv /\ [Next]_vars => IInv'
<1> SUFFICES ASSUME IInv, [Next]_vars
             PROVE  IInv'
  OBVIOUS
<1>1. CASE Next
  BY <1>1, ProposeIInv, RunGateIInv, MergeIInv, CreateIInv, TransitionIInv DEF Next
<1>2. CASE UNCHANGED vars
  BY <1>2 DEF vars, IInv, TypeOK, ExitIsCurrent, Conservative, LiveInstanceFits
<1> QED
  BY <1>1, <1>2

\* The invariant holds in every reachable state.
THEOREM AlwaysIInv == Spec => []IInv
BY InitIInv, NextIInv, PTL DEF Spec

-----------------------------------------------------------------------------
(* The safety invariants.                                                  *)

\* Only specs that pass validation are ever in force.
THEOREM TypeCorrect == Spec => []TypeOK
<1>1. IInv => TypeOK
  BY DEF IInv
<1> QED
  BY <1>1, AlwaysIInv, PTL

\* Without an approved break, any chain of merges only adds (gate.py, pass).
THEOREM ChainsOnlyAdd == Spec => []Conservative
<1>1. IInv => Conservative
  BY DEF IInv
<1> QED
  BY <1>1, AlwaysIInv, PTL

\* A persisted instance always finds its state in the generated enum.
THEOREM InstancesFit == Spec => []LiveInstanceFits
<1>1. IInv => LiveInstanceFits
  BY DEF IInv
<1> QED
  BY <1>1, AlwaysIInv, PTL

\* The exit code of a run without --allow-breaking is exact.
THEOREM ExitCodesExact == Spec => []ExitIsExact
<1>1. IInv => ExitIsExact
  <2> SUFFICES ASSUME IInv, exit \in {0, 4, 5}, ~allow
               PROVE  exit = IF ~KeepsSpec(main, draft) THEN 5
                             ELSE IF ~ExtendsSpec(main, draft) THEN 4 ELSE 0
    BY DEF ExitIsExact
  <2>1. exit = GateExit(main, draft, allow) /\ allow \in BOOLEAN
    BY DEF IInv, TypeOK, ExitIsCurrent, NotRun
  <2> QED
    BY <2>1, GateExitMeans
<1> QED
  BY <1>1, AlwaysIInv, PTL

-----------------------------------------------------------------------------
(* The action properties.                                                  *)

\* Only a merge changes the spec in force.
LEMMA OnlyMerges ==
  ASSUME [Next]_vars, main' # main
  PROVE  Merge
BY DEF Next, vars, Propose, RunGate, Create, Transition

\* A merge never takes a reachable state from an instance that survives it.
THEOREM InstancesNotStranded == Spec => NeverStranded
<1> DEFINE A == instance # NoInstance /\ instance' = instance =>
                  LET d == DomainAt(main, instance.ctx, instance.agg)
                  IN  Reachable(d, instance.state) \subseteq
                        Reachable(DomainAt(main, instance.ctx, instance.agg)', instance.state)
<1>1. IInv /\ [Next]_vars => A
  <2> SUFFICES ASSUME IInv, [Next]_vars, instance # NoInstance, instance' = instance
               PROVE  A
    OBVIOUS
  <2>1. CASE main' = main
    BY <2>1
  <2>2. CASE main' # main
    <3> DEFINE d == DomainAt(main, instance.ctx, instance.agg)
               e == DomainAt(draft, instance.ctx, instance.agg)
    <3>1. Merge
      BY <2>2, OnlyMerges
    <3>2. ~ApprovedBreak /\ main' = draft
      BY <3>1 DEF Merge
    <3>3. Fits(instance, main)
      BY DEF IInv, LiveInstanceFits
    <3>4. ExtendsDomain(d, e)
      BY <3>1, <3>2, <3>3, MergeExtends, FitsExtension
    <3>5. ValidDomain(d) /\ d.kind = "aggregate" /\ instance.state \in Range(d.states)
      BY <3>3, SpecsTyped, DomainIsValid DEF IInv, TypeOK, Fits
    <3>6. DomainAt(main, instance.ctx, instance.agg)' = e
      BY <3>2 DEF DomainAt
    <3> HIDE DEF d, e
    <3>7. \A x \in Edges(d) : x[2] \in Range(d.states)
      BY <3>5 DEF ValidDomain, ValidAggregate
    <3>8. Reachable(d, instance.state) \subseteq Reachable(e, instance.state)
      BY <3>4, <3>5, <3>7, ReachableGrows
    <3> QED
      BY <3>6, <3>8 DEF d
  <2> QED
    BY <2>1, <2>2
<1> QED
  BY <1>1, AlwaysIInv, PTL DEF Spec, NeverStranded

\* A protected rule is lost only under --allow-breaking.
THEOREM LossesApproved == Spec => BreaksAreApproved
<1>1. \A s : KeepsSpec(s, s)
  BY DEF KeepsSpec, KeepsContext, KeepsDomain
<1>2. IInv /\ [Next]_vars => (~KeepsSpec(main, main') => allow)
  <2> SUFFICES ASSUME IInv, [Next]_vars, ~KeepsSpec(main, main')
               PROVE  allow
    OBVIOUS
  <2>1. Merge
    BY <1>1, OnlyMerges
  <2>2. main' = draft
    BY <2>1 DEF Merge
  <2> QED
    BY <2>1, <2>2, MergeExtends
<1> QED
  BY <1>2, AlwaysIInv, PTL DEF Spec, BreaksAreApproved

\* Nothing reviewable is lost unless something protected is lost with it.
THEOREM ReviewsHaveNoDoor == Spec => ReviewNeedsMore
<1>1. IInv /\ [Next]_vars => (~ExtendsSpec(main, main') => ~KeepsSpec(main, main'))
  <2> SUFFICES ASSUME IInv, [Next]_vars, ~ExtendsSpec(main, main')
               PROVE  ~KeepsSpec(main, main')
    OBVIOUS
  <2>1. Merge
    BY ExtendsSpecOrder, OnlyMerges
  <2>2. main' = draft
    BY <2>1 DEF Merge
  <2> QED
    BY <2>1, <2>2, MergeExtends
<1> QED
  BY <1>1, AlwaysIInv, PTL DEF Spec, ReviewNeedsMore
=============================================================================
