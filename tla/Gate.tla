-------------------------------- MODULE Gate --------------------------------
(***************************************************************************)
(* The change gate of hexaarch/gate.py: the structural diff of two specs,  *)
(* the verdict it gives, and the exit code `hexaarch gate` ends with.      *)
(* A report is a set of changes: its order, its wording and the number of  *)
(* items behind one change are left out.                                   *)
(***************************************************************************)
EXTENDS SpecIR

Change(verdict, kind, where) == [verdict |-> verdict, kind |-> kind, where |-> where]

Severity == [pass |-> 0, review |-> 1, reject |-> 2]

\* Mutant: the mildest verdict of the report.
VerdictMildest(changes) ==
  LET verdicts == {"pass"} \cup {c.verdict : c \in changes}
  IN  CHOOSE v \in verdicts : \A w \in verdicts : Severity[v] <= Severity[w]

\* GateReport.verdict: the most severe verdict of the report, pass by default.
Verdict(changes) ==
  LET verdicts == {"pass"} \cup {c.verdict : c \in changes}
  IN  CHOOSE v \in verdicts : \A w \in verdicts : Severity[w] <= Severity[v]

\* What appears in a collection passes, what disappears gets the verdict `loss`.
Added(kind, where, old, new) == {Change("pass", kind, where) : x \in new \ old}
Removed(loss, kind, where, old, new) == {Change(loss, kind, where) : x \in old \ new}

\* Mutant: only ids that are still there are compared.
DiffByIdOfKept(where, label, oldItems, newItems) ==
  LET o == ById(oldItems)
      n == ById(newItems)
  IN  Added(<<label, "add">>, where, DOMAIN o, DOMAIN n)
      \cup {Change("review", <<label, "change">>, where) :
              i \in {j \in DOMAIN o \cap DOMAIN n : o[j] # n[j]}}

DiffById(where, label, oldItems, newItems) ==
  LET o == ById(oldItems)
      n == ById(newItems)
  IN  Added(<<label, "add">>, where, DOMAIN o, DOMAIN n)
      \cup Removed("reject", <<label, "remove">>, where, DOMAIN o, DOMAIN n)
      \cup {Change("review", <<label, "change">>, where) :
              i \in {j \in DOMAIN o \cap DOMAIN n : o[j] # n[j]}}

\* Mutant: a state that goes is taken for a rename.
DiffStatesRenaming(where, o, n) ==
  Added(<<"state", "add">>, where, Range(o.states), Range(n.states))

DiffStates(where, o, n) ==
  Added(<<"state", "add">>, where, Range(o.states), Range(n.states))
  \cup Removed("reject", <<"state", "remove">>, where, Range(o.states), Range(n.states))

\* Mutant: dropping a transition counts as a change that passes.
DiffTransitionsLenient(where, o, n) ==
  Added(<<"transition", "add">>, where, Edges(o), Edges(n))
  \cup Removed("pass", <<"transition", "remove">>, where, Edges(o), Edges(n))

DiffTransitions(where, o, n) ==
  Added(<<"transition", "add">>, where, Edges(o), Edges(n))
  \cup Removed("review", <<"transition", "remove">>, where, Edges(o), Edges(n))

DiffPorts(where, o, n) ==
  Added(<<"port", "add">>, where, Range(o.ports_out), Range(n.ports_out))
  \cup Removed("review", <<"port", "remove">>, where, Range(o.ports_out), Range(n.ports_out))

\* Relationship invariants, and the order of the states, are not compared.
DiffDomain(where, o, n) ==
  Removed("reject", <<"domain", "kind">>, where, {o.kind}, {n.kind})
  \cup DiffStates(where, o, n)
  \cup DiffTransitions(where, o, n)
  \cup DiffById(where, "guard", o.guards, n.guards)
  \cup DiffById(where, "invariant", o.invariants, n.invariants)
  \cup DiffById(where, "formula", o.formulas, n.formulas)
  \cup DiffPorts(where, o, n)

Shape(t) == <<t.kind, t.inputs, t.output>>

\* Mutant: a table that keeps its shape is the same table.
DiffTableShapeOnly(where, a, b) ==
  Removed("reject", <<"decision_table", "shape">>, where, {Shape(a)}, {Shape(b)})

\* A table kept under its name: a new shape is refused, and only a table that
\* keeps its shape has its versioning looked at.
DiffTable(where, a, b) ==
  IF Shape(a) # Shape(b)
  THEN {Change("reject", <<"decision_table", "shape">>, where)}
  ELSE Removed("review", <<"decision_table", "versioned">>, where, {a.versioned}, {b.versioned})

DiffContext(o, n) ==
  LET od == ByName(o.domains)          nd == ByName(n.domains)
      ot == ByName(o.decision_tables)  nt == ByName(n.decision_tables)
      ctx == <<o.name>>
  IN  Added(<<"domain", "add">>, ctx, DOMAIN od, DOMAIN nd)
      \cup Removed("reject", <<"domain", "remove">>, ctx, DOMAIN od, DOMAIN nd)
      \cup (UNION {DiffDomain(<<o.name, agg>>, od[agg], nd[agg]) :
                     agg \in DOMAIN od \cap DOMAIN nd})
      \cup Added(<<"decision_table", "add">>, ctx, DOMAIN ot, DOMAIN nt)
      \cup Removed("reject", <<"decision_table", "remove">>, ctx, DOMAIN ot, DOMAIN nt)
      \cup (UNION {DiffTable(<<o.name, t>>, ot[t], nt[t]) : t \in DOMAIN ot \cap DOMAIN nt})
      \cup Added(<<"relation", "add">>, ctx, Range(o.relations), Range(n.relations))
      \cup Removed("review", <<"relation", "remove">>, ctx,
                   Range(o.relations), Range(n.relations))

DiffSpecs(old, new) ==
  LET o == ByName(old.contexts)
      n == ByName(new.contexts)
  IN  Added(<<"context", "add">>, <<>>, DOMAIN o, DOMAIN n)
      \cup Removed("reject", <<"context", "remove">>, <<>>, DOMAIN o, DOMAIN n)
      \cup (UNION {DiffContext(o[c], n[c]) : c \in DOMAIN o \cap DOMAIN n})

-----------------------------------------------------------------------------
(* sorted() over relation triples compares None with a string, a TypeError,*)
(* when two of them differ in nothing but having an event.                 *)

Incomparable(relations) ==
  \E r, s \in relations :
    r.to = s.to /\ r.via = s.via /\ r.event = NoEvent /\ s.event # NoEvent

DiffRaises(old, new) ==
  LET o == ByName(old.contexts)
      n == ByName(new.contexts)
  IN  \E c \in DOMAIN o \cap DOMAIN n :
        \/ Incomparable(Range(n[c].relations) \ Range(o[c].relations))
        \/ Incomparable(Range(o[c].relations) \ Range(n[c].relations))

\* Mutant: the specs are not validated before they are compared.
GateExitUnvalidated(old, new, allowBreaking) ==
  LET verdict == Verdict(DiffSpecs(old, new))
  IN  CASE DiffRaises(old, new) -> 1
        [] OTHER -> CASE verdict = "reject" /\ ~allowBreaking -> 5
                      [] verdict = "review" -> 4
                      [] OTHER -> 0

\* Mutant: --allow-breaking lets a review through as well.
GateExitPermissive(old, new, allowBreaking) ==
  LET verdict == Verdict(DiffSpecs(old, new))
  IN  CASE ~ValidSpec(old) \/ ~ValidSpec(new) -> 2
        [] ValidSpec(old) /\ ValidSpec(new) /\ DiffRaises(old, new) -> 1
        [] OTHER -> CASE verdict = "reject" /\ ~allowBreaking -> 5
                      [] verdict = "review" /\ ~allowBreaking -> 4
                      [] OTHER -> 0

\* `hexaarch gate old new [--allow-breaking]`: the process exit code.  An
\* exception nothing catches ends the interpreter with 1.
GateExit(old, new, allowBreaking) ==
  LET verdict == Verdict(DiffSpecs(old, new))
  IN  CASE ~ValidSpec(old) \/ ~ValidSpec(new) -> 2
        [] ValidSpec(old) /\ ValidSpec(new) /\ DiffRaises(old, new) -> 1
        [] OTHER -> CASE verdict = "reject" /\ ~allowBreaking -> 5
                      [] verdict = "review" -> 4
                      [] OTHER -> 0
=============================================================================
