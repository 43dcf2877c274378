------------------------------- MODULE SpecIR -------------------------------
(***************************************************************************)
(* The domain-spec intermediate representation of hexaarch/spec.py: what a *)
(* domain-spec.yaml is once pydantic has read it, and which of them the    *)
(* validators accept.                                                      *)
(*                                                                         *)
(*   spec    [web, contexts : Seq(context)]                                *)
(*   context [name, domains : Seq(domain), decision_tables : Seq(table),   *)
(*            relations : Seq([to, via, event])]                           *)
(*   domain  [name, kind, states : Seq(name), transitions : name -> set,   *)
(*            guards : Seq([id, edge, desc]), invariants : Seq([id, desc]),*)
(*            relationship_invariants : Seq([id, desc]),                   *)
(*            formulas : Seq([id, name]), ports_out : Seq(name)]           *)
(*   table   [name, id, kind, inputs : Seq(name), output, versioned]       *)
(*                                                                         *)
(* A Python dict (domains) is the sequence of its items in insertion order *)
(* without a repeated key; a list may repeat anything.  Names are opaque.  *)
(***************************************************************************)
EXTENDS Sequences, Naturals, Functions

CONSTANT Identifiers  \* the names that are Python identifiers and no keyword

NoEvent == "no event"  \* Relation.event left out: Python's None

-----------------------------------------------------------------------------
(* Lists read through a dict comprehension {x.key: x for x in list}: the   *)
(* last item with a key is the one that stays.                             *)

LastAt(seq, hit) == seq[CHOOSE k \in hit : \A j \in hit : j <= k]

ById(seq) ==
  [i \in {seq[k].id : k \in DOMAIN seq} |->
     LastAt(seq, {k \in DOMAIN seq : seq[k].id = i})]

ByName(seq) ==
  [n \in {seq[k].name : k \in DOMAIN seq} |->
     LastAt(seq, {k \in DOMAIN seq : seq[k].name = n})]

Edges(d) == UNION {{<<frm, to>> : to \in d.transitions[frm]} : frm \in DOMAIN d.transitions}

-----------------------------------------------------------------------------
(* The annotations the proofs lean on: these fields are lists, and names    *)
(* are strings.                                                            *)

IsList(x) == x \in Seq(Range(x))

WellTyped(spec) ==
  /\ IsList(spec.contexts)
  /\ \A c \in Range(spec.contexts) :
       /\ c.name \in STRING
       /\ IsList(c.domains) /\ IsList(c.decision_tables)
       /\ \A d \in Range(c.domains) :
            IsList(d.states) /\ IsList(d.formulas) /\ IsList(d.ports_out)

-----------------------------------------------------------------------------
(* The validators: a spec that fails one never leaves load_spec.           *)

ValidIdent(s) == s \in Identifiers

\* An aggregate needs states, each an identifier; transitions join two
\* different declared states and every guard sits on a declared transition.
ValidAggregate(d) ==
  /\ d.states # <<>>
  /\ \A s \in Range(d.states) : ValidIdent(s)
  /\ DOMAIN d.transitions \subseteq Range(d.states)
  /\ \A e \in Edges(d) : e[2] \in Range(d.states) /\ e[1] # e[2]
  /\ \A g \in Range(d.guards) : g.edge \in Edges(d)

ValidDomain(d) ==
  /\ d.kind = "aggregate" => ValidAggregate(d)
  /\ d.kind = "calculation" => d.formulas # <<>>

ValidContext(c) ==
  /\ ValidIdent(c.name)
  /\ \A d \in Range(c.domains) : ValidIdent(d.name) /\ ValidDomain(d)

\* What load_spec lets through.  Nothing here asks that ids, states, table
\* names or context names be unique.
ValidSpec(spec) ==
  /\ \A c \in Range(spec.contexts) : ValidContext(c)
  /\ \A c \in Range(spec.contexts) : \A r \in Range(c.relations) :
       \E t \in Range(spec.contexts) : t.name = r.to
=============================================================================
