----------------------------- MODULE Evolution -----------------------------
(***************************************************************************)
(* The life of a domain-spec under the gate: proposals are compared with   *)
(* the spec in force, and only a gate run that ends with exit code 0 opens *)
(* the merge (DESIGN-v0.5.md 10.2, 10.3 and the gate row of its CLI table).*)
(* Meanwhile a live instance of a generated aggregate moves along the      *)
(* transitions of the spec in force, and is still there after a merge.     *)
(***************************************************************************)
EXTENDS Gate

CONSTANT Specs  \* the spec files anybody may write, valid or not

ASSUME SpecsTyped == \A s \in Specs : WellTyped(s)

NotRun == 99  \* no gate run for this proposal yet
NoInstance == [ctx |-> "", agg |-> "", state |-> ""]

VARIABLES
  main,       \* the spec in force
  draft,      \* the proposed spec
  allow,      \* whether the last gate run had --allow-breaking
  exit,       \* exit code of the gate run on <<main, draft>>, or NotRun
  approved,   \* ghost: the spec in force since the last approved break
  instance    \* a persisted aggregate instance, or NoInstance

vars == <<main, draft, allow, exit, approved, instance>>

-----------------------------------------------------------------------------
(* What one spec keeps of another.                                         *)

Extends(f, g) == DOMAIN f \subseteq DOMAIN g /\ \A x \in DOMAIN f : g[x] = f[x]

\* What the gate's reject verdicts protect.
KeepsDomain(o, n) ==
  /\ n.kind = o.kind
  /\ Range(o.states) \subseteq Range(n.states)
  /\ DOMAIN ById(o.guards) \subseteq DOMAIN ById(n.guards)
  /\ DOMAIN ById(o.invariants) \subseteq DOMAIN ById(n.invariants)
  /\ DOMAIN ById(o.formulas) \subseteq DOMAIN ById(n.formulas)

\* What its review verdicts protect on top of that.
ExtendsDomain(o, n) ==
  /\ n.kind = o.kind
  /\ Range(o.states) \subseteq Range(n.states)
  /\ Edges(o) \subseteq Edges(n)
  /\ Range(o.ports_out) \subseteq Range(n.ports_out)
  /\ Extends(ById(o.guards), ById(n.guards))
  /\ Extends(ById(o.invariants), ById(n.invariants))
  /\ Extends(ById(o.formulas), ById(n.formulas))

KeepsContext(o, n) ==
  LET od == ByName(o.domains)          nd == ByName(n.domains)
      ot == ByName(o.decision_tables)  nt == ByName(n.decision_tables)
  IN  /\ DOMAIN od \subseteq DOMAIN nd
      /\ \A a \in DOMAIN od : KeepsDomain(od[a], nd[a])
      /\ DOMAIN ot \subseteq DOMAIN nt
      /\ \A t \in DOMAIN ot : Shape(nt[t]) = Shape(ot[t])

ExtendsContext(o, n) ==
  LET od == ByName(o.domains)          nd == ByName(n.domains)
      ot == ByName(o.decision_tables)  nt == ByName(n.decision_tables)
  IN  /\ DOMAIN od \subseteq DOMAIN nd
      /\ \A a \in DOMAIN od : ExtendsDomain(od[a], nd[a])
      /\ DOMAIN ot \subseteq DOMAIN nt
      /\ \A t \in DOMAIN ot : Shape(nt[t]) = Shape(ot[t])
                              /\ nt[t].versioned = ot[t].versioned
      /\ Range(o.relations) \subseteq Range(n.relations)

KeepsSpec(o, n) ==
  LET oc == ByName(o.contexts)  nc == ByName(n.contexts)
  IN  DOMAIN oc \subseteq DOMAIN nc /\ \A c \in DOMAIN oc : KeepsContext(oc[c], nc[c])

ExtendsSpec(o, n) ==
  LET oc == ByName(o.contexts)  nc == ByName(n.contexts)
  IN  DOMAIN oc \subseteq DOMAIN nc /\ \A c \in DOMAIN oc : ExtendsContext(oc[c], nc[c])

-----------------------------------------------------------------------------
(* A live instance and the state machine generated for it.                 *)

HasDomain(spec, ctx, agg) ==
  ctx \in DOMAIN ByName(spec.contexts) /\ agg \in DOMAIN ByName(ByName(spec.contexts)[ctx].domains)

DomainAt(spec, ctx, agg) == ByName(ByName(spec.contexts)[ctx].domains)[agg]

\* The instance's persisted state is a member of the generated enum.
Fits(inst, spec) ==
  /\ HasDomain(spec, inst.ctx, inst.agg)
  /\ DomainAt(spec, inst.ctx, inst.agg).kind = "aggregate"
  /\ inst.state \in Range(DomainAt(spec, inst.ctx, inst.agg).states)

\* States an instance in state s can still get to: those in every set of
\* states that holds s and is closed under the transitions.
Reachable(d, s) ==
  {t \in Range(d.states) :
     \A S \in SUBSET Range(d.states) :
       (s \in S /\ \A e \in Edges(d) : e[1] \in S => e[2] \in S) => t \in S}

-----------------------------------------------------------------------------
Init ==
  /\ main \in {s \in Specs : ValidSpec(s)}
  /\ draft = main
  /\ allow = FALSE
  /\ exit = NotRun
  /\ approved = main
  /\ instance = NoInstance

\* The author (a person, or `extract`) writes another proposal.
Propose(new) ==
  /\ draft' = new
  /\ exit' = NotRun
  /\ allow' = FALSE
  /\ UNCHANGED <<main, approved, instance>>

\* CI runs `hexaarch gate main draft [--allow-breaking]`.
RunGate(allowBreaking) ==
  /\ allow' = allowBreaking
  /\ exit' = GateExit(main, draft, allowBreaking)
  /\ UNCHANGED <<main, draft, approved, instance>>

ApprovedBreak == allow /\ Verdict(DiffSpecs(main, draft)) = "reject"

\* Exit code 0 opens the merge.  --allow-breaking takes the migration as
\* done (cli.py, its help text), so a break leaves no instance behind.
Merge ==
  /\ exit = 0
  /\ main' = draft
  /\ approved' = IF ApprovedBreak THEN draft ELSE approved
  /\ instance' = IF ApprovedBreak THEN NoInstance ELSE instance
  /\ exit' = NotRun
  /\ allow' = FALSE
  /\ UNCHANGED draft

\* A new instance starts in the first state of the list (AGG_T's default).
Create(ctx, agg) ==
  /\ HasDomain(main, ctx, agg)
  /\ DomainAt(main, ctx, agg).kind = "aggregate"
  /\ instance' = [ctx |-> ctx, agg |-> agg, state |-> DomainAt(main, ctx, agg).states[1]]
  /\ UNCHANGED <<main, draft, allow, exit, approved>>

\* The generated _transition: only what ALLOWED has for the current state.
Transition(to) ==
  /\ instance # NoInstance
  /\ <<instance.state, to>> \in Edges(DomainAt(main, instance.ctx, instance.agg))
  /\ instance' = [instance EXCEPT !.state = to]
  /\ UNCHANGED <<main, draft, allow, exit, approved>>

Next ==
  \/ \E new \in Specs : Propose(new)
  \/ \E allowBreaking \in BOOLEAN : RunGate(allowBreaking)
  \/ Merge
  \/ \E ctx, agg \in Identifiers : Create(ctx, agg)
  \/ \E to \in Identifiers : Transition(to)

Spec == Init /\ [][Next]_vars

-----------------------------------------------------------------------------
\* The spec in force always passes validation, whatever is proposed.
TypeOK ==
  /\ main \in Specs /\ ValidSpec(main)
  /\ draft \in Specs
  /\ allow \in BOOLEAN
  /\ exit \in {0, 1, 2, 4, 5, NotRun}
  /\ approved \in Specs
  /\ instance = NoInstance \/ instance \in [ctx : Identifiers, agg : Identifiers, state : Identifiers]

\* Over any chain of merges nobody approved as breaking, the spec in force
\* keeps the rule of every id, the edges, ports, relations and table shapes of
\* the last approved one, unchanged: "additive, backward compatible" (gate.py,
\* pass).  Rules that share an id and relationship_invariants are no part of
\* it: see ProtectedRulesStay.
Conservative == ExtendsSpec(approved, main)

\* A persisted instance is never left in a state its generated enum has lost
\* (gate.py, state.remove: "invalidates existing instances").
LiveInstanceFits == instance # NoInstance => Fits(instance, main)

\* A finished gate run speaks of the spec in force and the proposal at hand.
ExitIsCurrent == exit # NotRun => exit = GateExit(main, draft, allow)

IInv == TypeOK /\ ExitIsCurrent /\ Conservative /\ LiveInstanceFits

\* No merge takes from a live instance a state it could still reach, unless
\* the break was approved (gate.py, transition.remove: stranded instances).
NeverStranded ==
  [][instance # NoInstance /\ instance' = instance =>
       LET d == DomainAt(main, instance.ctx, instance.agg)
       IN  Reachable(d, instance.state) \subseteq
             Reachable(DomainAt(main, instance.ctx, instance.agg)', instance.state)]_vars

\* A merge that drops a protected rule was gated with --allow-breaking.
BreaksAreApproved == [][~KeepsSpec(main, main') => allow]_vars

\* --allow-breaking opens no merge that loses only reviewable things: those
\* get through only beside a refused change (cli.py, _run_gate).
ReviewNeedsMore == [][~ExtendsSpec(main, main') => ~KeepsSpec(main, main')]_vars

\* The exit code is exact on valid specs it can compare: 5 only if a rule is
\* lost, 4 only if something short of a rule is, 0 if nothing is.
ExitIsExact ==
  exit \in {0, 4, 5} /\ ~allow =>
    exit = IF ~KeepsSpec(main, draft) THEN 5 ELSE IF ~ExtendsSpec(main, draft) THEN 4 ELSE 0

-----------------------------------------------------------------------------
(* What gate.py's docstring promises and the comparison does not deliver.  *)

\* Every guard of the approved spec is still on its edge, and every
\* relationship invariant is still declared: removing a guard or an invariant is
\* refused by default (gate.py:15).
ProtectedRulesStay ==
  \A c \in DOMAIN ByName(approved.contexts) :
    \A a \in DOMAIN ByName(ByName(approved.contexts)[c].domains) :
      LET old == DomainAt(approved, c, a)
          new == DomainAt(main, c, a)
      IN  /\ {<<g.id, g.edge>> : g \in Range(old.guards)}
               \subseteq {<<g.id, g.edge>> : g \in Range(new.guards)}
          /\ DOMAIN ById(old.relationship_invariants) \subseteq DOMAIN ById(new.relationship_invariants)
=============================================================================
