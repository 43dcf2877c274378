------------------------------- MODULE Check -------------------------------
(***************************************************************************)
(* The drift and boundary check of hexaarch/check.py: regenerate the spec, *)
(* compare everything but the impl blocks, and scan the imports of the     *)
(* project's domain and web files.  A report is the set of violations.     *)
(***************************************************************************)
EXTENDS Scaffold

Violation(kind, path, detail) == [kind |-> kind, path |-> path, detail |-> detail]

Sentinel == Plain(<<"impl region">>)

\* Mutant: the closing marker does not end the masked region.
MaskLineToTheEnd(acc, line) ==
  CASE line.mark \in {"open", "both"} ->
         [out |-> acc.out \o <<line, Sentinel>>, skipping |-> TRUE]
    [] line.mark = "close" -> [out |-> Append(acc.out, line), skipping |-> acc.skipping]
    [] OTHER -> IF acc.skipping THEN acc ELSE [acc EXCEPT !.out = Append(@, line)]

\* One turn of _mask_impl's loop: the opening marker is looked for first, so a
\* line with both markers opens.
MaskLine(acc, line) ==
  CASE line.mark \in {"open", "both"} ->
         [out |-> acc.out \o <<line, Sentinel>>, skipping |-> TRUE]
    [] line.mark = "close" -> [out |-> Append(acc.out, line), skipping |-> FALSE]
    [] OTHER -> IF acc.skipping THEN acc ELSE [acc EXCEPT !.out = Append(@, line)]

MaskImpl(lines) ==
  LET scanned[n \in 0..Len(lines)] ==
        IF n = 0 THEN [out |-> <<>>, skipping |-> FALSE] ELSE MaskLine(scanned[n - 1], lines[n])
  IN  scanned[Len(lines)].out

-----------------------------------------------------------------------------
(* Boundary scan.                                                          *)

\* A line that is no Python: the whole file then has no syntax tree.
Unparsable == Plain(<<"syntax error">>)
Parses(lines) == Unparsable \notin Range(lines)

\* `word in name`
Occurs(word, name) ==
  \E i \in 0..(Len(name) - Len(word)) : SubSeq(name, i + 1, i + Len(word)) = word

StartsWith(name, prefix) ==
  Len(prefix) <= Len(name) /\ SubSeq(name, 1, Len(prefix)) = prefix

\* _domain_imports: nothing at all of a file that does not parse.
DomainImports(lines) ==
  IF ~Parses(lines) THEN {} ELSE {i.seen : i \in UNION {l.imports : l \in Range(lines)}}

FilesUnder(files, dirs) ==
  {p \in DOMAIN files : IsPrefix(dirs, p) /\ Len(p) > Len(dirs) + 1}

PythonUnder(files, dirs) == {p \in FilesUnder(files, dirs) : p[Len(p)] = "py"}

\* The context directories: those with a file in them.
AllContexts(files) ==
  {p[3] : p \in {q \in DOMAIN files : IsPrefix(<<"src", "contexts">>, q) /\ Len(q) > 4
                                      /\ ~StartsWith(q[3], "__")}}

\* Mutant: contexts may import one another.
DomainForbidsFrameworksOnly(all, ctx, mod) ==
  \E f \in ForbiddenImports : Occurs(f, mod)

DomainForbids(all, ctx, mod) ==
  \/ \E f \in ForbiddenImports : Occurs(f, mod)
  \/ \E other \in all \ {ctx} : Occurs("contexts." \o other, mod)

\* Mutant: a web adapter may import nothing of its own context.
WebForbidsOwnContext(ctx, mod) == Occurs("contexts." \o ctx, mod)

WebForbids(ctx, mod) == Occurs("contexts." \o ctx \o ".domain", mod)

\* Every Python file of the project's own tree, generated or not.
BoundaryScan(files) ==
  LET all == AllContexts(files)
      scan(ctx, dirs, forbids(_)) ==
        UNION {{Violation("boundary", p, mod) : mod \in {m \in DomainImports(files[p]) : forbids(m)}} :
                 p \in PythonUnder(files, <<"src", "contexts", ctx>> \o dirs)}
  IN  UNION {scan(ctx, <<"domain">>, LAMBDA m : DomainForbids(all, ctx, m))
             \cup scan(ctx, <<"adapters", "web">>, LAMBDA m : WebForbids(ctx, m)) : ctx \in all}

-----------------------------------------------------------------------------
(* The boundary test that is generated into the project, with its own copy *)
(* of the rules.                                                           *)

TestPassesDomain(lines, ctx, all) ==
  /\ Parses(lines)
  /\ \A mod \in DomainImports(lines) :
       /\ \A f \in ForbiddenImports : ~Occurs(f, mod)
       /\ \A other \in all : other = ctx \/ ~Occurs("contexts." \o other, mod)

\* Mutant: the test knows the older rules, without the web adapter's.
TestPassesAnyWebAdapter(lines, ctx) == Parses(lines)

TestPassesWebAdapter(lines, ctx) ==
  /\ Parses(lines)
  /\ \A mod \in DomainImports(lines) : ~Occurs("contexts." \o ctx \o ".domain", mod)

HasDomain(files, ctx) == FilesUnder(files, <<"src", "contexts", ctx, "domain">>) # {}

\* A file that does not parse fails the test, which parses without a handler.
\* A context without a domain directory is passed over, its web adapter too.
BoundaryTestPasses(files) ==
  LET all == AllContexts(files)
  IN  \A ctx \in {c \in all : HasDomain(files, c)} :
        /\ \A p \in PythonUnder(files, <<"src", "contexts", ctx, "domain">>) :
             TestPassesDomain(files[p], ctx, all)
        /\ \A p \in PythonUnder(files, <<"src", "contexts", ctx, "adapters", "web">>) :
             TestPassesWebAdapter(files[p], ctx)

-----------------------------------------------------------------------------
\* A file's suffix is what follows a name: `.csv`, of a table that has no slug,
\* has none.
IsTable(path) == path[Len(path)] = "csv" /\ path[Len(path) - 1] # ""

\* A decision table's csv may grow rows under its generated header.
Drifts(path, expected, actual) ==
  IF IsTable(path)
  THEN ~IsPrefix(expected, actual)
  ELSE MaskImpl(expected) # MaskImpl(actual)

\* Mutant: only files the project still has are compared.
SkeletonViolationsOfPresent(generated, files) ==
  {Violation("drift", p, "") :
     p \in {q \in DOMAIN generated \cap DOMAIN files : Drifts(q, generated[q], files[q])}}

\* Mutant: the two trees are taken for each other.
SkeletonViolationsSwapped(generated, files) ==
  {Violation("missing", p, "") : p \in DOMAIN files \ DOMAIN generated}
  \cup {Violation("drift", p, "") :
          p \in {q \in DOMAIN generated \cap DOMAIN files : Drifts(q, files[q], generated[q])}}

SkeletonViolations(generated, files) ==
  {Violation("missing", p, "") : p \in DOMAIN generated \ DOMAIN files}
  \cup {Violation("drift", p, "") :
          p \in {q \in DOMAIN generated \cap DOMAIN files : Drifts(q, generated[q], files[q])}}

\* check(spec, project), `generated` being the tree regenerated from the spec.
CheckProject(generated, files) == SkeletonViolations(generated, files) \cup BoundaryScan(files)
=============================================================================
