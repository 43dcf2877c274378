------------------------------ MODULE Project ------------------------------
(***************************************************************************)
(* The life of a generated project: its spec changes, `scaffold` writes    *)
(* the tree anew (or is killed half-way), people and agents edit files     *)
(* inside and outside the impl blocks, and `check` judges the result.      *)
(***************************************************************************)
EXTENDS Check

CONSTANTS
  Specs,      \* the specs the domain-spec.yaml may hold
  Editable,   \* the paths somebody edits, adds or deletes
  Palette,    \* the lines somebody types
  MaxEdits    \* bound: edits to one generated tree

ASSUME SpecsValid == \A s \in Specs : ValidSpec(s)
ASSUME SpecsTyped == \A s \in Specs : WellTyped(s) /\ SnakeTyped(s)
ASSUME EditsTyped ==
  /\ MaxEdits \in Nat
  /\ \A p \in Editable : IsList(p)
  /\ \A l \in Palette : l.mark \in Marks /\ \A i \in l.imports : IsModule(i.real)

\* How the words of the boundary rules are spelled.
ASSUME Spelling ==
  /\ {".", "contexts", "domain"} \cup ForbiddenImports \subseteq STRING
  /\ "contexts" \o "." = "contexts." /\ "." \o "ports" = ".ports" /\ "." \o "domain" = ".domain"

\* A name has no dot in it: an identifier, and a module that _snake makes of one.
NoDot(word) == \A k \in 1..Len(word) : SubSeq(word, k, k) # "."

ASSUME NamesHaveNoDot ==
  /\ \A name \in Identifiers : NoDot(name)
  /\ \A s \in Specs : \A c \in Range(s.contexts) : \A d \in Range(c.domains) :
       NoDot(Snake[d.name] \o "_state")

\* No package that generated files import holds a forbidden word, and no ring
\* but the domain is named so.
ASSUME PackagesApart ==
  /\ Len(".") = 1 /\ Len("domain") < Len("contexts") /\ NoDot("contexts") /\ NoDot("exceptions")
  /\ \A f \in ForbiddenImports :
       /\ \A k \in 2..Len(f) : SubSeq(f, k, k) # "."
       /\ ~Occurs(f, "contexts") /\ ~Occurs(f, ".domain") /\ ~Occurs(f, "." \o "exceptions")
  /\ ~Occurs(".domain", "." \o "application")
  /\ \A file \in {"serializers", "views"} :
       ~Occurs(".domain", ("." \o "adapters") \o (("." \o "web") \o ("." \o file)))

NotChecked == {Violation("not checked", <<>>, "")}
NoFiles == <<>>

\* What scaffold does with each spec, computed once.
WritesOf == [s \in Specs |-> Writes(s)]
Generated == [s \in Specs |-> ScaffoldTree(s)]

VARIABLES
  spec,    \* domain-spec.yaml
  files,   \* the project directory
  report,  \* what the last check said of this very spec and tree
  edits    \* edits since the tree was generated

vars == <<spec, files, report, edits>>

-----------------------------------------------------------------------------
Init ==
  /\ spec \in Specs
  /\ files = NoFiles
  /\ report = NotChecked
  /\ edits = 0

\* A merged change of the spec.
ChangeSpec(new) ==
  /\ new # spec
  /\ spec' = new
  /\ report' = NotChecked
  /\ UNCHANGED <<files, edits>>

\* `hexaarch scaffold`: the directory is removed, then every file written.
Regenerate ==
  /\ files' = Generated[spec]
  /\ report' = NotChecked
  /\ edits' = 0
  /\ UNCHANGED spec

\* A scaffold that is killed after its first n writes.  As bounds, it starts on
\* an unedited tree (which it removes in any case) and nobody edits the rest.
\* What a kill inside rmtree or inside a write leaves, a tree that lacks files or
\* a file that lacks its last lines, is among what the edits below make.
Interrupt(n) ==
  /\ edits = 0
  /\ files' = WrittenTree(SubSeq(WritesOf[spec], 1, n))
  /\ report' = NotChecked
  /\ edits' = MaxEdits
  /\ UNCHANGED spec

Edit(new) ==
  /\ files # NoFiles
  /\ edits < MaxEdits
  /\ files' = new
  /\ edits' = edits + 1
  /\ report' = NotChecked
  /\ UNCHANGED spec

InsertLine(p, i, line) ==
  /\ i <= Len(files[p])
  /\ Edit([files EXCEPT ![p] = InsertAt(@, i + 1, line)])

RemoveLine(p, i) == Edit([files EXCEPT ![p] = RemoveAt(@, i)])

AddFile(p, line) ==
  /\ p \notin DOMAIN files
  /\ Edit([q \in DOMAIN files \cup {p} |-> IF q = p THEN <<line>> ELSE files[q]])

DeleteFile(p) == Edit([q \in DOMAIN files \ {p} |-> files[q]])

\* `hexaarch check domain-spec.yaml .`
RunCheck ==
  /\ report' = CheckProject(Generated[spec], files)
  /\ UNCHANGED <<spec, files, edits>>

Next ==
  \/ \E new \in Specs : ChangeSpec(new)
  \/ Regenerate
  \/ \E n \in 1..(Len(WritesOf[spec]) - 1) : Interrupt(n)
  \/ \E p \in Editable \cap DOMAIN files :
       \E i \in 0..Len(files[p]), line \in Palette : InsertLine(p, i, line)
  \/ \E p \in Editable \cap DOMAIN files : \E i \in 1..Len(files[p]) : RemoveLine(p, i)
  \/ \E p \in Editable, line \in Palette : AddFile(p, line)
  \/ \E p \in Editable \cap DOMAIN files : DeleteFile(p)
  \/ RunCheck

Spec == Init /\ [][Next]_vars

-----------------------------------------------------------------------------
(* What belongs to whom, said of positions and not of a scan.              *)

\* Line i is the developer's: the last marker above it opens an impl block.
DeveloperOwned(lines, i) ==
  /\ lines[i].mark = "plain"
  /\ \E j \in 1..(i - 1) : /\ lines[j].mark = "open"
                           /\ \A k \in (j + 1)..(i - 1) : lines[k].mark = "plain"

Skeleton(lines) ==
  FlattenSeq([i \in DOMAIN lines |-> When(~DeveloperOwned(lines, i), <<lines[i]>>)])

\* The generated file p, with these lines, is still there with its skeleton.
Intact(p, expected) ==
  /\ p \in DOMAIN files
  /\ \/ files[p] = expected
     \/ /\ IsTable(p)
        /\ \A k \in DOMAIN expected : k \in DOMAIN files[p] /\ files[p][k] = expected[k]
     \/ ~IsTable(p) /\ Skeleton(files[p]) = Skeleton(expected)

Checked == report # NotChecked
Passes == report = {}
Reported(kinds) == {v.path : v \in {w \in report : w.kind \in kinds}}

\* What the domain may not load, by the module that Python loads.
Frameworks == {"django", "rest_framework", "sqlalchemy", "requests", "httpx", "celery", "redis"}

\* A directory whose name begins with __ is no context to check.
PythonIn(ring) ==
  {p \in DOMAIN files : /\ Len(p) > 5 /\ p[1] = "src" /\ p[2] = "contexts"
                        /\ ~StartsWith(p[3], "__")
                        /\ p[4] = ring /\ p[Len(p)] = "py"}
DomainPython == PythonIn("domain")
WebPython == {p \in PythonIn("adapters") : Len(p) > 6 /\ p[5] = "web"}

\* A framework, the core of another context that is there, or an outer ring.
CrossesBoundary(ctx, module) ==
  \/ module[1] \in Frameworks
  \/ /\ module[1] = "contexts" /\ Len(module) > 1
     /\ \/ module[2] \in {p[3] : p \in DomainPython} \ {ctx}
        \/ (Len(module) > 2 /\ module[3] \in {"adapters", "application", "ports"})

ImportsOf(p) == UNION {l.imports : l \in Range(files[p])}

\* `import a.b.c` and `from a.b.c import x` spell the module out.
SpelledOut(import) == import.seen = Dotted(import.real)

\* Of the contexts that are scanned, no generated module name holds a forbidden
\* word, nor the beginning of the name of a module of another.
NamesApart ==
  {s \in Specs :
    LET scanned == {c \in Range(s.contexts) : ~StartsWith(c.name, "__")}
    IN  \A c \in {x \in scanned : Aggregates(x) # <<>> \/ x.decision_tables # <<>>} :
          /\ \A f \in ForbiddenImports :
               /\ ~Occurs(f, "." \o c.name)
               /\ \A d \in Range(Aggregates(c)) : ~Occurs(f, "." \o (Snake[d.name] \o "_state"))
          /\ \A other \in scanned :
               other.name # c.name =>
                 ~Occurs("contexts." \o other.name, ("contexts." \o c.name) \o ".domain")}

\* Two artefacts of the spec never share a file.
PathsApart ==
  {s \in Specs : \A v, w \in Range(WritesOf[s]) : v.path = w.path => v.lines = w.lines}

-----------------------------------------------------------------------------
\* The tree is a tree of lines, and a report names files as they are there.
TypeOK ==
  /\ spec \in Specs
  /\ edits \in 0..MaxEdits
  /\ \A p \in DOMAIN files : IsList(files[p]) /\ \A l \in Range(files[p]) : l.mark \in Marks
  /\ Checked => \A v \in report :
       /\ v.kind \in {"missing", "drift", "boundary"}
       /\ v.kind = "missing" <=> v.path \notin DOMAIN files

\* Drift and missing are exact: reported are the generated files whose part
\* outside the impl blocks is not the spec's, and no others - whatever edits
\* led here, nested and lost markers included (check.py:11-13).
DriftIsExact ==
  Checked =>
    LET generated == Generated[spec]
        reported == Reported({"missing", "drift"})
    IN  \A p \in DOMAIN generated :
          (\A l \in Range(generated[p]) : l.mark # "both") =>
            (p \in reported <=> ~Intact(p, generated[p]))

\* A readable domain file that leaves the domain, or a web file that goes past
\* the application to the domain, by an import that spells the module out, is
\* reported: in an impl block and in a new file too (check.py:14, :129).
CrossingsReported ==
  Checked =>
    \A p \in DomainPython \cup WebPython : Parses(files[p]) =>
      \A i \in ImportsOf(p) :
        /\ SpelledOut(i)
        /\ IF p \in DomainPython THEN CrossesBoundary(p[3], i.real)
                                ELSE IsPrefix(<<"contexts", p[3], "domain">>, i.real)
        => p \in Reported({"boundary"})

\* The two copies of the boundary rules, in check and in the generated test,
\* agree on every file that parses, but for the web adapters of a context that
\* has no domain, which the test passes over; a file that does not parse fails
\* the test alone (scaffold.py:190, :219, check.py:94).
TestAgreesWithCheck ==
  Checked =>
    (BoundaryTestPasses(files) <=>
       \A p \in DomainPython \cup WebPython :
         HasDomain(files, p[3]) => Parses(files[p]) /\ p \notin Reported({"boundary"}))

\* A project that passes runs the state machine of the spec it is checked
\* against, not of one before: a spec change or a half-written scaffold never
\* passes with the old ALLOWED table.
PassRunsTheSpec ==
  Checked /\ Passes /\ spec \in PathsApart =>
    \A c \in Range(spec.contexts) : \A d \in Range(Aggregates(c)) :
      LET p == DomainFile(c, Snake[d.name] \o "_state")
      IN  p \in DOMAIN files /\
          \E l \in Range(files[p]) :
            /\ l.text[1] = "states"
            /\ l.text[3] = d.states
            /\ \A s, t \in Range(d.states) : t \in l.text[4][s] <=> <<s, t>> \in Edges(d)

\* A tree fresh from scaffold passes its own check exactly if the names of the
\* spec keep apart what the substring scan tells apart - of a spec whose files
\* all survive the scaffold (check.py:120, :126).
FreshVerdict ==
  Checked /\ files = Generated[spec] /\ spec \in PathsApart => (Passes <=> spec \in NamesApart)

-----------------------------------------------------------------------------
(* What the documents promise and the code does not keep.                  *)

\* Regenerating keeps what developers wrote in the impl blocks that are still
\* generated (DESIGN-v0.5.md:280).
ImplSurvives ==
  [][edits' = 0 /\ files' # files =>
       \A p \in DOMAIN files \cap DOMAIN Generated[spec] :
         Skeleton(files[p]) = Skeleton(Generated[spec][p]) => files'[p] = files[p]]_vars

\* No generated line outside an impl block is changed unnoticed (README:48).
NothingElseDrifts ==
  Checked /\ Passes => \A p \in DOMAIN Generated[spec] : Intact(p, Generated[spec][p])

\* A project that passes has no domain file that loads what is beyond the
\* boundary (README:50).
BoundaryHolds ==
  Checked /\ Passes =>
    \A p \in DomainPython : \A i \in ImportsOf(p) :
      ~CrossesBoundary(p[3], i.real) \/ Unparsable \in Range(files[p])

\* Every outbound port of every aggregate has its stub (scaffold.py:3).
EveryPortHasItsStub ==
  files = Generated[spec] =>
    \A c \in Range(spec.contexts) : \A d \in Range(Aggregates(c)) : \A port \in Range(d.ports_out) :
      Plain(<<"port", port>>) \in Range(files[InContext(c, <<"ports">>, "ports_out")])
=============================================================================
