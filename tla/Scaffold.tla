------------------------------ MODULE Scaffold ------------------------------
(***************************************************************************)
(* The generator of hexaarch/scaffold.py: the tree of files it makes of a  *)
(* valid spec.  A tree maps a path (directories, file name, suffix) to the *)
(* file's lines.  One line of the model stands for a run of generated lines*)
(* of equal standing; its text is the template and what is filled into it. *)
(* Wording, and imports of files that no boundary rule is about, are left  *)
(* out.                                                                    *)
(***************************************************************************)
EXTENDS SpecIR, SequencesExt

CONSTANTS
  Snake,  \* _snake: name -> its snake_case form
  Slug    \* _ident: name -> identifier slug, "" where none can be made

\* The packages that generated imports name.
ASSUME WordsAreStrings ==
  {"contexts", "domain", "exceptions", "application", "adapters", "web", "serializers", "views"}
    \subseteq STRING

Marks == {"plain", "open", "close", "both"}

(***************************************************************************)
(* mark    "open" / "close" if the line holds an impl marker, "both" if it *)
(*         holds one of each, else "plain"                                 *)
(* imports statements [seen, real]: the module string ast shows, and the   *)
(*         module that Python loads                                        *)
(***************************************************************************)
Line(mark, text, imports) == [mark |-> mark, text |-> text, imports |-> imports]

Plain(text) == Line("plain", text, {})
Importing(text, imports) == Line("plain", text, imports)

\* A module as Python loads it, by the names of its packages.
IsModule(module) == module \in Seq(STRING) /\ module # <<>>

\* The parts of a module's name, joined by dots.
Dotted(module) ==
  LET joined[n \in 1..Len(module)] ==
        IF n = 1 THEN module[1] ELSE joined[n - 1] \o "." \o module[n]
  IN  joined[Len(module)]

\* _snake makes a module's name of a domain's.
SnakeTyped(spec) ==
  \A c \in Range(spec.contexts) : \A d \in Range(c.domains) : Snake[d.name] \o "_state" \in STRING

\* `import a.b.c`, or `from a.b.c import x`
Import(module) == [seen |-> Dotted(module), real |-> module]
Own(c, rest) == Import(<<"contexts", c.name>> \o rest)

\* An impl block: the region that belongs to the developer.
ImplBlock(label, body) ==
  <<Line("open", <<"impl", label>>, {})>> \o body \o <<Line("close", <<"end impl">>, {})>>

Each(emit(_), items) == FlattenSeq([k \in DOMAIN items |-> emit(items[k])])
When(condition, items) == IF condition THEN items ELSE <<>>
OrElse(slug, fallback) == IF slug = "" THEN fallback ELSE slug

Write(path, lines) == [path |-> path, lines |-> lines]

InContext(c, dirs, file) == <<"src", "contexts", c.name>> \o dirs \o <<file, "py">>
DomainFile(c, mod) == InContext(c, <<"domain">>, mod)
TestFile(name) == <<"tests", "test_" \o name, "py">>

Aggregates(c) == Each(LAMBDA d : When(d.kind = "aggregate", <<d>>), c.domains)
Names(items) == [k \in DOMAIN items |-> items[k].name]

-----------------------------------------------------------------------------
(* _emit_domain                                                            *)

StateTable(d) ==
  <<Plain(<<"states", d.name, d.states,
            [s \in Range(d.states) |-> IF s \in DOMAIN d.transitions THEN d.transitions[s] ELSE {}]>>)>>

AggregateClass(c, d) ==
  <<Importing(<<"aggregate", d.name, c.name, d.states[1]>>,
              {Own(c, <<"domain", Snake[d.name] \o "_state">>), Own(c, <<"domain", "exceptions">>)})>>
  \o ImplBlock(<<"only here">>, <<Plain(<<"rules", d.guards, d.invariants, d.relationship_invariants>>)>>)

Ports(c, ports) ==
  <<Plain(<<"ports", c.name>>)>>
  \o Each(LAMBDA p : <<Plain(<<"port", p>>)>> \o ImplBlock(<<"method signatures">>, <<Plain(<<"...">>)>>),
          ports)

\* The functions are named in a dictionary by formula id.
Formulas(d) ==
  LET named(f) == ById(d.formulas)[f.id]
      def(f) == Plain(<<"def", OrElse(Slug[named(f).name], Slug[f.id])>>)
  IN  <<Plain(<<"calculation", d.name>>)>>
      \o Each(LAMBDA f : ImplBlock(<<f.id, f.name>>, <<def(f)>>), d.formulas)

\* Every aggregate of a context writes its ports to the same ports_out.py.
EmitDomain(c, d) ==
  LET mod == Snake[d.name]
  IN  CASE d.kind = "aggregate" ->
             <<Write(DomainFile(c, mod \o "_state"), StateTable(d)),
               Write(DomainFile(c, mod), AggregateClass(c, d))>>
             \o When(d.ports_out # <<>>,
                  <<Write(InContext(c, <<"ports">>, "__init__"), <<>>),
                    Write(InContext(c, <<"ports">>, "ports_out"), Ports(c, d.ports_out))>>)
        [] d.kind = "calculation" -> <<Write(DomainFile(c, mod), Formulas(d))>>
        [] d.kind = "reference" ->
             <<Write(DomainFile(c, mod),
                     <<Plain(<<"reference", d.name>>)>> \o ImplBlock(<<d.name>>, <<>>))>>
        [] OTHER -> <<>>

-----------------------------------------------------------------------------
(* _emit_decision_tables: header-only csv, evaluator, loader and test.     *)

TableSlug(t) == OrElse(Slug[t.name], Slug[t.id])

\* What the templates are given of a table: its columns, and the lookup kind
\* (a range over several inputs is looked up in as many dimensions).
Columns(t) ==
  [kind |-> IF t.kind = "range" THEN <<"range", Len(t.inputs)>> ELSE <<"exact", Len(t.inputs)>>,
   inputs |-> [k \in DOMAIN t.inputs |-> OrElse(Slug[t.inputs[k]], "in" \o ToString(k))],
   output |-> OrElse(Slug[t.output], "out"),
   versioned |-> t.versioned]

EmitTable(c, t) ==
  LET slug == TableSlug(t)
      given(template) == <<template, c.name, slug, t.id, t.kind, Columns(t)>>
  IN  <<Write(<<"src", "contexts", c.name, "domain", "decision_tables", slug, "csv">>,
              <<Plain(<<"csv", t.id, t.name, t.kind, t.inputs, t.output, Columns(t)>>)>>),
        Write(DomainFile(c, slug \o "_table"),
              <<Importing(given("evaluator"), {Own(c, <<"domain", "exceptions">>)})>>),
        Write(InContext(c, <<"adapters">>, slug \o "_loader"), <<Plain(given("loader"))>>),
        Write(TestFile(c.name \o "_" \o slug \o "_table"), <<Plain(given("table test"))>>)>>

EmitTables(c) ==
  <<Write(InContext(c, <<"adapters">>, "__init__"), <<>>)>>
  \o Each(LAMBDA t : EmitTable(c, t), c.decision_tables)

-----------------------------------------------------------------------------
(* _emit_web: application services and the Django REST adapter over them.  *)

EmitService(c, d) ==
  Write(InContext(c, <<"application">>, Snake[d.name] \o "_service"),
        <<Plain(<<"service", d.name, c.name>>)>> \o ImplBlock(<<"use case">>, <<Plain(<<"__init__">>)>>))

WebClasses(template, aggs) ==
  Each(LAMBDA a : <<Plain(<<template, a>>)>> \o ImplBlock(<<template>>, <<Plain(<<"body">>)>>), aggs)

EmitWeb(c) ==
  LET aggs == Names(Aggregates(c))
      web(file, lines) == Write(InContext(c, <<"adapters", "web">>, file), lines)
  IN  Each(LAMBDA d : <<EmitService(c, d)>>, Aggregates(c))
      \o <<Write(InContext(c, <<"application">>, "__init__"), <<Plain(<<"services", c.name, aggs>>)>>),
           Write(InContext(c, <<"adapters">>, "__init__"), <<>>),
           web("__init__", <<>>),
           web("serializers", <<Plain(<<"serializers", c.name>>)>> \o WebClasses("serializer", aggs)),
           web("views",
               <<Importing(<<"views", c.name, aggs>>,
                           {Own(c, <<"application">>), Own(c, <<"adapters", "web", "serializers">>)})>>
               \o WebClasses("view", aggs)),
           web("urls",
               <<Importing(<<"urls", c.name, aggs>>, {Own(c, <<"adapters", "web", "views">>)})>>
               \o ImplBlock(<<"routes">>, <<Plain(<<"routes", aggs>>)>>)
               \o <<Plain(<<"]">>)>>)>>

-----------------------------------------------------------------------------
(* scaffold                                                                *)

\* What the domain core may not import, by words that may not occur.
ForbiddenImports ==
  {"adapters", "application", ".ports", "django", "rest_framework", "sqlalchemy", "requests",
   "httpx", "celery", "redis"}

\* Rule 1 of AGENTS.md quotes the opening and the closing marker on one line.
Agents(spec) ==
  <<Plain(<<"contexts", [k \in DOMAIN spec.contexts |->
               <<spec.contexts[k].name, Names(spec.contexts[k].domains)>>]>>),
    Line("both", <<"rule 1">>, {}),
    Plain(<<"rules 2 to 4", ForbiddenImports>>)>>

EmitContext(c, web) ==
  <<Write(InContext(c, <<>>, "__init__"), <<>>)>>
  \o When(c.domains # <<>> \/ c.decision_tables # <<>>,
       <<Write(DomainFile(c, "__init__"), <<>>),
         Write(DomainFile(c, "exceptions"),
               <<Plain(<<"exceptions", c.name, Aggregates(c) # <<>>, c.decision_tables # <<>>>>)>>)>>)
  \o Each(LAMBDA d : EmitDomain(c, d), c.domains)
  \o When(c.decision_tables # <<>>, EmitTables(c))
  \o When(web = "drf" /\ Aggregates(c) # <<>>, EmitWeb(c))

EmitTests(c) ==
  Each(LAMBDA d :
         <<Write(TestFile(c.name \o "_" \o Snake[d.name] \o "_transitions"),
                 <<Plain(<<"transition test", c.name, d.name>>)>>)>>,
       Aggregates(c))

\* The writes of one run, in the order it makes them.
Writes(spec) ==
  <<Write(<<"src", "contexts", "__init__", "py">>, <<>>)>>
  \o Each(LAMBDA c : EmitContext(c, spec.web), spec.contexts)
  \o <<Write(<<"tests", "__init__", "py">>, <<>>)>>
  \o Each(EmitTests, spec.contexts)
  \o <<Write(TestFile("boundary"), <<Plain(<<"boundary test", ForbiddenImports>>)>>),
       Write(<<".arch", "import-rules", "toml">>, <<Plain(<<"import rules", Names(spec.contexts)>>)>>),
       Write(<<"AGENTS", "md">>, Agents(spec))>>

\* A path written twice holds what was written last.
WrittenTree(writes) ==
  [p \in {writes[k].path : k \in DOMAIN writes} |->
     LastAt(writes, {k \in DOMAIN writes : writes[k].path = p}).lines]

ScaffoldTree(spec) == WrittenTree(Writes(spec))
=============================================================================
