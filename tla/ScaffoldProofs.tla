--------------------------- MODULE ScaffoldProofs ---------------------------
(***************************************************************************)
(* What is true of every tree that scaffold writes, whatever valid spec it *)
(* is given: its paths and its files are lists and its lines are legal     *)
(* ones, and every context's package, every aggregate's state table and    *)
(* class and every table's evaluator is written.                           *)
(***************************************************************************)
EXTENDS Scaffold, ListLemmas

\* The lines of a file of the tree.
LegalLine(l) == l.mark \in Marks /\ \A i \in l.imports : IsModule(i.real)
LegalLines(lines) == IsList(lines) /\ \A l \in Range(lines) : LegalLine(l)

LegalWrites(writes) ==
  IsList(writes) /\ \A v \in Range(writes) : IsList(v.path) /\ LegalLines(v.lines)

LegalTree(tree) == \A p \in DOMAIN tree : IsList(p) /\ LegalLines(tree[p])

-----------------------------------------------------------------------------
(* Lines.                                                                  *)

\* The constructors of lines make legal ones.
LEMMA LineConstructors ==
  ASSUME NEW text
  PROVE  /\ \A mark \in Marks : LegalLine(Line(mark, text, {}))
         /\ LegalLine(Plain(text))
         /\ \A imports : (\A i \in imports : IsModule(i.real)) => LegalLine(Importing(text, imports))
BY DEF LegalLine, Line, Plain, Importing, Marks

\* A sequence that is longer than a pair is not empty.
LEMMA LongerSequence ==
  ASSUME NEW S, NEW front \in Seq(S), NEW rest \in Seq(S), Len(front) = 2
  PROVE  front \o rest \in Seq(S) /\ front \o rest # <<>>
<1>1. /\ front \o rest \in Seq(S)
      /\ Len(front \o rest) = Len(front) + Len(rest)
      /\ Len(rest) \in Nat
  <2>1. front \o rest \in Seq(S)
    BY ConcatProperties
  <2>2. Len(front \o rest) = Len(front) + Len(rest)
    BY ConcatProperties
  <2>3. Len(rest) \in Nat
    OBVIOUS
  <2> QED BY <2>1, <2>2, <2>3
<1> DEFINE module == front \o rest
<1>2. Len(module) # 0
  BY <1>1
<1> HIDE DEF module
<1>3. module # <<>>
  BY <1>2
<1> QED
  BY <1>1, <1>3 DEF module

\* An import of a module of the context's own.
LEMMA OwnImport ==
  ASSUME NEW c, c.name \in STRING, NEW rest \in Seq(STRING)
  PROVE  IsModule(Own(c, rest).real)
<1> DEFINE front == <<"contexts", c.name>>
<1>1. front \in Seq(STRING) /\ Len(front) = 2
  BY WordsAreStrings
<1> HIDE DEF front
<1> DEFINE module == front \o rest
<1>2. module \in Seq(STRING) /\ module # <<>>
  BY <1>1, LongerSequence
<1>3. Own(c, rest).real = module
  BY DEF Own, Import, front
<1> QED
  BY <1>2, <1>3 DEF IsModule

\* Files of no line and of one line, and files put together.
LEMMA LegalParts ==
  /\ LegalLines(<<>>)
  /\ \A l : LegalLine(l) => LegalLines(<<l>>)
  /\ \A a, b : LegalLines(a) /\ LegalLines(b) => LegalLines(a \o b)
<1>1. LegalLines(<<>>)
  BY ShortLists DEF LegalLines
<1>2. ASSUME NEW l, LegalLine(l)
      PROVE  LegalLines(<<l>>)
  BY <1>2, ShortLists DEF LegalLines
<1>3. ASSUME NEW a, NEW b, LegalLines(a), LegalLines(b)
      PROVE  LegalLines(a \o b)
  <2>1. IsList(a \o b) /\ Range(a \o b) = Range(a) \cup Range(b)
    BY <1>3, ListConcat DEF LegalLines
  <2> QED BY <1>3, <2>1 DEF LegalLines
<1> QED
  BY <1>1, <1>2, <1>3

\* A run of lines for each item of a list.
LEMMA LegalPieces ==
  ASSUME NEW items, IsList(items), NEW f, f = [k \in DOMAIN items |-> f[k]],
         \A k \in DOMAIN items : LegalLines(f[k])
  PROVE  LegalLines(FlattenSeq(f))
<1>1. \A k \in DOMAIN items : IsList(f[k]) /\ \A l \in Range(f[k]) : LegalLine(l)
  BY DEF LegalLines
<1>2. /\ IsList(FlattenSeq(f))
      /\ \A l : l \in Range(FlattenSeq(f)) <=> \E k \in DOMAIN items : l \in Range(f[k])
  BY <1>1, FlattenPieces
<1> QED
  BY <1>1, <1>2 DEF LegalLines

\* An impl block is legal if what stands in it is.
LEMMA LegalImplBlock ==
  ASSUME NEW label, NEW body, LegalLines(body)
  PROVE  LegalLines(ImplBlock(label, body))
<1>1. /\ LegalLine(Line("open", <<"impl", label>>, {}))
      /\ LegalLine(Line("close", <<"end impl">>, {}))
  BY LineConstructors DEF Marks
<1> QED
  BY <1>1, LegalParts DEF ImplBlock

\* A file that is one plain line, or one line with imports of the context's own.
LEMMA LegalOneLine ==
  ASSUME NEW text
  PROVE  /\ LegalLines(<<Plain(text)>>)
         /\ \A imports : (\A i \in imports : IsModule(i.real)) => LegalLines(<<Importing(text, imports)>>)
BY LineConstructors, LegalParts

-----------------------------------------------------------------------------
(* Lists of writes.                                                        *)

\* No write, one write, and writes put together.
LEMMA LegalWriteParts ==
  /\ LegalWrites(<<>>)
  /\ \A v : IsList(v.path) /\ LegalLines(v.lines) => LegalWrites(<<v>>)
  /\ \A a, b : LegalWrites(a) /\ LegalWrites(b) => LegalWrites(a \o b)
<1>1. LegalWrites(<<>>)
  BY ShortLists DEF LegalWrites
<1>2. ASSUME NEW v, IsList(v.path), LegalLines(v.lines)
      PROVE  LegalWrites(<<v>>)
  BY <1>2, ShortLists DEF LegalWrites
<1>3. ASSUME NEW a, NEW b, LegalWrites(a), LegalWrites(b)
      PROVE  LegalWrites(a \o b)
  <2>1. IsList(a \o b) /\ Range(a \o b) = Range(a) \cup Range(b)
    BY <1>3, ListConcat DEF LegalWrites
  <2> QED BY <1>3, <2>1 DEF LegalWrites
<1> QED
  BY <1>1, <1>2, <1>3

\* Writes made under a condition.
LEMMA LegalWhen ==
  ASSUME NEW condition \in BOOLEAN, NEW writes, LegalWrites(writes)
  PROVE  LegalWrites(When(condition, writes))
BY LegalWriteParts DEF When

\* Writes made for each item of a list.
LEMMA LegalWritePieces ==
  ASSUME NEW items, IsList(items), NEW f, f = [k \in DOMAIN items |-> f[k]],
         \A k \in DOMAIN items : LegalWrites(f[k])
  PROVE  LegalWrites(FlattenSeq(f))
<1>1. \A k \in DOMAIN items :
        IsList(f[k]) /\ \A v \in Range(f[k]) : IsList(v.path) /\ LegalLines(v.lines)
  BY DEF LegalWrites
<1>2. /\ IsList(FlattenSeq(f))
      /\ \A v : v \in Range(FlattenSeq(f)) <=> \E k \in DOMAIN items : v \in Range(f[k])
  BY <1>1, FlattenPieces
<1> QED
  BY <1>1, <1>2 DEF LegalWrites

\* One file written at a path that is a list.
LEMMA LegalWrite ==
  ASSUME NEW path, NEW lines, IsList(path), LegalLines(lines)
  PROVE  /\ Write(path, lines).path = path /\ Write(path, lines).lines = lines
         /\ LegalWrites(<<Write(path, lines)>>)
<1>1. Write(path, lines).path = path /\ Write(path, lines).lines = lines
  BY DEF Write
<1> QED
  BY <1>1, LegalWriteParts

\* The paths of a context: a list that ends in the suffix py.
LEMMA ContextPath ==
  ASSUME NEW c, NEW dirs, NEW file, IsList(dirs)
  PROVE  /\ IsList(InContext(c, dirs, file))
         /\ InContext(c, dirs, file)[Len(InContext(c, dirs, file))] = "py"
<1> DEFINE front == <<"src", "contexts", c.name>>
           back == <<file, "py">>
<1>1. IsList(front) /\ IsList(back) /\ Len(back) = 2 /\ back[2] = "py"
  BY ShortLists, LongerLists
<1> HIDE DEF front, back
<1> DEFINE most == front \o dirs
<1>2. IsList(most)
  BY <1>1, ListConcat
<1>3. IsList(most \o back) /\ Len(most \o back) = Len(most) + 2 /\ (most \o back)[Len(most) + 2] = "py"
  <2> HIDE DEF most
  <2>3. IsList(back)
    BY <1>1
  <2>1. /\ IsList(most \o back)
        /\ Range(most \o back) = Range(most) \cup Range(back)
        /\ Len(most \o back) = Len(most) + Len(back)
        /\ \A k \in 1..Len(most) : (most \o back)[k] = most[k]
        /\ \A k \in 1..Len(back) : (most \o back)[Len(most) + k] = back[k]
    BY <2>3, <1>2, ListConcat
  <2>2. 2 \in 1..Len(back)
    BY <1>1
  <2> QED BY <1>1, <2>1, <2>2
<1>4. InContext(c, dirs, file) = most \o back
  BY DEF InContext, front, back
<1> HIDE DEF most
<1> QED
  BY <1>3, <1>4

\* Where a context's files are.
LEMMA ContextPathParts ==
  ASSUME NEW c, NEW dirs, NEW file, IsList(dirs)
  PROVE  LET p == InContext(c, dirs, file)
         IN  /\ IsList(p) /\ Len(p) = Len(dirs) + 5
             /\ p[1] = "src" /\ p[2] = "contexts" /\ p[3] = c.name
             /\ \A k \in 1..Len(dirs) : p[3 + k] = dirs[k]
             /\ p[Len(p)] = "py"
<1> DEFINE p == InContext(c, dirs, file)
           front == <<"src", "contexts", c.name>>
           back == <<file, "py">>
<1>1. /\ IsList(front) /\ Len(front) = 3
      /\ front[1] = "src" /\ front[2] = "contexts" /\ front[3] = c.name
      /\ IsList(back) /\ Len(back) = 2
  BY ShortLists, LongerLists
<1>2. p = (front \o dirs) \o back
  BY DEF InContext
<1>3. IsList(p) /\ p[Len(p)] = "py"
  BY ContextPath
<1>4. Len(dirs) \in Nat
  BY ListShape
<1> HIDE DEF p, front, back
<1> DEFINE most == front \o dirs
<1>5. /\ IsList(most) /\ Len(most) = 3 + Len(dirs)
      /\ \A k \in 1..3 : most[k] = front[k]
      /\ \A k \in 1..Len(dirs) : most[3 + k] = dirs[k]
  <2>1. IsList(front)
    BY <1>1
  <2>2. /\ IsList(front \o dirs)
        /\ Range(front \o dirs) = Range(front) \cup Range(dirs)
        /\ Len(front \o dirs) = Len(front) + Len(dirs)
        /\ \A k \in 1..Len(front) : (front \o dirs)[k] = front[k]
        /\ \A k \in 1..Len(dirs) : (front \o dirs)[Len(front) + k] = dirs[k]
    BY <2>1, ListConcat
  <2> QED BY <1>1, <2>2
<1> HIDE DEF most
<1>6. /\ Len(most \o back) = Len(most) + Len(back)
      /\ \A k \in 1..Len(most) : (most \o back)[k] = most[k]
  <2>1. IsList(most) /\ IsList(back)
    BY <1>1, <1>5
  <2> QED BY <2>1, ListConcat
<1>7. p = most \o back
  BY <1>2 DEF most
<1>8. Len(p) = Len(dirs) + 5 /\ \A k \in 1..(3 + Len(dirs)) : p[k] = most[k]
  BY <1>1, <1>4, <1>5, <1>6, <1>7
<1>9. p[1] = "src" /\ p[2] = "contexts" /\ p[3] = c.name
  <2>1. 1 \in 1..3 /\ 2 \in 1..3 /\ 3 \in 1..3
    OBVIOUS
  <2>2. \A k \in 1..3 : k \in 1..(3 + Len(dirs))
    BY <1>4
  <2>3. \A k \in 1..3 : p[k] = front[k]
    BY <1>5, <1>8, <2>2
  <2> QED BY <1>1, <2>1, <2>3
<1>10. \A k \in 1..Len(dirs) : p[3 + k] = dirs[k]
  <2>1. \A k \in 1..Len(dirs) : 3 + k \in 1..(3 + Len(dirs))
    BY <1>4
  <2> QED BY <1>5, <1>8, <2>1
<1> QED
  BY <1>3, <1>8, <1>9, <1>10 DEF p

-----------------------------------------------------------------------------
(* The emitters, one lemma each.                                           *)

\* The aggregates of a context are its domains of that kind.
LEMMA AggregatesAreDomains ==
  ASSUME NEW c, IsList(c.domains)
  PROVE  /\ IsList(Aggregates(c))
         /\ Range(Aggregates(c)) = {d \in Range(c.domains) : d.kind = "aggregate"}
<1> DEFINE f == [k \in DOMAIN c.domains |->
                   When(c.domains[k].kind = "aggregate", <<c.domains[k]>>)]
<1>1. Aggregates(c) = FlattenSeq(f)
  BY DEF Aggregates, Each
<1>2. \A k \in DOMAIN c.domains :
        /\ IsList(f[k])
        /\ Range(f[k]) = IF c.domains[k].kind = "aggregate" THEN {c.domains[k]} ELSE {}
  BY ShortLists DEF When
<1>3. f = [k \in DOMAIN c.domains |-> f[k]]
  OBVIOUS
<1> HIDE DEF f
<1>4. /\ IsList(FlattenSeq(f))
      /\ \A d : d \in Range(FlattenSeq(f)) <=> \E k \in DOMAIN c.domains : d \in Range(f[k])
  BY <1>2, <1>3, FlattenPieces
<1>5. Range(c.domains) = {c.domains[k] : k \in DOMAIN c.domains}
  BY DEF Range
<1>6. ASSUME NEW d \in Range(FlattenSeq(f))
      PROVE  d \in Range(c.domains) /\ d.kind = "aggregate"
  <2>1. PICK k \in DOMAIN c.domains : d \in Range(f[k])
    BY <1>4
  <2>2. c.domains[k].kind = "aggregate" /\ d = c.domains[k]
    BY <1>2, <2>1
  <2> QED BY <1>5, <2>2
<1>7. ASSUME NEW d \in Range(c.domains), d.kind = "aggregate"
      PROVE  d \in Range(FlattenSeq(f))
  <2>1. PICK k \in DOMAIN c.domains : d = c.domains[k]
    BY <1>5
  <2>2. d \in Range(f[k])
    BY <1>2, <1>7, <2>1
  <2> QED BY <1>4, <2>2
<1> QED
  BY <1>1, <1>4, <1>6, <1>7

\* What a well-typed spec says of one of its contexts.
TypedContext(c) ==
  /\ c.name \in STRING
  /\ IsList(c.domains) /\ IsList(c.decision_tables)
  /\ \A d \in Range(c.domains) :
       IsList(d.formulas) /\ IsList(d.ports_out) /\ Snake[d.name] \o "_state" \in STRING

\* _emit_domain's ports file and its calculation file.
LEMMA LegalPorts ==
  ASSUME NEW c, NEW ports, IsList(ports)
  PROVE  LegalLines(Ports(c, ports))
<1> DEFINE f == [k \in DOMAIN ports |->
                   <<Plain(<<"port", ports[k]>>)>>
                   \o ImplBlock(<<"method signatures">>, <<Plain(<<"...">>)>>)]
<1>1. Ports(c, ports) = <<Plain(<<"ports", c.name>>)>> \o FlattenSeq(f)
  BY DEF Ports, Each
<1>2. \A k \in DOMAIN ports : LegalLines(f[k])
  BY LegalOneLine, LegalImplBlock, LegalParts
<1>3. f = [k \in DOMAIN ports |-> f[k]]
  OBVIOUS
<1> HIDE DEF f
<1>4. LegalLines(FlattenSeq(f))
  BY <1>2, <1>3, LegalPieces
<1> QED
  BY <1>1, <1>4, LegalOneLine, LegalParts

\* A calculation has an impl block for each of its formulas.
LEMMA LegalFormulas ==
  ASSUME NEW d, IsList(d.formulas)
  PROVE  LegalLines(Formulas(d))
<1> DEFINE F == d.formulas
           def(k) == <<Plain(<<"def", OrElse(Slug[ById(F)[F[k].id].name], Slug[F[k].id])>>)>>
           f == [k \in DOMAIN F |-> ImplBlock(<<F[k].id, F[k].name>>, def(k))]
<1>1. Formulas(d) = <<Plain(<<"calculation", d.name>>)>> \o FlattenSeq(f)
  BY DEF Formulas, Each
<1>2. \A k \in DOMAIN F : LegalLines(f[k])
  <2>1. \A k : LegalLines(def(k))
    BY LegalOneLine
  <2> HIDE DEF def
  <2> QED BY <2>1, LegalImplBlock
<1>3. f = [k \in DOMAIN F |-> f[k]]
  OBVIOUS
<1> HIDE DEF f
<1>4. LegalLines(FlattenSeq(f))
  BY <1>2, <1>3, LegalPieces
<1> QED
  BY <1>1, <1>4, LegalOneLine, LegalParts

\* _emit_domain, for each kind of domain.
LEMMA LegalEmitDomain ==
  ASSUME NEW c, c.name \in STRING,
         NEW d, IsList(d.formulas), IsList(d.ports_out), Snake[d.name] \o "_state" \in STRING
  PROVE  LegalWrites(EmitDomain(c, d))
<1> DEFINE mod == Snake[d.name]
           stateFile == Write(DomainFile(c, mod \o "_state"), StateTable(d))
           classFile == Write(DomainFile(c, mod), AggregateClass(c, d))
           package == Write(InContext(c, <<"ports">>, "__init__"), <<>>)
           stubs == Write(InContext(c, <<"ports">>, "ports_out"), Ports(c, d.ports_out))
<1>1. \A file : IsList(DomainFile(c, file)) /\ IsList(InContext(c, <<"ports">>, file))
  BY ContextPath, ShortLists DEF DomainFile
<1>2. CASE d.kind = "aggregate"
  <2>1. LegalLines(StateTable(d))
    BY LegalOneLine DEF StateTable
  <2>2. LegalLines(AggregateClass(c, d))
    <3> DEFINE state == Own(c, <<"domain", mod \o "_state">>)
               exceptions == Own(c, <<"domain", "exceptions">>)
    <3>1. IsModule(state.real) /\ IsModule(exceptions.real)
      <4>1. <<"domain", mod \o "_state">> \in Seq(STRING) /\ <<"domain", "exceptions">> \in Seq(STRING)
        BY WordsAreStrings
      <4> QED BY <4>1, OwnImport
    <3> HIDE DEF state, exceptions
    <3>2. \A text : LegalLines(<<Importing(text, {state, exceptions})>>)
      BY <3>1, LegalOneLine
    <3> QED BY <3>2, LegalOneLine, LegalImplBlock, LegalParts DEF AggregateClass, state, exceptions
  <2>3. /\ LegalWrites(<<stateFile>>) /\ LegalWrites(<<classFile>>)
        /\ LegalWrites(<<package>>) /\ LegalWrites(<<stubs>>)
    BY <1>1, <2>1, <2>2, LegalPorts, LegalWrite, LegalParts
  <2> HIDE DEF stateFile, classFile, package, stubs
  <2>4. /\ <<stateFile, classFile>> = <<stateFile>> \o <<classFile>>
        /\ <<package, stubs>> = <<package>> \o <<stubs>>
    BY PairIsConcat
  <2>5. LegalWrites(<<stateFile, classFile>>) /\ LegalWrites(<<package, stubs>>)
    BY <2>3, <2>4, LegalWriteParts
  <2>6. LegalWrites(When(d.ports_out # <<>>, <<package, stubs>>))
    BY <2>5, LegalWhen
  <2>7. EmitDomain(c, d) = <<stateFile, classFile>> \o When(d.ports_out # <<>>, <<package, stubs>>)
    BY <1>2 DEF EmitDomain, stateFile, classFile, package, stubs
  <2> QED BY <2>5, <2>6, <2>7, LegalWriteParts
<1>3. CASE d.kind = "calculation"
  <2>1. EmitDomain(c, d) = <<Write(DomainFile(c, mod), Formulas(d))>>
    BY <1>3 DEF EmitDomain
  <2> QED BY <1>1, <2>1, LegalFormulas, LegalWrite
<1>4. CASE d.kind = "reference"
  <2> DEFINE lines == <<Plain(<<"reference", d.name>>)>> \o ImplBlock(<<d.name>>, <<>>)
  <2>1. EmitDomain(c, d) = <<Write(DomainFile(c, mod), lines)>>
    BY <1>4 DEF EmitDomain
  <2>2. LegalLines(lines)
    BY LegalOneLine, LegalImplBlock, LegalParts
  <2> HIDE DEF lines
  <2> QED BY <1>1, <2>1, <2>2, LegalWrite
<1>5. CASE d.kind \notin {"aggregate", "calculation", "reference"}
  <2>1. EmitDomain(c, d) = <<>>
    BY <1>5 DEF EmitDomain
  <2> QED BY <2>1, LegalWriteParts
<1> QED
  BY <1>2, <1>3, <1>4, <1>5

\* A file whose name is one the generator fixes.
LEMMA FixedPaths ==
  /\ \A a, b, c : IsList(<<a, b, c>>)
  /\ \A a, b, c, d : IsList(<<a, b, c, d>>)
  /\ \A a, b : IsList(<<a, b>>)
  /\ \A name : IsList(TestFile(name))
BY ShortLists, LongerLists DEF TestFile

\* _emit_decision_tables.
LEMMA LegalEmitTable ==
  ASSUME NEW c, c.name \in STRING, NEW t
  PROVE  LegalWrites(EmitTable(c, t))
<1> DEFINE slug == TableSlug(t)
           given(template) == <<template, c.name, slug, t.id, t.kind, Columns(t)>>
           table == Write(<<"src", "contexts", c.name, "domain", "decision_tables", slug, "csv">>,
                          <<Plain(<<"csv", t.id, t.name, t.kind, t.inputs, t.output, Columns(t)>>)>>)
           evaluator == Write(DomainFile(c, slug \o "_table"),
                              <<Importing(given("evaluator"), {Own(c, <<"domain", "exceptions">>)})>>)
           loader == Write(InContext(c, <<"adapters">>, slug \o "_loader"), <<Plain(given("loader"))>>)
           test == Write(TestFile(c.name \o "_" \o slug \o "_table"), <<Plain(given("table test"))>>)
<1>1. EmitTable(c, t) = <<table, evaluator, loader, test>>
  BY DEF EmitTable, table, evaluator, loader, test
<1>2. IsList(table.path) /\ LegalLines(table.lines)
  <2>1. \A a, b, x, y, z, u, v : IsList(<<a, b, x, y, z, u, v>>)
    <3> SUFFICES ASSUME NEW a, NEW b, NEW x, NEW y, NEW z, NEW u, NEW v
                 PROVE  IsList(<<a, b, x, y, z, u, v>>)
      OBVIOUS
    <3>1. <<a, b, x, y, z, u, v>> \in Seq({a, b, x, y, z, u, v})
      OBVIOUS
    <3> QED BY <3>1, SeqIsList
  <2> QED BY <2>1, LegalOneLine DEF Write
<1>3. IsList(evaluator.path) /\ LegalLines(evaluator.lines)
  <2> DEFINE exceptions == Own(c, <<"domain", "exceptions">>)
  <2>1. IsModule(exceptions.real)
    BY OwnImport, WordsAreStrings
  <2> HIDE DEF exceptions
  <2>2. \A text : LegalLines(<<Importing(text, {exceptions})>>)
    BY <2>1, LegalOneLine
  <2> QED BY <2>2, ContextPath, ShortLists DEF Write, DomainFile, exceptions
<1>4. IsList(loader.path) /\ LegalLines(loader.lines)
  BY ContextPath, ShortLists, LegalOneLine DEF Write
<1>5. IsList(test.path) /\ LegalLines(test.lines)
  BY FixedPaths, LegalOneLine DEF Write
<1> HIDE DEF table, evaluator, loader, test
<1>6. /\ IsList(<<table, evaluator, loader, test>>)
      /\ Range(<<table, evaluator, loader, test>>) = {table, evaluator, loader, test}
  BY LongerLists
<1> QED
  BY <1>1, <1>2, <1>3, <1>4, <1>5, <1>6 DEF LegalWrites

\* All of a context's tables.
LEMMA LegalEmitTables ==
  ASSUME NEW c, c.name \in STRING, IsList(c.decision_tables)
  PROVE  LegalWrites(EmitTables(c))
<1> DEFINE T == c.decision_tables
           f == [k \in DOMAIN T |-> EmitTable(c, T[k])]
           package == Write(InContext(c, <<"adapters">>, "__init__"), <<>>)
<1>1. EmitTables(c) = <<package>> \o FlattenSeq(f)
  BY DEF EmitTables, Each
<1>2. f = [k \in DOMAIN T |-> f[k]] /\ \A k \in DOMAIN T : LegalWrites(f[k])
  BY LegalEmitTable
<1> HIDE DEF f
<1>3. LegalWrites(FlattenSeq(f))
  BY <1>2, LegalWritePieces
<1>4. LegalWrites(<<package>>)
  BY ContextPath, ShortLists, LegalParts, LegalWrite
<1> HIDE DEF package
<1> QED
  BY <1>1, <1>3, <1>4, LegalWriteParts

\* _emit_web: a class per aggregate, each with an impl block.
LEMMA LegalWebClasses ==
  ASSUME NEW template, NEW aggs, IsList(aggs)
  PROVE  LegalLines(WebClasses(template, aggs))
<1> DEFINE f == [k \in DOMAIN aggs |->
                   <<Plain(<<template, aggs[k]>>)>> \o ImplBlock(<<template>>, <<Plain(<<"body">>)>>)]
<1>1. WebClasses(template, aggs) = FlattenSeq(f)
  BY DEF WebClasses, Each
<1>2. \A k \in DOMAIN aggs : LegalLines(f[k])
  BY LegalOneLine, LegalImplBlock, LegalParts
<1>3. f = [k \in DOMAIN aggs |-> f[k]]
  OBVIOUS
<1> HIDE DEF f
<1> QED
  BY <1>1, <1>2, <1>3, LegalPieces

\* A list of names is a list.
LEMMA NamesAreList ==
  ASSUME NEW items, IsList(items)
  PROVE  IsList(Names(items))
<1>1. Names(items) = [k \in DOMAIN items |-> Names(items)[k]]
  BY DEF Names
<1> QED
  BY <1>1, Pieces

\* The services, and the web adapter over them.
LEMMA LegalEmitWeb ==
  ASSUME NEW c, c.name \in STRING, IsList(c.domains)
  PROVE  LegalWrites(EmitWeb(c))
<1> DEFINE A == Aggregates(c)
           aggs == Names(A)
           web(file, lines) == Write(InContext(c, <<"adapters", "web">>, file), lines)
           f == [k \in DOMAIN A |-> <<EmitService(c, A[k])>>]
           services == Write(InContext(c, <<"application">>, "__init__"),
                             <<Plain(<<"services", c.name, aggs>>)>>)
           adapters == Write(InContext(c, <<"adapters">>, "__init__"), <<>>)
           serializerLines ==
             <<Plain(<<"serializers", c.name>>)>> \o WebClasses("serializer", aggs)
           viewLines ==
             <<Importing(<<"views", c.name, aggs>>,
                         {Own(c, <<"application">>), Own(c, <<"adapters", "web", "serializers">>)})>>
             \o WebClasses("view", aggs)
           urlLines ==
             <<Importing(<<"urls", c.name, aggs>>, {Own(c, <<"adapters", "web", "views">>)})>>
             \o ImplBlock(<<"routes">>, <<Plain(<<"routes", aggs>>)>>)
             \o <<Plain(<<"]">>)>>
           package == web("__init__", <<>>)
           serializers == web("serializers", serializerLines)
           views == web("views", viewLines)
           urls == web("urls", urlLines)
<1>1. IsList(A) /\ IsList(aggs)
  BY AggregatesAreDomains, NamesAreList
<1>2. EmitWeb(c) = FlattenSeq(f) \o <<services, adapters, package, serializers, views, urls>>
  BY DEF EmitWeb, Each
<1> HIDE DEF A, aggs
<1>3. LegalWrites(FlattenSeq(f))
  <2>1. \A d : LegalWrites(<<EmitService(c, d)>>)
    <3> SUFFICES ASSUME NEW d
                 PROVE  LegalWrites(<<EmitService(c, d)>>)
      OBVIOUS
    <3> DEFINE path == InContext(c, <<"application">>, Snake[d.name] \o "_service")
               lines == <<Plain(<<"service", d.name, c.name>>)>>
                        \o ImplBlock(<<"use case">>, <<Plain(<<"__init__">>)>>)
    <3>1. EmitService(c, d) = Write(path, lines)
      BY DEF EmitService
    <3>2. IsList(path)
      BY ContextPath, ShortLists
    <3>3. LegalLines(lines)
      BY LegalOneLine, LegalImplBlock, LegalParts
    <3> HIDE DEF path, lines
    <3> QED BY <3>1, <3>2, <3>3, LegalWrite
  <2>2. f = [k \in DOMAIN A |-> f[k]] /\ \A k \in DOMAIN A : LegalWrites(f[k])
    BY <2>1
  <2> HIDE DEF f
  <2> QED BY <1>1, <2>2, LegalWritePieces
<1>4. /\ LegalLines(serializerLines) /\ LegalLines(<<>>)
      /\ LegalLines(<<Plain(<<"services", c.name, aggs>>)>>)
  BY <1>1, LegalOneLine, LegalWebClasses, LegalParts
<1>5. LegalLines(viewLines) /\ LegalLines(urlLines)
  <2> DEFINE application == Own(c, <<"application">>)
             fields == Own(c, <<"adapters", "web", "serializers">>)
             handlers == Own(c, <<"adapters", "web", "views">>)
  <2>1. IsModule(application.real) /\ IsModule(fields.real) /\ IsModule(handlers.real)
    <3>1. /\ <<"application">> \in Seq(STRING)
          /\ <<"adapters", "web", "serializers">> \in Seq(STRING)
          /\ <<"adapters", "web", "views">> \in Seq(STRING)
      BY WordsAreStrings
    <3> QED BY <3>1, OwnImport
  <2> HIDE DEF application, fields, handlers
  <2>2. /\ \A text : LegalLines(<<Importing(text, {application, fields})>>)
        /\ \A text : LegalLines(<<Importing(text, {handlers})>>)
    BY <2>1, LegalOneLine
  <2>3. LegalLines(viewLines)
    BY <1>1, <2>2, LegalWebClasses, LegalParts DEF application, fields
  <2>4. LegalLines(urlLines)
    BY <2>2, LegalOneLine, LegalImplBlock, LegalParts DEF handlers
  <2> QED BY <2>3, <2>4
<1> HIDE DEF serializerLines, viewLines, urlLines, f
<1>6. \A dirs, file : IsList(dirs) => IsList(InContext(c, dirs, file))
  BY ContextPath
<1>7. IsList(<<"adapters", "web">>) /\ IsList(<<"adapters">>) /\ IsList(<<"application">>)
  BY ShortLists
<1>8. \A lines, file : LegalLines(lines) =>
        IsList(web(file, lines).path) /\ LegalLines(web(file, lines).lines)
  BY <1>6, <1>7 DEF Write
<1>9. /\ IsList(services.path) /\ LegalLines(services.lines)
      /\ IsList(adapters.path) /\ LegalLines(adapters.lines)
  BY <1>4, <1>6, <1>7 DEF Write
<1>10. /\ IsList(package.path) /\ LegalLines(package.lines)
       /\ IsList(serializers.path) /\ LegalLines(serializers.lines)
       /\ IsList(views.path) /\ LegalLines(views.lines)
       /\ IsList(urls.path) /\ LegalLines(urls.lines)
  <2> HIDE DEF web
  <2> QED BY <1>4, <1>5, <1>8
<1> HIDE DEF services, adapters, package, serializers, views, urls
<1>11. LegalWrites(<<services, adapters, package, serializers, views, urls>>)
  <2> DEFINE w == <<services, adapters, package, serializers, views, urls>>
  <2>1. IsList(w) /\ Range(w) = {services, adapters, package, serializers, views, urls}
    BY LongerLists
  <2> HIDE DEF w
  <2>2. LegalWrites(w)
    BY <1>9, <1>10, <2>1 DEF LegalWrites
  <2> QED BY <2>2 DEF w
<1> QED
  BY <1>2, <1>3, <1>11, LegalWriteParts

-----------------------------------------------------------------------------
(* The whole run.                                                          *)

\* AGENTS.md: the one line with both markers is a legal line too.
LEMMA LegalAgents ==
  ASSUME NEW spec
  PROVE  LegalLines(Agents(spec))
<1> DEFINE first == Plain(<<"contexts", [k \in DOMAIN spec.contexts |->
                             <<spec.contexts[k].name, Names(spec.contexts[k].domains)>>]>>)
           second == Line("both", <<"rule 1">>, {})
           third == Plain(<<"rules 2 to 4", ForbiddenImports>>)
<1>1. LegalLine(first) /\ LegalLine(second) /\ LegalLine(third)
  BY LineConstructors DEF Marks
<1>2. Agents(spec) = <<first, second, third>>
  BY DEF Agents
<1> HIDE DEF first, second, third
<1>3. /\ IsList(<<first, second, third>>)
      /\ Range(<<first, second, third>>) = {first, second, third}
  BY LongerLists
<1> QED
  BY <1>1, <1>2, <1>3 DEF LegalLines

\* One context: its package, its core, its tables and its web rings.
LEMMA LegalEmitContext ==
  ASSUME NEW c, TypedContext(c), NEW web
  PROVE  LegalWrites(EmitContext(c, web))
<1> DEFINE D == c.domains
           f == [k \in DOMAIN D |-> EmitDomain(c, D[k])]
           package == Write(InContext(c, <<>>, "__init__"), <<>>)
           domain == Write(DomainFile(c, "__init__"), <<>>)
           exceptions == Write(DomainFile(c, "exceptions"),
             <<Plain(<<"exceptions", c.name, Aggregates(c) # <<>>, c.decision_tables # <<>>>>)>>)
           core == When(c.domains # <<>> \/ c.decision_tables # <<>>, <<domain, exceptions>>)
           tables == When(c.decision_tables # <<>>, EmitTables(c))
           rings == When(web = "drf" /\ Aggregates(c) # <<>>, EmitWeb(c))
<1>1. EmitContext(c, web) = <<package>> \o core \o FlattenSeq(f) \o tables \o rings
  BY DEF EmitContext, Each
<1>2. /\ c.name \in STRING /\ IsList(D) /\ IsList(c.decision_tables)
      /\ \A k \in DOMAIN D : /\ IsList(D[k].formulas) /\ IsList(D[k].ports_out)
                            /\ Snake[D[k].name] \o "_state" \in STRING
  BY DEF TypedContext, Range
<1>3. LegalWrites(<<package>>) /\ LegalWrites(<<domain>>) /\ LegalWrites(<<exceptions>>)
  BY ContextPath, ShortLists, LegalOneLine, LegalParts, LegalWrite DEF DomainFile
<1>4. LegalWrites(core)
  <2> HIDE DEF domain, exceptions
  <2>1. LegalWrites(<<domain, exceptions>>)
    BY <1>3, PairIsConcat, LegalWriteParts
  <2> QED BY <2>1, LegalWhen
<1>5. LegalWrites(FlattenSeq(f))
  <2>1. f = [k \in DOMAIN D |-> f[k]] /\ \A k \in DOMAIN D : LegalWrites(f[k])
    BY <1>2, LegalEmitDomain
  <2> HIDE DEF f
  <2> QED BY <1>2, <2>1, LegalWritePieces
<1>6. LegalWrites(tables) /\ LegalWrites(rings)
  BY <1>2, LegalEmitTables, LegalEmitWeb, LegalWhen
<1> HIDE DEF package, core, f, tables, rings
<1> QED
  BY <1>1, <1>3, <1>4, <1>5, <1>6, LegalWriteParts

\* The transition tests of one context.
LEMMA LegalEmitTests ==
  ASSUME NEW c, IsList(c.domains)
  PROVE  LegalWrites(EmitTests(c))
<1> DEFINE A == Aggregates(c)
           test(d) == Write(TestFile(c.name \o "_" \o Snake[d.name] \o "_transitions"),
                            <<Plain(<<"transition test", c.name, d.name>>)>>)
           f == [k \in DOMAIN A |-> <<test(A[k])>>]
<1>1. EmitTests(c) = FlattenSeq(f)
  BY DEF EmitTests, Each
<1>2. \A d : LegalWrites(<<test(d)>>)
  BY FixedPaths, LegalOneLine, LegalWrite
<1> HIDE DEF test
<1>3. IsList(A) /\ f = [k \in DOMAIN A |-> f[k]] /\ \A k \in DOMAIN A : LegalWrites(f[k])
  BY <1>2, AggregatesAreDomains
<1> HIDE DEF f, A
<1> QED
  BY <1>1, <1>3, LegalWritePieces

\* The writes a run makes for the contexts.
ContextWrites(spec) == FlattenSeq([k \in DOMAIN spec.contexts |-> EmitContext(spec.contexts[k], spec.web)])

\* All of a run's writes are legal: whatever well-typed spec is scaffolded, and
\* wherever the run is killed.
LEMMA LegalRun ==
  ASSUME NEW spec, WellTyped(spec), SnakeTyped(spec)
  PROVE  /\ LegalWrites(Writes(spec))
         /\ Range(ContextWrites(spec)) \subseteq Range(Writes(spec))
<1> DEFINE C == spec.contexts
           f == [k \in DOMAIN C |-> EmitContext(C[k], spec.web)]
           g == [k \in DOMAIN C |-> EmitTests(C[k])]
           root == Write(<<"src", "contexts", "__init__", "py">>, <<>>)
           tests == Write(<<"tests", "__init__", "py">>, <<>>)
           boundary == Write(TestFile("boundary"), <<Plain(<<"boundary test", ForbiddenImports>>)>>)
           rules == Write(<<".arch", "import-rules", "toml">>,
                          <<Plain(<<"import rules", Names(spec.contexts)>>)>>)
           agents == Write(<<"AGENTS", "md">>, Agents(spec))
<1>1. Writes(spec) = <<root>> \o FlattenSeq(f) \o <<tests>> \o FlattenSeq(g)
                     \o <<boundary, rules, agents>>
  BY DEF Writes, Each
<1>2. ContextWrites(spec) = FlattenSeq(f)
  BY DEF ContextWrites
<1>3. IsList(C) /\ \A k \in DOMAIN C : TypedContext(C[k])
  <2>1. \A k \in DOMAIN C : C[k] \in Range(C)
    BY DEF Range
  <2> QED BY <2>1 DEF WellTyped, SnakeTyped, TypedContext
<1>4. LegalWrites(FlattenSeq(f))
  <2>1. f = [k \in DOMAIN C |-> f[k]] /\ \A k \in DOMAIN C : LegalWrites(f[k])
    BY <1>3, LegalEmitContext
  <2> HIDE DEF f
  <2> QED BY <1>3, <2>1, LegalWritePieces
<1>5. LegalWrites(FlattenSeq(g))
  <2>1. g = [k \in DOMAIN C |-> g[k]] /\ \A k \in DOMAIN C : LegalWrites(g[k])
    BY <1>3, LegalEmitTests DEF TypedContext
  <2> HIDE DEF g
  <2> QED BY <1>3, <2>1, LegalWritePieces
<1>6. LegalWrites(<<root>>) /\ LegalWrites(<<tests>>)
  BY FixedPaths, LegalParts, LegalWrite
<1>7. LegalWrites(<<boundary, rules, agents>>)
  <2>1. /\ IsList(boundary.path) /\ LegalLines(boundary.lines)
        /\ IsList(rules.path) /\ LegalLines(rules.lines)
        /\ IsList(agents.path) /\ LegalLines(agents.lines)
    BY FixedPaths, LegalOneLine, LegalAgents DEF Write
  <2> HIDE DEF boundary, rules, agents
  <2>2. /\ IsList(<<boundary, rules, agents>>)
        /\ Range(<<boundary, rules, agents>>) = {boundary, rules, agents}
    BY LongerLists
  <2> QED BY <2>1, <2>2 DEF LegalWrites
<1> HIDE DEF f, g, root, tests, boundary, rules, agents
<1>8. LegalWrites(Writes(spec))
  BY <1>1, <1>4, <1>5, <1>6, <1>7, LegalWriteParts
<1>9. Range(FlattenSeq(f)) \subseteq Range(Writes(spec))
  <2>1. /\ IsList(<<root>>) /\ IsList(FlattenSeq(f)) /\ IsList(<<tests>>) /\ IsList(FlattenSeq(g))
        /\ IsList(<<boundary, rules, agents>>)
    BY <1>4, <1>5, <1>6, <1>7 DEF LegalWrites
  <2> DEFINE a == <<root>> \o FlattenSeq(f)
             b == a \o <<tests>>
             e == b \o FlattenSeq(g)
  <2>2. IsList(a) /\ Range(FlattenSeq(f)) \subseteq Range(a)
    BY <2>1, ListConcat
  <2> HIDE DEF a
  <2>3. IsList(b) /\ Range(a) \subseteq Range(b)
    BY <2>1, <2>2, ListConcat
  <2> HIDE DEF b
  <2>4. IsList(e) /\ Range(b) \subseteq Range(e)
    BY <2>1, <2>3, ListConcat
  <2> HIDE DEF e
  <2>5. Range(e) \subseteq Range(e \o <<boundary, rules, agents>>)
    BY <2>1, <2>4, ListConcat
  <2> QED BY <1>1, <2>2, <2>3, <2>4, <2>5 DEF a, b, e
<1> QED
  BY <1>2, <1>8, <1>9

-----------------------------------------------------------------------------
(* The tree.                                                               *)

\* A path holds what was written to it, some time.
LEMMA WrittenLines ==
  ASSUME NEW writes, IsList(writes)
  PROVE  /\ DOMAIN WrittenTree(writes) = {v.path : v \in Range(writes)}
         /\ \A p \in DOMAIN WrittenTree(writes) :
              \E v \in Range(writes) : v.path = p /\ WrittenTree(writes)[p] = v.lines
<1> DEFINE H(p) == {k \in DOMAIN writes : writes[k].path = p}
<1>1. DOMAIN writes = 1..Len(writes) /\ Len(writes) \in Nat
  BY ListShape
<1>2. DOMAIN WrittenTree(writes) = {v.path : v \in Range(writes)}
  BY DEF WrittenTree, Range
<1>3. ASSUME NEW p \in DOMAIN WrittenTree(writes)
      PROVE  \E v \in Range(writes) : v.path = p /\ WrittenTree(writes)[p] = v.lines
  <2>1. H(p) \in SUBSET (1..Len(writes)) /\ H(p) # {}
    BY <1>1 DEF WrittenTree
  <2>2. WrittenTree(writes)[p] = LastAt(writes, H(p)).lines
    BY DEF WrittenTree
  <2>3. \A k \in H(p) : writes[k] \in Range(writes) /\ writes[k].path = p
    BY DEF Range
  <2> HIDE DEF H
  <2>4. \E k \in H(p) : \A j \in H(p) : j <= k
    BY <1>1, <2>1, LastPosition
  <2>5. LastAt(writes, H(p)) = writes[CHOOSE k \in H(p) : \A j \in H(p) : j <= k]
    BY DEF LastAt
  <2>6. (CHOOSE k \in H(p) : \A j \in H(p) : j <= k) \in H(p)
    BY <2>4
  <2> QED BY <2>2, <2>3, <2>5, <2>6
<1> QED
  BY <1>2, <1>3

\* The tree of legal writes is legal.
LEMMA LegalWrittenTree ==
  ASSUME NEW writes, LegalWrites(writes)
  PROVE  LegalTree(WrittenTree(writes))
BY WrittenLines DEF LegalWrites, LegalTree

\* So is what a killed run leaves behind.
LEMMA LegalInterruptedTree ==
  ASSUME NEW writes, LegalWrites(writes), NEW n \in 0..Len(writes)
  PROVE  LegalTree(WrittenTree(SubSeq(writes, 1, n)))
<1>1. LegalWrites(SubSeq(writes, 1, n))
  BY ListBeginning DEF LegalWrites
<1> QED
  BY <1>1, LegalWrittenTree

-----------------------------------------------------------------------------
(* Which writes there are.                                                 *)

\* What is written for a context is among the writes of the run.
LEMMA ContextIsWritten ==
  ASSUME NEW spec, WellTyped(spec), SnakeTyped(spec), NEW c \in Range(spec.contexts)
  PROVE  TypedContext(c) /\ Range(EmitContext(c, spec.web)) \subseteq Range(Writes(spec))
<1> DEFINE C == spec.contexts
           f == [k \in DOMAIN C |-> EmitContext(C[k], spec.web)]
<1>1. IsList(C) /\ TypedContext(c) /\ \A k \in DOMAIN C : TypedContext(C[k])
  <2>1. \A k \in DOMAIN C : C[k] \in Range(C)
    BY DEF Range
  <2> QED BY <2>1 DEF WellTyped, SnakeTyped, TypedContext
<1>2. PICK k \in DOMAIN C : C[k] = c
  BY DEF Range
<1>3. /\ f = [j \in DOMAIN C |-> f[j]] /\ f[k] = EmitContext(c, spec.web)
      /\ \A j \in DOMAIN C : IsList(f[j])
  <2>1. \A j \in DOMAIN C : LegalWrites(EmitContext(C[j], spec.web))
    BY <1>1, LegalEmitContext
  <2> QED BY <1>2, <2>1 DEF LegalWrites
<1>4. ContextWrites(spec) = FlattenSeq(f)
  BY DEF ContextWrites
<1> HIDE DEF f
<1>5. Range(EmitContext(c, spec.web)) \subseteq Range(FlattenSeq(f))
  BY <1>1, <1>2, <1>3, FlattenPieces
<1> QED
  BY <1>1, <1>4, <1>5, LegalRun

\* A context's package, its domains and its tables are among its writes.
LEMMA PartsAreWritten ==
  ASSUME NEW c, TypedContext(c), NEW web
  PROVE  /\ Write(InContext(c, <<>>, "__init__"), <<>>) \in Range(EmitContext(c, web))
         /\ \A d \in Range(c.domains) : Range(EmitDomain(c, d)) \subseteq Range(EmitContext(c, web))
         /\ c.decision_tables # <<>> => Range(EmitTables(c)) \subseteq Range(EmitContext(c, web))
<1> DEFINE g == [k \in DOMAIN c.domains |-> EmitDomain(c, c.domains[k])]
           package == Write(InContext(c, <<>>, "__init__"), <<>>)
           core == When(c.domains # <<>> \/ c.decision_tables # <<>>,
             <<Write(DomainFile(c, "__init__"), <<>>),
               Write(DomainFile(c, "exceptions"),
                 <<Plain(<<"exceptions", c.name, Aggregates(c) # <<>>, c.decision_tables # <<>>>>)>>)>>)
           tables == When(c.decision_tables # <<>>, EmitTables(c))
           rings == When(web = "drf" /\ Aggregates(c) # <<>>, EmitWeb(c))
<1>1. EmitContext(c, web) = <<package>> \o core \o FlattenSeq(g) \o tables \o rings
  BY DEF EmitContext, Each
<1>2. c.decision_tables # <<>> => tables = EmitTables(c)
  BY DEF When
<1>3. IsList(<<package>>) /\ IsList(core) /\ IsList(tables) /\ IsList(rings)
  <2>1. LegalWrites(EmitTables(c)) /\ LegalWrites(EmitWeb(c))
    BY LegalEmitTables, LegalEmitWeb DEF TypedContext
  <2> QED BY <2>1, ShortLists DEF When, LegalWrites
<1>4. /\ IsList(c.domains) /\ g = [j \in DOMAIN c.domains |-> g[j]]
      /\ \A j \in DOMAIN c.domains : LegalWrites(g[j]) /\ g[j] = EmitDomain(c, c.domains[j])
  BY LegalEmitDomain DEF TypedContext, Range
<1> HIDE DEF g
<1>5. IsList(FlattenSeq(g)) /\ \A j \in DOMAIN c.domains : Range(g[j]) \subseteq Range(FlattenSeq(g))
  <2>1. \A j \in DOMAIN c.domains : IsList(g[j])
    BY <1>4 DEF LegalWrites
  <2> QED BY <1>4, <2>1, FlattenPieces
<1>6. \A d \in Range(c.domains) : Range(EmitDomain(c, d)) \subseteq Range(FlattenSeq(g))
  BY <1>4, <1>5 DEF Range
<1>7. package \in Range(<<package>>)
  BY ShortLists
<1> HIDE DEF package, core, tables, rings
<1> DEFINE a == <<package>> \o core
           b == a \o FlattenSeq(g)
           e == b \o tables
<1>8. IsList(a) /\ Range(<<package>>) \subseteq Range(a)
  BY <1>3, ListConcat
<1> HIDE DEF a
<1>9. IsList(b) /\ Range(a) \subseteq Range(b) /\ Range(FlattenSeq(g)) \subseteq Range(b)
  BY <1>5, <1>8, ListConcat
<1> HIDE DEF b
<1>10. IsList(e) /\ Range(b) \subseteq Range(e) /\ Range(tables) \subseteq Range(e)
  BY <1>3, <1>9, ListConcat
<1> HIDE DEF e
<1>11. Range(e) \subseteq Range(EmitContext(c, web))
  <2>1. Range(e) \subseteq Range(e \o rings)
    BY <1>3, <1>10, ListConcat
  <2> QED BY <1>1, <2>1 DEF e, b, a
<1>12. package \in Range(EmitContext(c, web))
  BY <1>7, <1>8, <1>9, <1>10, <1>11
<1>13. \A d \in Range(c.domains) : Range(EmitDomain(c, d)) \subseteq Range(EmitContext(c, web))
  BY <1>6, <1>9, <1>10, <1>11
<1>14. c.decision_tables # <<>> => Range(EmitTables(c)) \subseteq Range(EmitContext(c, web))
  BY <1>2, <1>10, <1>11
<1> QED
  BY <1>12, <1>13, <1>14 DEF package

\* Every aggregate has its state table and its class among the writes.
LEMMA AggregateIsWritten ==
  ASSUME NEW spec, WellTyped(spec), SnakeTyped(spec),
         NEW c \in Range(spec.contexts), NEW d \in Range(Aggregates(c))
  PROVE  /\ Write(DomainFile(c, Snake[d.name] \o "_state"), StateTable(d)) \in Range(Writes(spec))
         /\ Write(DomainFile(c, Snake[d.name]), AggregateClass(c, d)) \in Range(Writes(spec))
         /\ d \in Range(c.domains)
<1> DEFINE table == Write(DomainFile(c, Snake[d.name] \o "_state"), StateTable(d))
           class == Write(DomainFile(c, Snake[d.name]), AggregateClass(c, d))
           ports == When(d.ports_out # <<>>,
             <<Write(InContext(c, <<"ports">>, "__init__"), <<>>),
               Write(InContext(c, <<"ports">>, "ports_out"), Ports(c, d.ports_out))>>)
<1>1. TypedContext(c) /\ Range(EmitContext(c, spec.web)) \subseteq Range(Writes(spec))
  BY ContextIsWritten
<1>2. d \in Range(c.domains) /\ d.kind = "aggregate"
  BY <1>1, AggregatesAreDomains DEF TypedContext
<1>3. EmitDomain(c, d) = <<table, class>> \o ports
  BY <1>2 DEF EmitDomain
<1>4. IsList(ports)
  BY ShortLists DEF When
<1> HIDE DEF table, class, ports
<1>5. IsList(<<table, class>>) /\ Range(<<table, class>>) = {table, class}
  BY ShortLists
<1>6. {table, class} \subseteq Range(EmitDomain(c, d))
  <2> DEFINE pair == <<table, class>>
  <2>1. IsList(pair) /\ IsList(ports)
    BY <1>4, <1>5
  <2> HIDE DEF pair
  <2>2. Range(pair \o ports) = Range(pair) \cup Range(ports)
    BY <2>1, ListConcat
  <2> QED BY <1>3, <1>5, <2>2 DEF pair
<1>7. Range(EmitDomain(c, d)) \subseteq Range(EmitContext(c, spec.web))
  BY <1>1, <1>2, PartsAreWritten
<1> QED
  BY <1>1, <1>2, <1>6, <1>7 DEF table, class

\* Every table has its evaluator among the writes.
LEMMA EvaluatorIsWritten ==
  ASSUME NEW spec, WellTyped(spec), SnakeTyped(spec),
         NEW c \in Range(spec.contexts), NEW t \in Range(c.decision_tables)
  PROVE  LET slug == TableSlug(t)
             text == <<"evaluator", c.name, slug, t.id, t.kind, Columns(t)>>
         IN  Write(DomainFile(c, slug \o "_table"),
                   <<Importing(text, {Own(c, <<"domain", "exceptions">>)})>>) \in Range(Writes(spec))
<1> DEFINE T == c.decision_tables
           slug == TableSlug(t)
           given(template) == <<template, c.name, slug, t.id, t.kind, Columns(t)>>
           table == Write(<<"src", "contexts", c.name, "domain", "decision_tables", slug, "csv">>,
                          <<Plain(<<"csv", t.id, t.name, t.kind, t.inputs, t.output, Columns(t)>>)>>)
           evaluator == Write(DomainFile(c, slug \o "_table"),
                              <<Importing(given("evaluator"), {Own(c, <<"domain", "exceptions">>)})>>)
           loader == Write(InContext(c, <<"adapters">>, slug \o "_loader"), <<Plain(given("loader"))>>)
           test == Write(TestFile(c.name \o "_" \o slug \o "_table"), <<Plain(given("table test"))>>)
           f == [k \in DOMAIN T |-> EmitTable(c, T[k])]
           package == Write(InContext(c, <<"adapters">>, "__init__"), <<>>)
<1>1. EmitTable(c, t) = <<table, evaluator, loader, test>>
  BY DEF EmitTable, table, evaluator, loader, test
<1>2. evaluator \in Range(EmitTable(c, t))
  <2> HIDE DEF table, evaluator, loader, test
  <2>1. Range(<<table, evaluator, loader, test>>) = {table, evaluator, loader, test}
    BY LongerLists
  <2> QED BY <1>1, <2>1
<1> HIDE DEF evaluator
<1>3. TypedContext(c) /\ Range(EmitContext(c, spec.web)) \subseteq Range(Writes(spec))
  BY ContextIsWritten
<1>4. PICK k \in DOMAIN T : T[k] = t
  BY DEF Range
<1>5. EmitTables(c) = <<package>> \o FlattenSeq(f)
  BY DEF EmitTables, Each
<1>6. /\ IsList(T) /\ f = [j \in DOMAIN T |-> f[j]] /\ f[k] = EmitTable(c, t)
      /\ \A j \in DOMAIN T : IsList(f[j])
  <2>1. \A j \in DOMAIN T : LegalWrites(EmitTable(c, T[j]))
    BY <1>3, LegalEmitTable DEF TypedContext
  <2> QED BY <1>3, <1>4, <2>1 DEF TypedContext, LegalWrites
<1> HIDE DEF f, package
<1>7. evaluator \in Range(FlattenSeq(f)) /\ IsList(FlattenSeq(f))
  BY <1>2, <1>4, <1>6, FlattenPieces
<1>8. IsList(<<package>>)
  BY ShortLists
<1>9. evaluator \in Range(EmitTables(c))
  BY <1>5, <1>7, <1>8, ListConcat
<1>10. c.decision_tables # <<>>
  BY <1>4
<1>11. Range(EmitTables(c)) \subseteq Range(EmitContext(c, spec.web))
  BY <1>3, <1>10, PartsAreWritten
<1> QED
  BY <1>3, <1>9, <1>11 DEF evaluator

-----------------------------------------------------------------------------
(* Which files import what.                                                *)

\* A file whose lines import nothing but what is in S.
ImportsWithin(lines, S) == IsList(lines) /\ \A l \in Range(lines) : l.imports \subseteq S

\* Lines, and files put together, by what they import.
LEMMA ImportsOfParts ==
  ASSUME NEW S
  PROVE  /\ ImportsWithin(<<>>, S)
         /\ \A text : ImportsWithin(<<Plain(text)>>, S)
         /\ \A text, imports : imports \subseteq S => ImportsWithin(<<Importing(text, imports)>>, S)
         /\ \A a, b : ImportsWithin(a, S) /\ ImportsWithin(b, S) => ImportsWithin(a \o b, S)
<1>1. ImportsWithin(<<>>, S)
  BY ShortLists DEF ImportsWithin
<1>2. ASSUME NEW l, l.imports \subseteq S
      PROVE  ImportsWithin(<<l>>, S)
  BY <1>2, ShortLists DEF ImportsWithin
<1>3. \A text, imports : Plain(text).imports = {} /\ Importing(text, imports).imports = imports
  BY DEF Plain, Importing, Line
<1>4. ASSUME NEW a, NEW b, ImportsWithin(a, S), ImportsWithin(b, S)
      PROVE  ImportsWithin(a \o b, S)
  <2>1. IsList(a \o b) /\ Range(a \o b) = Range(a) \cup Range(b)
    BY <1>4, ListConcat DEF ImportsWithin
  <2> QED BY <1>4, <2>1 DEF ImportsWithin
<1>5. \A text : ImportsWithin(<<Plain(text)>>, S)
  BY <1>2, <1>3
<1>6. \A text, imports : imports \subseteq S => ImportsWithin(<<Importing(text, imports)>>, S)
  BY <1>2, <1>3
<1> QED
  BY <1>1, <1>4, <1>5, <1>6

\* The markers of an impl block import nothing.
LEMMA ImportsOfBlock ==
  ASSUME NEW S, NEW label, NEW body, ImportsWithin(body, S)
  PROVE  ImportsWithin(ImplBlock(label, body), S)
<1> DEFINE open == Line("open", <<"impl", label>>, {})
           close == Line("close", <<"end impl">>, {})
<1>1. open.imports = {} /\ close.imports = {}
  BY DEF Line
<1>2. ImplBlock(label, body) = <<open>> \o body \o <<close>>
  BY DEF ImplBlock
<1> HIDE DEF open, close
<1>3. ImportsWithin(<<open>>, S) /\ ImportsWithin(<<close>>, S)
  BY <1>1, ShortLists DEF ImportsWithin
<1>4. \A a, b : ImportsWithin(a, S) /\ ImportsWithin(b, S) => ImportsWithin(a \o b, S)
  BY ImportsOfParts
<1> QED
  BY <1>2, <1>3, <1>4

\* A run of lines for each item of a list.
LEMMA ImportsOfPieces ==
  ASSUME NEW S, NEW items, IsList(items), NEW f, f = [k \in DOMAIN items |-> f[k]],
         \A k \in DOMAIN items : ImportsWithin(f[k], S)
  PROVE  ImportsWithin(FlattenSeq(f), S)
<1>1. \A k \in DOMAIN items : IsList(f[k]) /\ \A l \in Range(f[k]) : l.imports \subseteq S
  BY DEF ImportsWithin
<1>2. /\ IsList(FlattenSeq(f))
      /\ \A l : l \in Range(FlattenSeq(f)) <=> \E k \in DOMAIN items : l \in Range(f[k])
  BY <1>1, FlattenPieces
<1> QED
  BY <1>1, <1>2 DEF ImportsWithin

\* Files with an impl block for each item import nothing.
LEMMA QuietFiles ==
  /\ \A c, ports : IsList(ports) => ImportsWithin(Ports(c, ports), {})
  /\ \A d : IsList(d.formulas) => ImportsWithin(Formulas(d), {})
<1>1. ASSUME NEW c, NEW ports, IsList(ports)
      PROVE  ImportsWithin(Ports(c, ports), {})
  <2> DEFINE f == [k \in DOMAIN ports |->
                     <<Plain(<<"port", ports[k]>>)>>
                     \o ImplBlock(<<"method signatures">>, <<Plain(<<"...">>)>>)]
  <2>1. Ports(c, ports) = <<Plain(<<"ports", c.name>>)>> \o FlattenSeq(f)
    BY DEF Ports, Each
  <2>2. \A k \in DOMAIN ports : ImportsWithin(f[k], {})
    BY ImportsOfParts, ImportsOfBlock
  <2>3. f = [k \in DOMAIN ports |-> f[k]]
    OBVIOUS
  <2> HIDE DEF f
  <2>4. ImportsWithin(FlattenSeq(f), {})
    BY <1>1, <2>2, <2>3, ImportsOfPieces
  <2>5. ImportsWithin(<<Plain(<<"ports", c.name>>)>>, {})
    BY ImportsOfParts
  <2>6. \A a, b : ImportsWithin(a, {}) /\ ImportsWithin(b, {}) => ImportsWithin(a \o b, {})
    BY ImportsOfParts
  <2> QED BY <2>1, <2>4, <2>5, <2>6
<1>2. ASSUME NEW d, IsList(d.formulas)
      PROVE  ImportsWithin(Formulas(d), {})
  <2> DEFINE F == d.formulas
             def(k) == <<Plain(<<"def", OrElse(Slug[ById(F)[F[k].id].name], Slug[F[k].id])>>)>>
             f == [k \in DOMAIN F |-> ImplBlock(<<F[k].id, F[k].name>>, def(k))]
  <2>1. Formulas(d) = <<Plain(<<"calculation", d.name>>)>> \o FlattenSeq(f)
    BY DEF Formulas, Each
  <2>2. \A k \in DOMAIN F : ImportsWithin(f[k], {})
    <3>1. \A k : ImportsWithin(def(k), {})
      BY ImportsOfParts
    <3> HIDE DEF def
    <3> QED BY <3>1, ImportsOfBlock
  <2>3. f = [k \in DOMAIN F |-> f[k]]
    OBVIOUS
  <2> HIDE DEF f
  <2>4. ImportsWithin(FlattenSeq(f), {})
    BY <1>2, <2>2, <2>3, ImportsOfPieces
  <2>5. ImportsWithin(<<Plain(<<"calculation", d.name>>)>>, {})
    BY ImportsOfParts
  <2>6. \A a, b : ImportsWithin(a, {}) /\ ImportsWithin(b, {}) => ImportsWithin(a \o b, {})
    BY ImportsOfParts
  <2> QED BY <2>1, <2>4, <2>5, <2>6
<1> QED
  BY <1>1, <1>2

\* The classes of the web adapter import nothing themselves.
LEMMA WebClassesImportNothing ==
  ASSUME NEW S, NEW template, NEW aggs, IsList(aggs)
  PROVE  ImportsWithin(WebClasses(template, aggs), S)
<1> DEFINE f == [k \in DOMAIN aggs |->
                   <<Plain(<<template, aggs[k]>>)>> \o ImplBlock(<<template>>, <<Plain(<<"body">>)>>)]
<1>1. WebClasses(template, aggs) = FlattenSeq(f)
  BY DEF WebClasses, Each
<1>2. \A k \in DOMAIN aggs : ImportsWithin(f[k], S)
  BY ImportsOfParts, ImportsOfBlock
<1>3. f = [k \in DOMAIN aggs |-> f[k]]
  OBVIOUS
<1> HIDE DEF f
<1> QED
  BY <1>1, <1>2, <1>3, ImportsOfPieces

HasCore(c) == Aggregates(c) # <<>> \/ c.decision_tables # <<>>

\* What the domain files of a context import, and its adapters.
CoreImports(c) ==
  {Own(c, <<"domain", "exceptions">>)}
  \cup {Own(c, <<"domain", Snake[d.name] \o "_state">>) : d \in Range(Aggregates(c))}
WebImports(c) ==
  {Own(c, <<"application">>), Own(c, <<"adapters", "web", "serializers">>),
   Own(c, <<"adapters", "web", "views">>)}

\* A file of context c that imports no more than its ring does.
Placed(c, v) ==
  /\ v.path[1] = "src" /\ v.path[2] = "contexts" /\ v.path[3] = c.name
  /\ v.path[4] = "domain" => \/ ImportsWithin(v.lines, {})
                             \/ HasCore(c) /\ ImportsWithin(v.lines, CoreImports(c))
  /\ v.path[4] = "adapters" => ImportsWithin(v.lines, WebImports(c))

\* A file of no context.
Elsewhere(v) == v.path[1] # "src" \/ Len(v.path) = 4

PlacedWrites(c, writes) == IsList(writes) /\ \A v \in Range(writes) : Elsewhere(v) \/ Placed(c, v)

\* No write, one write, and writes put together, or made under a condition.
LEMMA PlacedParts ==
  ASSUME NEW c
  PROVE  /\ PlacedWrites(c, <<>>)
         /\ \A v : Elsewhere(v) \/ Placed(c, v) => PlacedWrites(c, <<v>>)
         /\ \A a, b : PlacedWrites(c, a) /\ PlacedWrites(c, b) => PlacedWrites(c, a \o b)
         /\ \A condition, a : PlacedWrites(c, a) => PlacedWrites(c, When(condition, a))
<1>1. PlacedWrites(c, <<>>)
  BY ShortLists DEF PlacedWrites
<1>2. ASSUME NEW v, Elsewhere(v) \/ Placed(c, v)
      PROVE  PlacedWrites(c, <<v>>)
  BY <1>2, ShortLists DEF PlacedWrites
<1>3. ASSUME NEW a, NEW b, PlacedWrites(c, a), PlacedWrites(c, b)
      PROVE  PlacedWrites(c, a \o b)
  <2>1. IsList(a \o b) /\ Range(a \o b) = Range(a) \cup Range(b)
    BY <1>3, ListConcat DEF PlacedWrites
  <2> QED BY <1>3, <2>1 DEF PlacedWrites
<1>4. ASSUME NEW condition, NEW a, PlacedWrites(c, a)
      PROVE  PlacedWrites(c, When(condition, a))
  BY <1>1, <1>4 DEF When
<1> QED
  BY <1>1, <1>2, <1>3, <1>4

\* Writes made for each item of a list.
LEMMA PlacedPieces ==
  ASSUME NEW c, NEW items, IsList(items), NEW f, f = [k \in DOMAIN items |-> f[k]],
         \A k \in DOMAIN items : PlacedWrites(c, f[k])
  PROVE  PlacedWrites(c, FlattenSeq(f))
<1>1. \A k \in DOMAIN items : IsList(f[k]) /\ \A v \in Range(f[k]) : Elsewhere(v) \/ Placed(c, v)
  BY DEF PlacedWrites
<1>2. /\ IsList(FlattenSeq(f))
      /\ \A v : v \in Range(FlattenSeq(f)) <=> \E k \in DOMAIN items : v \in Range(f[k])
  BY <1>1, FlattenPieces
<1> QED
  BY <1>1, <1>2 DEF PlacedWrites

\* One file of a context, by what it imports and where it is.
LEMMA PlacedFile ==
  ASSUME NEW c, NEW dirs, NEW file, NEW lines, IsList(dirs),
         \/ ImportsWithin(lines, {})
         \/ dirs = <<"domain">> /\ HasCore(c) /\ ImportsWithin(lines, CoreImports(c))
         \/ dirs = <<"adapters", "web">> /\ ImportsWithin(lines, WebImports(c))
  PROVE  Placed(c, Write(InContext(c, dirs, file), lines))
<1> DEFINE p == InContext(c, dirs, file)
           v == Write(p, lines)
<1>1. v.path = p /\ v.lines = lines
  BY DEF Write
<1>2. /\ IsList(p) /\ Len(p) = Len(dirs) + 5
      /\ p[1] = "src" /\ p[2] = "contexts" /\ p[3] = c.name
      /\ \A k \in 1..Len(dirs) : p[3 + k] = dirs[k]
      /\ p[Len(p)] = "py"
  BY ContextPathParts
<1>3. dirs = <<"domain">> => p[4] = "domain"
  <2>1. dirs = <<"domain">> => 1 \in 1..Len(dirs) /\ dirs[1] = "domain" /\ 3 + 1 = 4
    OBVIOUS
  <2> QED BY <1>2, <2>1
<1>4. dirs = <<"adapters", "web">> => p[4] = "adapters"
  <2>1. dirs = <<"adapters", "web">> => 1 \in 1..Len(dirs) /\ dirs[1] = "adapters" /\ 3 + 1 = 4
    OBVIOUS
  <2> QED BY <1>2, <2>1
<1> HIDE DEF p, v
<1>5. \A S : ImportsWithin(lines, {}) => ImportsWithin(lines, S)
  BY DEF ImportsWithin
<1>6. v.path[1] = "src" /\ v.path[2] = "contexts" /\ v.path[3] = c.name
  BY <1>1, <1>2
<1>7. v.path[4] = "domain" =>
        \/ ImportsWithin(v.lines, {})
        \/ HasCore(c) /\ ImportsWithin(v.lines, CoreImports(c))
  BY <1>1, <1>3, <1>4
<1>8. v.path[4] = "adapters" => ImportsWithin(v.lines, WebImports(c))
  BY <1>1, <1>3, <1>4, <1>5
<1>9. Placed(c, v)
  BY <1>6, <1>7, <1>8 DEF Placed
<1> QED
  BY <1>9 DEF v, p

\* _emit_domain: the aggregate's class imports its state table and the errors.
LEMMA PlacedEmitDomain ==
  ASSUME NEW c, TypedContext(c), NEW d \in Range(c.domains)
  PROVE  PlacedWrites(c, EmitDomain(c, d))
<1> DEFINE mod == Snake[d.name]
           stateFile == Write(DomainFile(c, mod \o "_state"), StateTable(d))
           classFile == Write(DomainFile(c, mod), AggregateClass(c, d))
           package == Write(InContext(c, <<"ports">>, "__init__"), <<>>)
           stubs == Write(InContext(c, <<"ports">>, "ports_out"), Ports(c, d.ports_out))
<1>1. IsList(<<"domain">>) /\ IsList(<<"ports">>)
  BY ShortLists
<1>2. \A file, lines : ImportsWithin(lines, {}) => Placed(c, Write(DomainFile(c, file), lines))
  BY <1>1, PlacedFile DEF DomainFile
<1>3. \A file, lines : ImportsWithin(lines, {}) => Placed(c, Write(InContext(c, <<"ports">>, file), lines))
  BY <1>1, PlacedFile
<1>4. IsList(d.formulas) /\ IsList(d.ports_out)
  BY DEF TypedContext
<1>5. /\ PlacedWrites(c, <<>>)
      /\ \A v : Placed(c, v) => PlacedWrites(c, <<v>>)
      /\ \A a, b : PlacedWrites(c, a) /\ PlacedWrites(c, b) => PlacedWrites(c, a \o b)
      /\ \A condition, a : PlacedWrites(c, a) => PlacedWrites(c, When(condition, a))
  BY PlacedParts
<1>6. CASE d.kind = "aggregate"
  <2>1. ImportsWithin(StateTable(d), {})
    BY ImportsOfParts DEF StateTable
  <2>2. HasCore(c) /\ d \in Range(Aggregates(c))
    <3>1. IsList(Aggregates(c)) /\ d \in Range(Aggregates(c))
      BY <1>6, AggregatesAreDomains DEF TypedContext
    <3>2. Aggregates(c) # <<>>
      BY <3>1, ShortLists
    <3> QED BY <3>1, <3>2 DEF HasCore
  <2>3. ImportsWithin(AggregateClass(c, d), CoreImports(c))
    <3> DEFINE S == CoreImports(c)
               imports == {Own(c, <<"domain", mod \o "_state">>), Own(c, <<"domain", "exceptions">>)}
               text == <<"aggregate", d.name, c.name, d.states[1]>>
               body == <<Plain(<<"rules", d.guards, d.invariants, d.relationship_invariants>>)>>
    <3>1. imports \subseteq S
      BY <2>2 DEF CoreImports
    <3>2. AggregateClass(c, d) = <<Importing(text, imports)>> \o ImplBlock(<<"only here">>, body)
      BY DEF AggregateClass
    <3>3. ImportsWithin(body, S)
      BY ImportsOfParts
    <3> HIDE DEF S, imports, text, body
    <3>4. ImportsWithin(<<Importing(text, imports)>>, S)
      BY <3>1, ImportsOfParts
    <3>5. ImportsWithin(ImplBlock(<<"only here">>, body), S)
      BY <3>3, ImportsOfBlock
    <3>6. \A a, b : ImportsWithin(a, S) /\ ImportsWithin(b, S) => ImportsWithin(a \o b, S)
      BY ImportsOfParts
    <3>7. ImportsWithin(AggregateClass(c, d), S)
      BY <3>2, <3>4, <3>5, <3>6
    <3> QED BY <3>7 DEF S
  <2>4. Placed(c, classFile)
    BY <1>1, <2>2, <2>3, PlacedFile DEF DomainFile
  <2>5. Placed(c, stateFile)
    BY <1>2, <2>1
  <2>6. Placed(c, package) /\ Placed(c, stubs)
    BY <1>3, <1>4, ImportsOfParts, QuietFiles
  <2>7. EmitDomain(c, d) = <<stateFile, classFile>> \o When(d.ports_out # <<>>, <<package, stubs>>)
    BY <1>6 DEF EmitDomain, stateFile, classFile, package, stubs
  <2> HIDE DEF stateFile, classFile, package, stubs
  <2>8. /\ <<stateFile, classFile>> = <<stateFile>> \o <<classFile>>
        /\ <<package, stubs>> = <<package>> \o <<stubs>>
    BY PairIsConcat
  <2>9. PlacedWrites(c, <<stateFile, classFile>>) /\ PlacedWrites(c, <<package, stubs>>)
    BY <1>5, <2>4, <2>5, <2>6, <2>8
  <2> QED BY <1>5, <2>7, <2>9
<1>7. CASE d.kind = "calculation"
  <2>1. EmitDomain(c, d) = <<Write(DomainFile(c, mod), Formulas(d))>>
    BY <1>7 DEF EmitDomain
  <2> QED BY <1>2, <1>4, <1>5, <2>1, QuietFiles
<1>8. CASE d.kind = "reference"
  <2> DEFINE body == <<>>
             lines == <<Plain(<<"reference", d.name>>)>> \o ImplBlock(<<d.name>>, body)
  <2>1. EmitDomain(c, d) = <<Write(DomainFile(c, mod), lines)>>
    BY <1>8 DEF EmitDomain
  <2>2. ImportsWithin(body, {}) /\ ImportsWithin(<<Plain(<<"reference", d.name>>)>>, {})
    BY ImportsOfParts
  <2>3. ImportsWithin(ImplBlock(<<d.name>>, body), {})
    <3> HIDE DEF body
    <3> QED BY <2>2, ImportsOfBlock
  <2>4. ImportsWithin(lines, {})
    <3> HIDE DEF body
    <3> QED BY <2>2, <2>3, ImportsOfParts
  <2> HIDE DEF lines
  <2> QED BY <1>2, <1>5, <2>1, <2>4
<1>9. CASE d.kind \notin {"aggregate", "calculation", "reference"}
  <2>1. EmitDomain(c, d) = <<>>
    BY <1>9 DEF EmitDomain
  <2> QED BY <1>5, <2>1
<1> QED
  BY <1>6, <1>7, <1>8, <1>9

\* A test is written under tests.
LEMMA TestsAreElsewhere ==
  ASSUME NEW name, NEW lines
  PROVE  Elsewhere(Write(TestFile(name), lines))
<1>1. Write(TestFile(name), lines).path = TestFile(name)
  BY DEF Write
<1>2. TestFile(name)[1] = "tests"
  BY DEF TestFile
<1> QED
  BY <1>1, <1>2 DEF Elsewhere

\* _emit_decision_tables: an evaluator imports the errors.
LEMMA PlacedEmitTable ==
  ASSUME NEW c, NEW t \in Range(c.decision_tables)
  PROVE  PlacedWrites(c, EmitTable(c, t))
<1> DEFINE slug == TableSlug(t)
           given(template) == <<template, c.name, slug, t.id, t.kind, Columns(t)>>
           path == <<"src", "contexts", c.name, "domain", "decision_tables", slug, "csv">>
           rows == <<Plain(<<"csv", t.id, t.name, t.kind, t.inputs, t.output, Columns(t)>>)>>
           table == Write(path, rows)
           evaluator == Write(DomainFile(c, slug \o "_table"),
                              <<Importing(given("evaluator"), {Own(c, <<"domain", "exceptions">>)})>>)
           loader == Write(InContext(c, <<"adapters">>, slug \o "_loader"), <<Plain(given("loader"))>>)
           test == Write(TestFile(c.name \o "_" \o slug \o "_table"), <<Plain(given("table test"))>>)
<1>1. EmitTable(c, t) = <<table, evaluator, loader, test>>
  BY DEF EmitTable, table, evaluator, loader, test
<1>2. Placed(c, table)
  <2>1. ImportsWithin(rows, {})
    BY ImportsOfParts
  <2>2. /\ path[1] = "src" /\ path[2] = "contexts" /\ path[3] = c.name /\ path[4] = "domain"
        /\ table.path = path /\ table.lines = rows
    BY DEF Write
  <2> HIDE DEF path, rows, table
  <2> QED BY <2>1, <2>2 DEF Placed
<1>3. Placed(c, evaluator)
  <2> DEFINE import == Own(c, <<"domain", "exceptions">>)
             dirs == <<"domain">>
             line == Importing(given("evaluator"), {import})
  <2>1. c.decision_tables # <<>>
    BY ShortLists
  <2>2. HasCore(c)
    BY <2>1 DEF HasCore
  <2>3. ImportsWithin(<<line>>, CoreImports(c))
    <3>1. {import} \subseteq CoreImports(c)
      BY DEF CoreImports
    <3> HIDE DEF import
    <3> QED BY <3>1, ImportsOfParts
  <2>4. IsList(dirs)
    BY ShortLists
  <2> HIDE DEF line
  <2>5. \A file : Placed(c, Write(InContext(c, dirs, file), <<line>>))
    BY <2>2, <2>3, <2>4, PlacedFile
  <2> QED BY <2>5 DEF DomainFile, line
<1>4. Placed(c, loader)
  <2> DEFINE lines == <<Plain(given("loader"))>>
             dirs == <<"adapters">>
  <2>1. ImportsWithin(lines, {}) /\ IsList(dirs)
    BY ImportsOfParts, ShortLists
  <2> HIDE DEF lines, dirs
  <2>2. \A file : Placed(c, Write(InContext(c, dirs, file), lines))
    BY <2>1, PlacedFile
  <2> QED BY <2>2 DEF lines, dirs
<1>5. Elsewhere(test)
  BY TestsAreElsewhere
<1> HIDE DEF table, evaluator, loader, test
<1>6. /\ IsList(<<table, evaluator, loader, test>>)
      /\ Range(<<table, evaluator, loader, test>>) = {table, evaluator, loader, test}
  BY LongerLists
<1> QED
  BY <1>1, <1>2, <1>3, <1>4, <1>5, <1>6 DEF PlacedWrites

\* The transition tests of one context are under tests too.
LEMMA TestsOfContextAreElsewhere ==
  ASSUME NEW c, IsList(c.domains)
  PROVE  IsList(EmitTests(c)) /\ \A v \in Range(EmitTests(c)) : Elsewhere(v)
<1> DEFINE A == Aggregates(c)
           test(d) == Write(TestFile(c.name \o "_" \o Snake[d.name] \o "_transitions"),
                            <<Plain(<<"transition test", c.name, d.name>>)>>)
           f == [k \in DOMAIN A |-> <<test(A[k])>>]
<1>1. EmitTests(c) = FlattenSeq(f)
  BY DEF EmitTests, Each
<1>2. \A d : Elsewhere(test(d))
  BY TestsAreElsewhere
<1>3. IsList(A)
  BY AggregatesAreDomains
<1> HIDE DEF test
<1>4. /\ f = [k \in DOMAIN A |-> f[k]]
      /\ \A k \in DOMAIN A : IsList(f[k]) /\ \A v \in Range(f[k]) : Elsewhere(v)
  BY <1>2, ShortLists
<1> HIDE DEF f, A
<1>5. /\ IsList(FlattenSeq(f))
      /\ \A v : v \in Range(FlattenSeq(f)) <=> \E k \in DOMAIN A : v \in Range(f[k])
  BY <1>3, <1>4, FlattenPieces
<1> QED
  BY <1>1, <1>4, <1>5

\* All of a context's tables.
LEMMA PlacedEmitTables ==
  ASSUME NEW c, TypedContext(c)
  PROVE  PlacedWrites(c, EmitTables(c))
<1> DEFINE T == c.decision_tables
           f == [k \in DOMAIN T |-> EmitTable(c, T[k])]
           dirs == <<"adapters">>
           lines == <<>>
           package == Write(InContext(c, dirs, "__init__"), lines)
<1>1. EmitTables(c) = <<package>> \o FlattenSeq(f)
  BY DEF EmitTables, Each
<1>2. f = [k \in DOMAIN T |-> f[k]] /\ \A k \in DOMAIN T : PlacedWrites(c, f[k])
  <2>1. \A k \in DOMAIN T : T[k] \in Range(T)
    BY DEF Range
  <2> QED BY <2>1, PlacedEmitTable
<1> HIDE DEF f
<1>3. PlacedWrites(c, FlattenSeq(f))
  BY <1>2, PlacedPieces DEF TypedContext
<1>4. Placed(c, package)
  <2>1. ImportsWithin(lines, {}) /\ IsList(dirs)
    BY ImportsOfParts, ShortLists
  <2> HIDE DEF lines, dirs
  <2> QED BY <2>1, PlacedFile
<1> HIDE DEF package
<1>5. PlacedWrites(c, <<package>>)
  BY <1>4, PlacedParts
<1>6. \A a, b : PlacedWrites(c, a) /\ PlacedWrites(c, b) => PlacedWrites(c, a \o b)
  BY PlacedParts
<1> QED
  BY <1>1, <1>3, <1>5, <1>6

\* _emit_web: the views and the urls import the application, the serializers
\* and the views.
LEMMA PlacedEmitWeb ==
  ASSUME NEW c, TypedContext(c)
  PROVE  PlacedWrites(c, EmitWeb(c))
<1> DEFINE A == Aggregates(c)
           aggs == Names(A)
           web(file, lines) == Write(InContext(c, <<"adapters", "web">>, file), lines)
           f == [k \in DOMAIN A |-> <<EmitService(c, A[k])>>]
           services == Write(InContext(c, <<"application">>, "__init__"),
                             <<Plain(<<"services", c.name, aggs>>)>>)
           adapters == Write(InContext(c, <<"adapters">>, "__init__"), <<>>)
           serializerLines ==
             <<Plain(<<"serializers", c.name>>)>> \o WebClasses("serializer", aggs)
           viewLines ==
             <<Importing(<<"views", c.name, aggs>>,
                         {Own(c, <<"application">>), Own(c, <<"adapters", "web", "serializers">>)})>>
             \o WebClasses("view", aggs)
           urlLines ==
             <<Importing(<<"urls", c.name, aggs>>, {Own(c, <<"adapters", "web", "views">>)})>>
             \o ImplBlock(<<"routes">>, <<Plain(<<"routes", aggs>>)>>)
             \o <<Plain(<<"]">>)>>
           package == web("__init__", <<>>)
           serializers == web("serializers", serializerLines)
           views == web("views", viewLines)
           urls == web("urls", urlLines)
           S == WebImports(c)
<1>1. IsList(A) /\ IsList(aggs)
  BY AggregatesAreDomains, NamesAreList DEF TypedContext
<1>2. EmitWeb(c) = FlattenSeq(f) \o <<services, adapters, package, serializers, views, urls>>
  BY DEF EmitWeb, Each
<1>3. \A file, lines, dir : ImportsWithin(lines, {}) => Placed(c, Write(InContext(c, <<dir>>, file), lines))
  <2> SUFFICES ASSUME NEW file, NEW lines, NEW dir, ImportsWithin(lines, {})
               PROVE  Placed(c, Write(InContext(c, <<dir>>, file), lines))
    OBVIOUS
  <2>1. IsList(<<dir>>)
    BY ShortLists
  <2> QED BY <2>1, PlacedFile
<1>4. \A file, lines : ImportsWithin(lines, S) => Placed(c, web(file, lines))
  <2> SUFFICES ASSUME NEW file, NEW lines, ImportsWithin(lines, S)
               PROVE  Placed(c, web(file, lines))
    OBVIOUS
  <2>1. IsList(<<"adapters", "web">>)
    BY ShortLists
  <2> QED BY <2>1, PlacedFile
<1>5. /\ {Own(c, <<"application">>), Own(c, <<"adapters", "web", "serializers">>)} \subseteq S
      /\ {Own(c, <<"adapters", "web", "views">>)} \subseteq S
  BY DEF WebImports
<1> HIDE DEF A, S
<1>6. PlacedWrites(c, FlattenSeq(f))
  <2>1. \A d : PlacedWrites(c, <<EmitService(c, d)>>)
    <3> SUFFICES ASSUME NEW d
                 PROVE  PlacedWrites(c, <<EmitService(c, d)>>)
      OBVIOUS
    <3> DEFINE head == <<Plain(<<"service", d.name, c.name>>)>>
               block == ImplBlock(<<"use case">>, <<Plain(<<"__init__">>)>>)
               lines == head \o block
    <3>1. EmitService(c, d) = Write(InContext(c, <<"application">>, Snake[d.name] \o "_service"), lines)
      BY DEF EmitService
    <3>2. ImportsWithin(head, {}) /\ ImportsWithin(block, {})
      BY ImportsOfParts, ImportsOfBlock
    <3> HIDE DEF head, block
    <3>3. ImportsWithin(lines, {})
      BY <3>2, ImportsOfParts
    <3> HIDE DEF lines
    <3>4. Placed(c, EmitService(c, d))
      BY <1>3, <3>1, <3>3
    <3> QED BY <3>4, PlacedParts
  <2>2. f = [k \in DOMAIN A |-> f[k]] /\ \A k \in DOMAIN A : PlacedWrites(c, f[k])
    BY <2>1
  <2> HIDE DEF f
  <2> QED BY <1>1, <2>2, PlacedPieces
<1>7. \A a, b : ImportsWithin(a, S) /\ ImportsWithin(b, S) => ImportsWithin(a \o b, S)
  BY ImportsOfParts
<1>8. \A text : ImportsWithin(<<Plain(text)>>, S) /\ ImportsWithin(<<Plain(text)>>, {})
  BY ImportsOfParts
<1>9. \A text, imports : imports \subseteq S => ImportsWithin(<<Importing(text, imports)>>, S)
  BY ImportsOfParts
<1>10. \A template : ImportsWithin(WebClasses(template, aggs), S)
  BY <1>1, WebClassesImportNothing
<1>11. ImportsWithin(<<>>, {}) /\ ImportsWithin(<<>>, S)
  BY ImportsOfParts
<1>12. ImportsWithin(serializerLines, S)
  BY <1>7, <1>8, <1>10
<1>13. ImportsWithin(viewLines, S)
  BY <1>5, <1>7, <1>9, <1>10
<1>14. ImportsWithin(urlLines, S)
  <2>1. ImportsWithin(ImplBlock(<<"routes">>, <<Plain(<<"routes", aggs>>)>>), S)
    BY <1>8, ImportsOfBlock
  <2> QED BY <1>5, <1>7, <1>8, <1>9, <2>1
<1> HIDE DEF serializerLines, viewLines, urlLines, f, web
<1>15. /\ Placed(c, services) /\ Placed(c, adapters) /\ Placed(c, package)
       /\ Placed(c, serializers) /\ Placed(c, views) /\ Placed(c, urls)
  BY <1>3, <1>4, <1>8, <1>11, <1>12, <1>13, <1>14
<1> HIDE DEF services, adapters, package, serializers, views, urls
<1>16. PlacedWrites(c, <<services, adapters, package, serializers, views, urls>>)
  <2> DEFINE w == <<services, adapters, package, serializers, views, urls>>
  <2>1. IsList(w) /\ Range(w) = {services, adapters, package, serializers, views, urls}
    BY LongerLists
  <2> HIDE DEF w
  <2>2. PlacedWrites(c, w)
    BY <1>15, <2>1 DEF PlacedWrites
  <2> QED BY <2>2 DEF w
<1>17. \A a, b : PlacedWrites(c, a) /\ PlacedWrites(c, b) => PlacedWrites(c, a \o b)
  BY PlacedParts
<1> QED
  BY <1>2, <1>6, <1>16, <1>17

\* One context: every file of its domain imports its core, and every file of
\* its adapters its application or its web adapter.
LEMMA PlacedEmitContext ==
  ASSUME NEW c, TypedContext(c), NEW web
  PROVE  PlacedWrites(c, EmitContext(c, web))
<1> DEFINE D == c.domains
           f == [k \in DOMAIN D |-> EmitDomain(c, D[k])]
           nothing == <<>>
           errors == <<Plain(<<"exceptions", c.name, Aggregates(c) # <<>>, c.decision_tables # <<>>>>)>>
           package == Write(InContext(c, nothing, "__init__"), nothing)
           domain == Write(DomainFile(c, "__init__"), nothing)
           exceptions == Write(DomainFile(c, "exceptions"), errors)
           core == When(c.domains # <<>> \/ c.decision_tables # <<>>, <<domain, exceptions>>)
           tables == When(c.decision_tables # <<>>, EmitTables(c))
           rings == When(web = "drf" /\ Aggregates(c) # <<>>, EmitWeb(c))
<1>1. EmitContext(c, web) = <<package>> \o core \o FlattenSeq(f) \o tables \o rings
  BY DEF EmitContext, Each
<1>2. /\ PlacedWrites(c, <<>>)
      /\ \A v : Placed(c, v) => PlacedWrites(c, <<v>>)
      /\ \A a, b : PlacedWrites(c, a) /\ PlacedWrites(c, b) => PlacedWrites(c, a \o b)
      /\ \A condition, a : PlacedWrites(c, a) => PlacedWrites(c, When(condition, a))
  BY PlacedParts
<1>3. Placed(c, package) /\ Placed(c, domain) /\ Placed(c, exceptions)
  <2>1. ImportsWithin(nothing, {}) /\ ImportsWithin(errors, {})
    BY ImportsOfParts
  <2>2. IsList(nothing) /\ IsList(<<"domain">>)
    BY ShortLists
  <2> HIDE DEF nothing, errors
  <2> QED BY <2>1, <2>2, PlacedFile DEF DomainFile
<1>4. PlacedWrites(c, core)
  <2> HIDE DEF domain, exceptions
  <2>1. <<domain, exceptions>> = <<domain>> \o <<exceptions>>
    BY PairIsConcat
  <2>2. PlacedWrites(c, <<domain, exceptions>>)
    BY <1>2, <1>3, <2>1
  <2> QED BY <1>2, <2>2
<1>5. PlacedWrites(c, FlattenSeq(f))
  <2>1. \A k \in DOMAIN D : D[k] \in Range(D)
    BY DEF Range
  <2>2. f = [k \in DOMAIN D |-> f[k]] /\ \A k \in DOMAIN D : PlacedWrites(c, f[k])
    BY <2>1, PlacedEmitDomain
  <2>3. IsList(D)
    BY DEF TypedContext
  <2> HIDE DEF f
  <2> QED BY <2>2, <2>3, PlacedPieces
<1>6. PlacedWrites(c, tables) /\ PlacedWrites(c, rings)
  BY <1>2, PlacedEmitTables, PlacedEmitWeb
<1> HIDE DEF package, core, f, tables, rings
<1> QED
  BY <1>1, <1>2, <1>3, <1>4, <1>5, <1>6

\* Where a write of the run belongs.
BelongsTo(spec, v) == Elsewhere(v) \/ \E c \in Range(spec.contexts) : Placed(c, v)

\* Every file of the run is of no context, or of one and imports what its ring
\* may.
LEMMA EveryFileIsPlaced ==
  ASSUME NEW spec, WellTyped(spec), SnakeTyped(spec)
  PROVE  \A v \in Range(Writes(spec)) : BelongsTo(spec, v)
<1> DEFINE C == spec.contexts
           f == [k \in DOMAIN C |-> EmitContext(C[k], spec.web)]
           g == [k \in DOMAIN C |-> EmitTests(C[k])]
           root == Write(<<"src", "contexts", "__init__", "py">>, <<>>)
           tests == Write(<<"tests", "__init__", "py">>, <<>>)
           boundary == Write(TestFile("boundary"), <<Plain(<<"boundary test", ForbiddenImports>>)>>)
           rules == Write(<<".arch", "import-rules", "toml">>,
                          <<Plain(<<"import rules", Names(spec.contexts)>>)>>)
           agents == Write(<<"AGENTS", "md">>, Agents(spec))
<1>1. Writes(spec) = <<root>> \o FlattenSeq(f) \o <<tests>> \o FlattenSeq(g)
                     \o <<boundary, rules, agents>>
  BY DEF Writes, Each
<1>2. IsList(C) /\ \A k \in DOMAIN C : TypedContext(C[k]) /\ C[k] \in Range(C)
  <2>1. \A k \in DOMAIN C : C[k] \in Range(C)
    BY DEF Range
  <2> QED BY <2>1 DEF WellTyped, SnakeTyped, TypedContext
<1>3. IsList(FlattenSeq(f)) /\ \A v \in Range(FlattenSeq(f)) : BelongsTo(spec, v)
  <2>1. /\ f = [k \in DOMAIN C |-> f[k]]
        /\ \A k \in DOMAIN C : IsList(f[k]) /\ \A v \in Range(f[k]) : BelongsTo(spec, v)
    BY <1>2, PlacedEmitContext DEF PlacedWrites, BelongsTo
  <2> HIDE DEF f
  <2>2. /\ IsList(FlattenSeq(f))
        /\ \A v : v \in Range(FlattenSeq(f)) <=> \E k \in DOMAIN C : v \in Range(f[k])
    BY <1>2, <2>1, FlattenPieces
  <2> QED BY <2>1, <2>2
<1>4. IsList(FlattenSeq(g)) /\ \A v \in Range(FlattenSeq(g)) : BelongsTo(spec, v)
  <2>1. /\ g = [k \in DOMAIN C |-> g[k]]
        /\ \A k \in DOMAIN C : IsList(g[k]) /\ \A v \in Range(g[k]) : BelongsTo(spec, v)
    BY <1>2, TestsOfContextAreElsewhere DEF BelongsTo, TypedContext
  <2> HIDE DEF g
  <2>2. /\ IsList(FlattenSeq(g))
        /\ \A v : v \in Range(FlattenSeq(g)) <=> \E k \in DOMAIN C : v \in Range(g[k])
    BY <1>2, <2>1, FlattenPieces
  <2> QED BY <2>1, <2>2
<1>5. Elsewhere(root) /\ Elsewhere(tests) /\ Elsewhere(boundary) /\ Elsewhere(rules) /\ Elsewhere(agents)
  <2>1. /\ root.path = <<"src", "contexts", "__init__", "py">>
        /\ tests.path = <<"tests", "__init__", "py">>
        /\ rules.path = <<".arch", "import-rules", "toml">>
        /\ agents.path = <<"AGENTS", "md">>
    BY DEF Write
  <2> HIDE DEF root, tests, rules, agents
  <2>2. Len(root.path) = 4
    BY <2>1
  <2>3. tests.path[1] = "tests" /\ rules.path[1] = ".arch" /\ agents.path[1] = "AGENTS"
    BY <2>1
  <2> QED BY <2>2, <2>3, TestsAreElsewhere DEF Elsewhere
<1> HIDE DEF f, g, root, tests, boundary, rules, agents
<1>6. /\ IsList(<<root>>) /\ Range(<<root>>) = {root}
      /\ IsList(<<tests>>) /\ Range(<<tests>>) = {tests}
      /\ IsList(<<boundary, rules, agents>>)
      /\ Range(<<boundary, rules, agents>>) = {boundary, rules, agents}
  BY ShortLists, LongerLists
<1> DEFINE last == <<boundary, rules, agents>>
           a == <<root>> \o FlattenSeq(f)
           b == a \o <<tests>>
           e == b \o FlattenSeq(g)
<1>7. IsList(a) /\ Range(a) = Range(<<root>>) \cup Range(FlattenSeq(f))
  BY <1>3, <1>6, ListConcat
<1> HIDE DEF a, last
<1>8. IsList(b) /\ Range(b) = Range(a) \cup Range(<<tests>>)
  BY <1>6, <1>7, ListConcat
<1> HIDE DEF b
<1>9. IsList(e) /\ Range(e) = Range(b) \cup Range(FlattenSeq(g))
  BY <1>4, <1>8, ListConcat
<1> HIDE DEF e
<1>10. Range(e \o last) = Range(e) \cup Range(last)
  <2>1. IsList(last)
    BY <1>6 DEF last
  <2> QED BY <1>9, <2>1, ListConcat
<1>11. Writes(spec) = e \o last /\ Range(last) = {boundary, rules, agents}
  BY <1>1, <1>6 DEF e, b, a, last
<1>12. \A v \in {root, tests, boundary, rules, agents} : BelongsTo(spec, v)
  BY <1>5 DEF BelongsTo
<1>13. \A v \in Range(Writes(spec)) :
         \/ v \in Range(FlattenSeq(f)) \/ v \in Range(FlattenSeq(g))
         \/ v \in {root, tests, boundary, rules, agents}
  BY <1>6, <1>7, <1>8, <1>9, <1>10, <1>11
<1> QED
  BY <1>3, <1>4, <1>12, <1>13
=============================================================================
