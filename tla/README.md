# HexaArchCli in TLA+

HexaArchCli (`hexaarch`) turns a `domain-spec.yaml` into a hexagonal Python
project, checks the project against the spec, and gates changes of the spec.
This directory holds TLA+ modules translated from its source, the TLC runs over
small instances of them, and theorems checked by TLAPS. Paths below are those of
the repository, with `src/` in front of them.

## 1. The system

### Parts and how they interact

```
 document --extract--> domain-spec.yaml --scaffold--> project tree <--edit-- people, agents
              (LLM)      |        |                        |
                         |        +-------- check ---------+   drift, missing, boundary
                         +-- gate (spec in force, proposal)    pass / review / reject -> CI merges
                                   |
                                   v
                  running instances of the generated aggregates
```

| Part | State it keeps | Operations | What is hard | What makes it correct |
| --- | --- | --- | --- | --- |
| Spec IR, `hexaarch/spec.py` | none; a value | `load_spec`, the validators | what the validators do **not** ask: unique ids, states, table names | a spec that is loaded can be generated and compared |
| Change gate, `hexaarch/gate.py`, `cli.py` | none; reads two files | `diff_specs`, verdict, exit code, `--allow-breaking` | chains of merges, instances that live across a merge, hidden list items | nothing protected is lost without approval; exit codes mean what they say |
| Scaffold, `hexaarch/scaffold.py` | the project directory | `rmtree`, then one write per file | killed half-way; two artefacts on one path; regenerating over developers' work | the tree is a function of the spec |
| Check, `hexaarch/check.py` | none; regenerates into a temporary directory | masking, comparison, import scan | edit sequences that nest or lose markers; substrings as boundaries | reports exactly the broken files; a pass means the spec's state machine runs |
| Generated tables, templates of `scaffold.py` | versions and rows in csv files | `lookup`, `active_version`, `check_completeness` | gaps, overlaps, open ends, equal effective dates, rows appended while a version is in force | exactly one row answers every input; an answer given stays |
| Extraction, `hexaarch/extract.py`, `hexaarch/llm/`, `cli.py:109-139` | the attempts, the error fed back, the draft file | ask, validate, repair, give up, write | failing, slow and malformed answers; a negative `--max-repair`; a write that breaks off; edits of the document and the draft meanwhile | ends; saves only what was validated, made of the text that was read; the exit code tells which |
| Architecture selection, `hexaarch/select_arch.py` | none | one question, at most one repair, printed or saved | the same | the same |
| Reference: collection, `examples/seoul-apt/reference/src/contexts/collection` | jobs, a registry of sources, stored trades | acquire, start, fetch, upsert, succeed, fail, release | concurrent workers, a failure half-way through an upsert, an interrupt, an answer that is old when it is stored | one running job per source; every run that gets to its `finally` settles its job and frees its source; no trade counted twice or overwritten by an older one |
| Reference: valuation, `.../contexts/valuation` | per complex a gate, LOCKED, READY or ANALYZED; approaches A and B keep one each | `reevaluate`, `analyze` | two implementations of one rule; the limit is asked for and used in another context; a formula that refuses late | both implement the same abstract gate and agree, or differ in known ways |
| Reference: regulation, `.../contexts/regulation`, `composition/wiring.py` | one versioned table; an adapter that keeps the table and the date it was built with | `load`, `lookup`, `max_loan_for` | as for generated tables; an adapter older than the file | as for generated tables; a loan is judged by the latest rule in effect |

The gate and the check run in CI, one process per call and sequentially. Their
concurrency is in what happens *between* calls: the spec changes while instances
live, people edit between regenerations, a scaffold is killed. `Evolution` and
`Project` are about these histories. The collection context of the reference
implementation is concurrent in the ordinary sense: workers share a registry, a
store and job objects, and `Collection` interleaves them statement by statement.

## 2. What is modelled

| Module | Models | State and actions |
| --- | --- | --- |
| `SpecIR` | `spec.py` | the spec as a record; `ValidSpec` is the conjunction of the validators; `ById`, `ByName` are the dict comprehensions that keep the last item of a key |
| `Gate` | `gate.py`, `cli.py:157-179` | one operator per comparison; a report is a set of changes; `Verdict`; `GateExit` is the exit code, with 2 for an invalid spec and 1 for the uncaught `TypeError` of `sorted()` |
| `Evolution` | a chain of gated merges | `main`, `draft`, the exit code of the last gate run, a live `instance`; `Propose`, `RunGate`, `Merge`, `Create`, `Transition` (the generated `_transition`) |
| `EvolutionProofs` | theorems about `Evolution` | section 5 |
| `ListLemmas` | lemmas on lists, for all the proofs | dictionaries read from a list, concatenation, flattening, induction up to a bound |
| `Scaffold` | `scaffold.py` | `Writes(spec)` is the sequence of writes, in order; `WrittenTree` is the directory they leave |
| `Check` | `check.py` | `MaskImpl` (a fold over lines), `SkeletonViolations`, `BoundaryScan`, `CheckProject` |
| `Project` | the life of a generated project | `spec`, `files`, `report`, `edits`; `ChangeSpec`, `Regenerate`, `Interrupt` (scaffold killed after n writes), `InsertLine`, `RemoveLine`, `AddFile`, `DeleteFile`, `RunCheck` |
| `ScaffoldProofs`, `ProjectProofs` | what every generated tree is like; theorems about `Project` | section 5 |
| `Collection` | `RunCollection`, `CollectionJob`, the two in-memory adapters, the ports | `pc` and `run` (place and locals of each worker's call), `state` of each job, `active` sources, the `store`; one action per access to something shared: `Call` (`Refused`, `TestRegistry`, `AcquireInDatabase`), `AddToRegistry`, `Start`, `Fetch`, `Raise`, `TestKey`, `WriteKey`, `Upserted`, `Succeed`, `Except`, `Release`; `Publish` and `Kill` are the environment |
| `CollectionProofs` | theorems about `Collection` | section 5 |
| `Ask` | what a command that asks a model promises | abstract: `status`, `job`, `file`; `Begin`, `Take`, `Save`, `Deliver`, `Decline`, `Break`, `Edit` |
| `Extract` | `extract.py`, `select_arch.py`, `llm/`, the two commands of `cli.py` | `place` of the command, its `job`, the error in the `prompt`, `calls`, the last `reply`, `exit`; `Start` (is there a document), `Read`, `Accept`, `Repair`, `Fail`, `Crash`, `Render` (select-arch prints what it got), `Write`, `WriteFails`, `Tell` (the lines printed last), `PrintFails`, `Kill`; `EditPolicy` and `EditDraft` are the people beside it |
| `Tables` | `decision_table.py` and the table templates of `scaffold.py` | no state: `CheckCompleteness`, `ActiveVersion`, `Lookup` (range), `ExactLookup` (lookup, flag), `MultiRangeLookup` |
| `AnalysisGate` | what the gate before an analysis promises | abstract: one gate's `state` and the `outcome` of a request; `Open`, `Close`, `Analyze`, `Stay` |
| `Valuation` | the valuation context on top of the regulation context | `csv`, the `wired` adapter, `trades`, `gateA`, `gateB`, the `last` call; `AppendRow`, `Wire`, `Trade`, `Reevaluate`, `Analyze` |
| `ExtractProofs`, `TableProofs`, `ValuationProofs` | theorems about them | section 5 |
| `MCEvolution`, `MCProject`, `MCCollection`, `MCExtract`, `MCValuation` | the instances | sets of specs, lines and paths; workers, jobs, trades; texts and repairs; rows and amounts |

`Project` composes `Scaffold` and `Check` as the code does: `check` regenerates
the tree with `scaffold` and compares. `Evolution` is above `Gate`. Both rest on
`SpecIR`. `Check` also holds `BoundaryTestPasses`, the boundary test that
`scaffold` writes into the project, a second copy of the rules of `check`.
`Collection` stands alone, as the reference implementation does. `Valuation`
composes the gates of the valuation context with the table of the regulation
context through the adapter of `composition/wiring.py`. Two refinements are
stated with `INSTANCE ... WITH`: `Extract` implements `Ask`
(`KeepsThePromise`), and `Valuation` implements `AnalysisGate` twice, by
approach A and by approach B (`BothKeepThePromise`).

Abstractions that matter to a reader:

- **A line of a generated file** is a record: its marker (opens an impl block,
  closes one, holds both, plain), its text as a tuple of the template and what
  is filled into it, and its imports. A run of generated lines of equal standing
  is one line. Wording is left out; what a template is *given* is kept, so a
  change of the spec changes the lines that depend on it.
- **An import** has two sides, the string `_domain_imports` sees and the module
  that Python loads. The boundary rules are substring tests on the first and
  stay so: `Occurs` looks for one string in another. What a crossing *is* is
  said of the second.
- **The report of the gate** is a set; its order, wording and counts are left
  out. The verdict and the exit code depend on none of them.
- **`Merge` and who edits** are external: CI merges on exit code 0
  (`DESIGN-v0.5.md`, 10.2). A merge under `--allow-breaking` that was refused
  without it is taken as migrated, so it leaves no old instance behind; this is
  what the option's help text in `cli.py` says it is for.
- A file that does not parse holds the line `Unparsable`; `_domain_imports`
  then yields nothing, as in the code.
- **A test and the assignment after it are two steps** in `Collection`
  (`acquire`, `_transition`, one record of `upsert`), since a thread can be
  switched between them. Two registries are modelled. `in memory` is
  `InMemoryJobRegistry` as it is written, whose test and entry can be pulled
  apart; its docstring says that it simulates a unique constraint, and the
  requirement COL-002 leaves the enforcement to the store. `database` is that
  constraint. Properties of mutual exclusion are claimed of `database` only;
  those that need no lock (`SourceFreed`, `RunsSettle`, that what is stored was
  counted, the types) of both.
- **A record of a trade** is its natural key and the edition of the source it
  was fetched in; `Publish` makes a new edition. A fetch may answer with any
  subset of the source's records, all of one edition. A list that has one
  natural key twice is not modelled; `upsert` would count it once.
- **`Kill`** in `Collection` is an exception that is no `Exception`
  (`KeyboardInterrupt`) inside the `try` or its `except`: only `finally` runs.
  An interrupt between `acquire` and the `try` (`run_collection.py:20-21`) or
  inside `finally` is not modelled: it would leave the source held, and
  `SourceFreed` does not speak of it. A process that dies takes the in-memory
  state with it and is not modelled either.
- `inserted` in `Collection` is a ghost: how often an upsert counted a key as
  inserted, over all runs. `job.reason` is left out, as nothing reads it.
- **An answer of the backend** is what becomes of it: it validates, it fails
  with an error that is fed back, one of the seven ways `claude_session.py`
  raises `LLMError`, or an envelope that is JSON but no object, whose `.get`
  raises what nobody catches. Prompt and schema are left out but for the text
  and the error they carry.
- **The draft** is what it was made of: the tool and the text. `write_text`
  empties the file first, so a write that fails or is killed leaves half a draft
  or nothing written. `select-arch` prints its proposal first, and writes its
  file only with `--out`. What is printed after the write is a step of its own:
  a command that is killed or whose output is closed there ends with another
  code than 0 and leaves a whole draft.
- **The document** is looked for (`exists`) in one step and read in another; in
  between it may be edited or go away.
- **A killed scaffold** (`Interrupt`) leaves the first n of its writes, each
  whole. Killed inside `rmtree` it leaves part of the old tree, killed inside a
  `write_text` a part of a file; such trees are not among the interrupted ones.
  The theorems do not depend on how a tree came about: they hold of every legal
  tree (section 5).
- **A row** of a table is its version, its date, its interval and its output;
  dates and amounts are integers. A table without a version column is a table
  of one version. `Lookup` is the sorted range evaluator of the reference and
  of `scaffold.py`; the templates for several inputs and for exact keys do not
  sort and take the first row of the file.
- **A and B get the same calls**, as in the tests of the reference. What a
  formula computes is floating point and left out; what it refuses is kept
  (`Formulas`). The price of `Analyze` is the caller's and need not be the one
  the limit was looked up for: nothing in the code compares the two.
- `Snake` and `Slug` are constants: the two name conversions, given by tables in
  `MCProject`, with a name that has no slug among them.

## 3. Runs

| Run | Asks | Instance | Result |
| --- | --- | --- | --- |
| `evolution` | Does any chain of proposals, gate runs and merges keep what the gate protects? | 24 specs: every subset of three features, another two, and the single features the gate looks at in isolation (port, relation with and without an event, reworded guard, table shape and versioning, second aggregate, formula, second context, another kind, the states in another order, the first state gone; some are invalid) | holds, about 23 000 states |
| `protected` | Are all guards and invariants protected? | two specs: with two guards of one id and a relationship invariant, and without one of the guards and without the invariant | violated |
| `project` | Does check report exactly what is broken, after any two edits, spec changes and killed scaffolds? | 6 specs, 5 paths, 6 lines | holds, about 139 000 states |
| `impl_lost` | Does work in impl blocks survive a regeneration? | one spec, one path | violated |
| `agents_unprotected` | Is every generated line outside an impl block protected? | one spec, AGENTS.md and one class | violated |
| `boundary_by_name` | Is every crossing import reported? | one spec, one import by name | violated |
| `ports_overwritten` | Has every outbound port its stub? | one spec with two aggregates | violated |
| `collection` | Are runs of one source kept apart, and does every run end well, through failures, retries, an interrupt and new editions? | two workers, two jobs on one source, two trades | holds, about 318 000 states |
| `extract` | Does every command end with the code that tells how, after no more calls than allowed, and leave in the file what it promises? | two texts, two errors, `--max-repair` from -1 to 2 | holds, about 11 000 states |
| `extract_failure` | Does every failure of the model end with code 6? | the same | violated |
| `valuation` | Is the completeness check exact, do answers stay, how far are the two approaches apart, and do both keep the gate's promise under the latest rule? | files of up to three of seven rows, two dates | holds, about 197 000 states |
| `approaches_differ` | Are approaches A and B equivalent? | the same | violated |

What the properties of the passing runs say:

- `Conservative`: over a chain of merges of *any* length, the spec in force
  extends the last approved one; each step was only compared with the one
  before it.
- `LiveInstanceFits`, `NeverStranded`: an instance persisted under one spec has
  a state of the spec in force, and no merge takes a state away that it could
  still reach.
- `BreaksAreApproved`, `ReviewNeedsMore`: `--allow-breaking` is the only door
  for a loss, and is no door for a change that is only reviewable. (A refused
  change takes the reviewable ones beside it through; that is how `_run_gate`
  is written.)
- `ExitIsExact`: 0, 4 and 5 are exact in both directions.
- `DriftIsExact`: the masking *fold* of `check.py` agrees with a definition of
  ownership by *position* (`DeveloperOwned`: the last marker above a line opens
  a block), whatever nesting or lost markers edits have made. Excepted is a
  generated file with both markers on one line, which is finding 4.
- `CrossingsReported`: a domain or web file that parses, generated or new, is
  reported if it spells out a module beyond its boundary.
- `PassRunsTheSpec`: a passing project holds the ALLOWED table of the spec it is
  checked against, also after a spec change without a regeneration and after a
  killed scaffold. Specs with two artefacts on one path are excepted
  (`PathsApart`).
- `FreshVerdict`: an unedited tree passes exactly if the names of the spec keep
  apart what the substring scan tells apart (`NamesApart`): no forbidden word in
  the name of a context or of an aggregate's state module, and the name of no
  other context in the beginning of a module's. `sales` beside `sales_eu`, a
  context `requests`, or one named `contexts` beside one named `domain` (its
  modules begin with `contexts.contexts.domain`) does not pass its own check.
  Said of specs whose files all survive (`PathsApart`): a class that another
  artefact overwrites takes its imports with it.

- `OneRunPerSource`: with the atomic registry, `active` holds exactly the
  sources of the calls between `acquire` and `release`, and no two of these are
  of one source. The `acquire` before the `try` is what it rests on: a refused
  call that reached `finally` would free another worker's source.
- `TableKept`: `_transition` can be overtaken between its test and its
  assignment; the registry is what keeps the transition table for jobs.
- `RunningIsHeld`, `RunsSettle`: a job is not left RUNNING by a call that ended,
  and when an interrupt has left it so, the next run settles it: `start` raises
  `IllegalTransition`, and the `except` marks the job FAILED.
- `InsertsCountedOnce`: a run that fails half-way through its upsert and is
  retried does not count a trade twice, and nothing is stored uncounted.
- `StoreNeverGoesBack`: an answer fetched before the source published anew does
  not overwrite a record of the newer edition.
- `SourceFreed`: every source in the registry leaves it, however its run gets to
  its `finally`.
- `TestAgreesWithCheck` (run `project`): the generated boundary test fails
  exactly where `check` reports a crossing or a scanned file does not parse, in
  the contexts that have a domain directory.

- `AsksWithin`: the backend is asked again only with the error of an answer that
  failed validation, never after an `LLMError`, and at most `max_repair + 1`
  times, also for a negative number.
- `ExitCodeTells`: 0 only after a validated answer; 6 without any answer only if
  there is no document or no attempt to make; 1 never after a broken answer or
  an error of the backend, and without any answer only if the document went away
  between `exists` and `read_text`. It leaves open which of 1 and 6 follows an
  envelope that is no object: that is finding 7. `EveryCommandEnds` is liveness.
- `KeepsThePromise`: the draft saved is of the text the command *read*, whatever
  was edited since; a declined command leaves the file alone, and only one whose
  write breaks off leaves half a draft.
- `CompletenessIsExact`: the walk over neighbours of `check_completeness` agrees
  with a definition by *values*: every corner of the rows falls into exactly one
  of them. Rows that are empty intervals are excepted: one may stand at a
  boundary and be accepted.
- `AppendingKeepsAnswers`: a new version leaves the time before it alone, and no
  row but the first of a newer version changes what a first-row table has
  answered: neither one more row of the version in force nor a row of another
  version that shares its date.
- `AnalysedUnderLatestRule`: whatever the file, the wiring and the date, an
  analysed loan is within the limit of every row with the latest effective date
  that says anything of the price, if the table is complete and its versions
  have a date of their own each. Without the second condition it fails: the
  active version is that of the first row with the date.
- `DifferNoFurther`: after the same calls the approaches differ in no more than
  two points, an analysed complex that B opens again and an analysis that A's
  gate stops before its limit is asked for. That they differ at all is finding 8.
- `BothKeepThePromise`: no result without an open gate and a loan within the
  limit, and no gate left ANALYZED by a request that had no result.

### Bounds

- `MaxEdits = 2` edits between two regenerations. Two are what it takes to nest
  a block, to lose one of two markers and add a line between, to add a file and
  then spoil it, or to repair what the first edit broke.
- `Interrupt` starts at an unedited tree (it removes the tree first in any case,
  so a start from an edited one gives the same result) and nobody edits the
  remains; the spec may change and the check run over them.
- `Editable` has one path of each rule: a class with an impl block, a state
  table without one, a csv, a new domain file, a new web file. `Palette` has one
  line of each kind: harmless, a crossing, a web crossing, an opening marker, a
  closing marker, a syntax error.
- Specs: one context with one aggregate, to which every feature the gate
  compares is added or not. The comparisons are local to a context and a
  domain, and the theorems of section 5 remove this bound for the gate.

- `Collection`: two workers are a race, two jobs on one source are two job
  objects under one lock, and two trades make an upsert that can stop half-way.
  `MaxEdition = 2` makes one answer older than another, `MaxKills = 1` leaves
  one job RUNNING with no run; retries and calls are not bounded.
  `CalledWith` gives the in-memory registry one of the two jobs only: nothing
  keeps its workers apart, so its state space is the larger one, and the
  properties claimed of it are about single runs. The theorems remove all of
  these bounds for safety.

- `Extract`: two texts make a draft of the wrong one possible, two errors a
  prompt with the wrong one; -1 is a loop with no attempt, 2 is three attempts.
- `Valuation`: three rows are two neighbours and one more, or a version and a
  later one with a gap, an overlap or the old one's date. `Counts = {2, 3}` is
  one below `MIN_TRADES` and that number, `Loans` and the rows' outputs cross,
  0 is a price and an equity the formulas refuse. The theorems remove all of
  these bounds for both modules' safety.

Deadlock is checked in every run. `Extract` assumes weak fairness of `Progress`,
the steps of a command that has begun: `subprocess.run` has a timeout of 600
seconds (`claude_session.py:23`, `:40`), so every call of the backend comes to
an answer or to an error, and a read, a print or a write succeeds or raises.
Nobody is obliged to start, to edit or to kill anything. `Collection` assumes
weak fairness of `Work(w)`, the steps of a call that has begun: threads are
scheduled, and the source and the store answer or raise. Nobody is obliged to
call, to publish or to interrupt. No other module states fairness: nobody must
propose, merge, edit or check, so there is no liveness to claim of them.

## 4. Findings

1. `protected`. `_diff_by_id` (`gate.py:124`) keeps the last item of an id and
   `spec.py` does not ask ids to be unique, so one of two guards that share an
   id can be dropped with exit code 0. `gate.py:15` says removing a guard is
   refused by default.
2. `protected`. `_diff_domain` never compares `relationship_invariants`.
   `gate.py:15` says the same of invariants. The merge of the run's trace loses
   one guard and one relationship invariant.
3. `impl_lost`. `scaffold.py:800` removes the whole directory.
   `DESIGN-v0.5.md:280` says the regenerator does not touch impl blocks.
4. `agents_unprotected`. Rule 1 of the generated AGENTS.md (`scaffold.py:647`)
   quotes both markers on one line; `_mask_impl` takes it for an opening marker
   and masks the rest of the file. `README.md:48` says anything outside an impl
   block is caught as drift.
5. `boundary_by_name`. `from contexts import ledger` is seen as `contexts`
   (`check.py:101`) and passes. `README.md:50` says the boundary cannot be
   crossed.
6. `ports_overwritten`. Every aggregate of a context writes the same
   `ports_out.py` (`scaffold.py:868`): the last one's ports remain.
7. `extract_failure`. An envelope that is JSON but no object has no `get`
   (`claude_session.py:50`); what that raises is no `LLMError`, and the command
   ends with 1. `cli.py:10`, `cli.py:13` and `README.md:119` promise 6 when a
   model fails.
8. `approaches_differ`. `gate_service_a.py:34` opens a gate only if it is LOCKED,
   so an analysed complex that still has enough trades stays ANALYZED; approach B
   opens it again. `test_gate_guard.py:1` calls the two equivalent;
   `gate_state.py:22` allows ANALYZED to READY "on new data", which is what B
   does.

Disagreements that no run of their own shows; the passing runs state them as
exceptions or as behaviours that are allowed:

- `run_collection.py:25` passes the number of fetched records as the expected
  number too, so `is_partial` is never true and the check in `succeed` never
  fires. `records.py:4` (COL-004) says a partial collection cannot succeed. In
  `collection`, a fetch that answers with part of the source's records succeeds.
- A write that fails, or a document that vanishes after it was found, ends a
  command with 1, which `cli.py:13` does not list.
- `DESIGN-v0.5.md:353` has contradictory rows of a decision table rejected. No
  code looks for two rows of one key; exact tables answer with the first, which
  is what `AppendingKeepsAnswers` rests on.
- A domain file that does not parse fails the generated boundary test and passes
  `check`'s boundary scan; its drift, if it is a generated file, is reported
  all the same.
- The generated test passes over a context without a domain directory before it
  looks at its web adapter (`scaffold.py:220`); `check` scans the adapter.
  `TestAgreesWithCheck` states the difference.
- `__x` is an identifier, so `spec.py:19` takes it for a context's name, but
  neither `check` (`check.py:113`) nor the test visits a directory whose name
  begins so. The properties of the boundary are about the other contexts.

That the in-memory registry tests and adds in two steps is no finding: COL-002
and its docstring leave the enforcement to the database.

Nothing is claimed of the order of `states`: the gate compares sets and the
template takes `states[0]` as the initial state, so a reordering changes the
initial state and reports nothing. No document promises otherwise. `evolution`
has such a pair among its specs, and its properties hold with it.

## 5. What is proved

`EvolutionProofs`, for every set `Specs` of spec files and every set of
identifiers, from one assumption, `SpecsTyped`: the fields that pydantic
annotates as lists are lists.

- `VerdictIsExact`: for two well-typed specs the verdict is reject exactly if a
  protected rule is lost, review exactly if only something short of a rule is.
- `AlwaysIInv`, with `TypeCorrect`, `ChainsOnlyAdd`, `InstancesFit`: the safety
  invariants of `Evolution`.
- `ExitCodesExact`, `InstancesNotStranded`, `LossesApproved`,
  `ReviewsHaveNoDoor`: the remaining properties of the run `evolution`.

The argument. *The comparison is exact, level by level*: a report is `Lossy`
(something is not "pass") exactly if the new spec does not extend the old one,
and `Refused` exactly if a rule is lost. Each level (`DiffByIdExact`,
`DiffDomainExact`, `DiffTableExact`, `DiffContextExact`) follows from the one
below and from lemmas on unions of reports. *Extension is an order*
(`ExtendsSpecOrder`), so a step that extends the spec in force extends what it
already extended. The safety invariants are not inductive without
`ExitIsCurrent`: `Merge` acts on an exit code that was computed earlier, and
nothing in `Conservative` says of which pair of specs. `IInv` adds it; that it
holds is what `Propose` and `Merge` resetting the code are for.
`ListLemmas` holds what is needed about lists read through a dictionary.

`CollectionProofs`, for any number of workers, jobs, sources and trades and any
bounds, from `CollectionAssumption` (every job has a source; the registries are
the two modelled ones):

- `CollectionInvariant`, with `CollectionTypes`, `LockExcludes`,
  `RunsEndTheirJobs`, `CountedOnce`: the invariants of the run `collection`.
- `TableIsKept`, `StoreOnlyGrowsNewer`: its action properties.

The argument. *The lock first*: the place of each call and the registry move
together (`WorkMoves`, `CallMoves`), which makes `OneRunPerSource` inductive on
its own. *Then each run is alone with its job and its source's records*, so what
it read is still true when it acts on it. Three facts that no run checks by
themselves say what that is: `JobByPlace` (the job is in the state that the
call's place implies, so `_transition`'s assignment is as legal as its test
was), `NothingNewer` (nothing stored is newer than what the run is about to
store) and `CountedThenStored` (a record is counted, then written, and nobody of
that source looks in between). They are conjuncts of `IInv`, and without them
none of `TableKept`, `RunningIsHeld`, `StoreNeverGoesBack` and
`InsertsCountedOnce` is inductive. `LocalsFit`, in the type invariant, ties a
call's local variables to its place.

`ExtractProofs`, for all texts, errors and any integers given for
`--max-repair`: `ExtractTypeOK`, `ExtractAsksWithin`, `ExtractExitCodeTells`,
and `ExtractKeepsThePromise`, that every step is a step of `Ask` or a stutter.
The invariant needs one more conjunct, `ReplyFits`: where the command is tells
what the last answer was. Without it a write could follow anything.

`TableProofs`, for tables of any size over the natural numbers:
`TilingAnswersAll` (rows `check_completeness` accepts answer every value from 0
on with exactly one row) and `AnsweringRowsTile` (rows that answer their corners
once each, none of them empty, are accepted). There is no induction over the
rows: the row that answers x is the last, in sorted order, whose min is at most
x. That it exists, and that a row has a next one, follows from the
well-foundedness of the natural numbers (`LeastNatural`, `LastRowUpTo`,
`NextRow`). The assumption is `NoneIsNoNumber`: a blank max is no number.

`ValuationProofs`, for any rows, dates and amounts, from `RowsAreRules` and
`AmountsAreNatural`: all six properties of the run `valuation`.
`ValuationCompletenessIsExact` follows from the two theorems on tables.
`ValuationDifferNoFurther` is inductive given the types.
`ValuationAppendingKeepsAnswers` rests on `ActiveVersionStays`: a row that is not
newer than one in effect comes behind it in the file. `ValuationKeepsThePromise`
has one lemma for each action that touches a gate. `ValuationAnalysedUnderLatestRule`
chains four facts: a result means that the limit was found and compared
(`DoneMeans`), a limit is a row of the active version that contains the price
(`LookupFindsARow`), the active version is that of a row with the latest date
(`ActiveVersionIsLatest`), and in a complete table no other row of it contains
the price (`TilingAnswersAll`).

`ScaffoldProofs` and `ProjectProofs`, for any set of specs, any paths and lines
to edit and any number of edits. The assumptions: the specs are typed
(`SpecsTyped`), a line that somebody types imports modules and has one of the
four marks (`EditsTyped`), and the words of the templates and of the boundary
rules are strings, spelled as they are (`WordsAreStrings`, `Spelling`: the
provers know of a string literal only that it differs from the others). Two
more are about the characters of names, which a prover cannot see:
`NamesHaveNoDot` (an identifier, and the module name that `_snake` makes of one,
has no dot: `spec.py:19-21` lets only letters, digits and underscores through,
and `_snake` adds nothing else) and `PackagesApart` (the literals: no forbidden
word has a dot but at its beginning, none occurs in `contexts`, `.domain` or
`.exceptions`, and `.domain` does not occur in the modules a web adapter
imports). TLC evaluates all of them.

- `ProjectInvariant`, with `ProjectTypeOK`, `ProjectDriftIsExact`,
  `ProjectTestAgreesWithCheck`, `ProjectPassRunsTheSpec`: four invariants of the
  run `project`.
- `ProjectFreshTreeIsWhole`: in a fresh tree nothing is missing and nothing
  drifts, so its verdict is that of the boundary scan.
- `ProjectCrossingsReported` and `ProjectFreshVerdict`, the fifth and the sixth,
  under the hypothesis that every string is a sequence, as it is in TLA+ and not
  for the provers.
- `ProjectFreshApartPasses`: for a fresh tree to pass it is enough that the names
  are apart; `PathsApart` is needed only for the other direction, where a lost
  class would have been the one reported.

The argument. *The invariant* `IInv` has four conjuncts, and TLC has checked it
as one more invariant of the run: the spec is one of `Specs`, the edits are
counted, the tree is legal (`LegalTree`: paths and files are lists, lines have a
mark and import modules) and `ReportIsCurrent`: a report that is there is the
one `check` would make of this spec and this tree. Without the last nothing
follows from a report, since a report is a variable and the tree moves on; every
action that touches spec or tree takes it back. That scaffold writes legal trees
goes through its emitters one by one (`LegalEmitDomain` ... `LegalRun`), and
holds of every prefix of the writes too (`LegalInterruptedTree`).

*Masking is the skeleton.* `check` compares files by a scan, `DriftIsExact`
speaks of positions. Line by line the masked file is the skeleton with the
sentinel after every opening marker (`MaskAndSkeletonByLine`, `Expand`), and the
skeleton can be had back from it (`Contract`), so two files are masked alike
exactly if their skeletons are (`MaskIsSkeleton`). The scan is a recursive
function over the lines; that it exists and what it has seen after k lines is
shown by induction on k up to the length, with a set of the good k in place of an
induction theorem (`BoundedInduction`, `MaskScans`).

*Passing.* A state table has no impl block, so its mask is its one line, which
every file masked alike contains (`StateTableSurvivesTheMask`); if no other
artefact is written to its path, the generated tree has it
(`AggregateIsWritten`, `WrittenLines`).

*Substrings.* The dotted name of a module is put together part by part
(`DottedJoins`, `JoinedExtends`), so each part, and its first two with the dot
between them, occur in it (`PartsOccur`): what crosses the boundary is forbidden
(`CrossingIsForbidden`). Occurrence is transitive (`OccursTransitive`), so what
occurs in a part of the name of an import of a generated class occurs in the
import (`AllowedImportIsApart`), and is reported.

*A fresh tree.* That one which passes has names apart is the above, for the class
or the evaluator of each context that has one (`FreshPassNow`). The converse
needs to know everything that is generated: emitter by emitter, each file is in
no context, or in one and imports no more than its ring does (`PlacedEmitDomain`
... `EveryFileIsPlaced`): its own `exceptions` and state modules in the domain,
its own `application`, `serializers` and `views` in the web adapters. It also
needs to know where a word can *not* occur. A word whose only dot may be its
first character occurs in one of the parts of a dotted name, the dot counted to
the part behind it (`WordIsInOnePart`), so a forbidden word would be in the
context's name, in the module's or in a literal. A word of two parts can straddle
one dot only: it occurs in the first three parts of the name if its own first
part, `contexts`, is longer than the name's third, `domain` (`PairIsInTheFront`).
And what is left of a word behind a common beginning occurs in the rest of the
name (`EndIsInTheRest`), so a web adapter's import is no import of its domain
(`WebImportAllowed`).

Proving found two statements that held of the instance only, and both have been
changed: `FreshVerdict` needed `PathsApart`, and `NamesApart` had to look for the
names of other contexts in the beginning of a module's name (hence the spec
`Mirror`), and only at the contexts that are scanned.

Only model-checked: the liveness of `Collection` (`SourceFreed`, `RunsSettle`) and
of `Extract` (`EveryCommandEnds`, and the liveness of `Ask` in
`KeepsThePromise`), and the eight findings. Every other property of a
passing run is a theorem. Beyond the prover in any case: liveness, ENABLED,
induction over data with the library's theorems, and the characters of a literal,
which is why `PackagesApart` is an assumption that TLC evaluates.

## 6. Not modelled

- YAML and pydantic's type errors: a spec that is not loaded is not a state.
- Wording of messages and of generated code beyond what section 2 lists; the
  excerpt in a drift violation; the number of items behind one gate change.
- Directories without files: `check` could list a context whose directory is
  left empty; the model derives contexts from files.
- Relative imports, which `_domain_imports` reports without their dots.
- A document or an answer of the process that cannot be decoded, argparse's own
  exits, and what `load_spec` and the rendering of a draft may raise.
- `assert_complete` of the generated tables and of the reference: only tests call
  it, so an incomplete table is loaded and answers what it can.
- Cells of a csv that are no numbers, negative or blank in `min`, and NaN.
- The results of the reference's formulas (floating point) and its trade volume
  query, which is a number here.
- The examples' specs and documents, the generated text of the example outputs.

## 7. Plan

Done, in this order: `Gate` and `Evolution`, the core of the tool, with their
proofs; `Scaffold`, `Check` and `Project`; `Collection` with its proofs; `Ask`
and `Extract` with the refinement and its proof; `Tables` with the theorems on
completeness; `AnalysisGate` and `Valuation` with both refinements and their
proofs; the generated boundary test; `ScaffoldProofs` and `ProjectProofs`, at last
with both halves of `FreshVerdict`. Left:

1. Of the scaffold, the order inside the generated files that no property looks
   at (the agent files, the ledger), if a property about them is found.
2. Whether every generated file is Python. With `ProjectTestAgreesWithCheck` and
   `ProjectFreshApartPasses` the generated boundary test would then pass in every
   fresh tree of a spec whose names are apart; but the lines of the model carry no
   syntax, so it would have to model what the templates make of a spec's texts
   and slugs first. A theorem about the lines as they are would say nothing.
