----------------------------- MODULE Collection -----------------------------
(***************************************************************************)
(* The collection context of the reference implementation: workers that    *)
(* run RunCollection over jobs, the registry that is to keep two of them   *)
(* off one source, and the store of trades.                                *)
(*                                                                         *)
(* A record is its natural key and the edition of the source it was read   *)
(* in; prices and areas are left out.  A step of a worker is what it does  *)
(* between two accesses to something another worker can touch: a test and  *)
(* the assignment that follows it are two steps.                           *)
(***************************************************************************)
EXTENDS Naturals, FiniteSets

CONSTANTS
  Workers, Jobs, Sources,
  SourceOf,     \* job -> the source it collects
  Offer,        \* source -> the natural keys the source has
  Registries,   \* the registries to run with: "in memory", "database"
  CalledWith,   \* bound: registry -> the jobs that are called when it is wired
  MaxEdition,   \* bound: how often a source publishes anew
  MaxKills      \* bound: how many runs are interrupted

ASSUME CollectionAssumption ==
  /\ SourceOf \in [Jobs -> Sources]
  /\ Registries \subseteq {"in memory", "database"}
  /\ CalledWith \in [Registries -> SUBSET Jobs]
  /\ MaxEdition \in Nat \ {0}
  /\ MaxKills \in Nat

Keys == UNION {Offer[s] : s \in Sources}
Absent == 0  \* no record under a key

JobState == {"IDLE", "RUNNING", "SUCCEEDED", "FAILED"}

Allowed ==
  [IDLE |-> {"RUNNING"}, RUNNING |-> {"SUCCEEDED", "FAILED"},
   FAILED |-> {"RUNNING"}, SUCCEEDED |-> {"RUNNING"}]

VARIABLES
  registry,   \* which registry is wired
  active,     \* sources in the registry
  state,      \* job -> its state
  edition,    \* source -> its current edition
  store,      \* key -> edition of the stored record, or Absent
  pc,         \* worker -> where in RunCollection it is
  run,        \* worker -> the local variables of its call
  inserted,   \* ghost: key -> how often an upsert counted it as inserted
  kills       \* interrupts so far

vars == <<registry, active, state, edition, store, pc, run, inserted, kills>>

NoRun == [job |-> "none", edition |-> Absent, got |-> {}, todo |-> {}, key |-> "none"]

Source(w) == SourceOf[run[w].job]

Init ==
  /\ registry \in Registries
  /\ active = {}
  /\ state = [j \in Jobs |-> "IDLE"]
  /\ edition = [s \in Sources |-> 1]
  /\ store = [k \in Keys |-> Absent]
  /\ pc = [w \in Workers |-> "idle"]
  /\ run = [w \in Workers |-> NoRun]
  /\ inserted = [k \in Keys |-> 0]
  /\ kills = 0

Goto(w, at) == pc' = [pc EXCEPT ![w] = at]

\* Local variables that are not read again.
Forget(w) == run' = [run EXCEPT ![w] = [NoRun EXCEPT !.job = run[w].job]]

-----------------------------------------------------------------------------
(* Calling, and the registry.                                              *)

\* Enter the call for job j, at this place.
Enter(w, j, at) == run' = [run EXCEPT ![w].job = j] /\ Goto(w, at)

\* Mutant: acquire inside the try, so that a refused call releases the source.
RefusedInTry(w, j) ==
  /\ pc[w] = "idle"
  /\ SourceOf[j] \in active
  /\ Enter(w, j, "release")
  /\ UNCHANGED <<registry, active, state, edition, store, inserted, kills>>

\* The source is taken: ConcurrentCollection ends the call before its try.
Refused(w, j) ==
  /\ pc[w] = "idle"
  /\ SourceOf[j] \in active
  /\ UNCHANGED vars

\* The in-memory acquire has found the source free.
TestRegistry(w, j) ==
  /\ pc[w] = "idle"
  /\ registry = "in memory"
  /\ SourceOf[j] \notin active
  /\ Enter(w, j, "add")
  /\ UNCHANGED <<registry, active, state, edition, store, inserted, kills>>

AddToRegistry(w) ==
  /\ pc[w] = "add"
  /\ active' = active \cup {Source(w)}
  /\ Goto(w, "start")
  /\ UNCHANGED <<registry, state, edition, store, run, inserted, kills>>

\* Mutant: the source is looked up and not entered.
AcquireWithoutEntry(w, j) ==
  /\ pc[w] = "idle"
  /\ registry = "database"
  /\ SourceOf[j] \notin active
  /\ Enter(w, j, "start")
  /\ UNCHANGED <<registry, active, state, edition, store, inserted, kills>>

\* A registry with a unique constraint tests and adds at once.
AcquireInDatabase(w, j) ==
  /\ pc[w] = "idle"
  /\ registry = "database"
  /\ SourceOf[j] \notin active
  /\ active' = active \cup {SourceOf[j]}
  /\ Enter(w, j, "start")
  /\ UNCHANGED <<registry, state, edition, store, inserted, kills>>

\* RunCollection(job), up to its try.
Call(w, j) == Refused(w, j) \/ TestRegistry(w, j) \/ AcquireInDatabase(w, j)

Release(w) ==
  /\ pc[w] = "release"
  /\ active' = active \ {Source(w)}
  /\ Goto(w, "idle")
  /\ run' = [run EXCEPT ![w] = NoRun]
  /\ UNCHANGED <<registry, state, edition, store, inserted, kills>>

-----------------------------------------------------------------------------
(* CollectionJob._transition: a test and an assignment.                    *)

\* The test: IllegalTransition goes to `otherwise`.
TestTransition(w, at, to, then, otherwise) ==
  /\ pc[w] = at
  /\ Goto(w, IF to \in Allowed[state[run[w].job]] THEN then ELSE otherwise)
  /\ UNCHANGED <<registry, active, state, edition, store, run, inserted, kills>>

SetState(w, at, to, then) ==
  /\ pc[w] = at
  /\ state' = [state EXCEPT ![run[w].job] = to]
  /\ Forget(w)
  /\ Goto(w, then)
  /\ UNCHANGED <<registry, active, edition, store, inserted, kills>>

Start(w) == \/ TestTransition(w, "start", "RUNNING", "starting", "except")
            \/ SetState(w, "starting", "RUNNING", "fetch")

\* The result the use case makes: both counts are those of the list it got.
Result(r) == [fetched |-> Cardinality(r.got), expected |-> Cardinality(r.got)]

IsPartial(result) == result.fetched < result.expected

\* Either test ends in `except`: InvariantViolation, or IllegalTransition.
Succeed(w) ==
  \/ /\ pc[w] = "succeed"
     /\ Goto(w, IF ~IsPartial(Result(run[w])) /\ "SUCCEEDED" \in Allowed[state[run[w].job]]
                THEN "succeeding" ELSE "except")
     /\ UNCHANGED <<registry, active, state, edition, store, run, inserted, kills>>
  \/ SetState(w, "succeeding", "SUCCEEDED", "release")

\* Mutant: the exception passes by, and the job is not failed.
ExceptWithoutFail(w) ==
  /\ pc[w] = "except"
  /\ Goto(w, "release")
  /\ UNCHANGED <<registry, active, state, edition, store, run, inserted, kills>>

\* Mutant: no `finally`, so that a failed call keeps the source.
ExceptWithoutFinally(w) ==
  \/ /\ pc[w] = "except"
     /\ Goto(w, IF state[run[w].job] = "RUNNING" THEN "fail" ELSE "idle")
     /\ UNCHANGED <<registry, active, state, edition, store, run, inserted, kills>>
  \/ TestTransition(w, "fail", "FAILED", "failing", "idle")
  \/ SetState(w, "failing", "FAILED", "idle")

\* `except Exception`: only a running job is failed; then `finally`.
Except(w) ==
  \/ /\ pc[w] = "except"
     /\ Goto(w, IF state[run[w].job] = "RUNNING" THEN "fail" ELSE "release")
     /\ UNCHANGED <<registry, active, state, edition, store, run, inserted, kills>>
  \/ TestTransition(w, "fail", "FAILED", "failing", "release")
  \/ SetState(w, "failing", "FAILED", "release")

-----------------------------------------------------------------------------
(* The source, and the upsert of what it answered.                         *)

\* The source answers with some of its records, all of its present edition.
Fetch(w) ==
  /\ pc[w] = "fetch"
  /\ \E got \in SUBSET Offer[Source(w)] :
       run' = [run EXCEPT ![w] = [@ EXCEPT !.edition = edition[Source(w)],
                                           !.got = got, !.todo = got]]
  /\ Goto(w, "upsert")
  /\ UNCHANGED <<registry, active, state, edition, store, inserted, kills>>

\* Mutant: what the source or the store raises is not caught.
RaiseUncaught(w) ==
  /\ pc[w] \in {"fetch", "upsert"}
  /\ Forget(w)
  /\ Goto(w, "release")
  /\ UNCHANGED <<registry, active, state, edition, store, inserted, kills>>

\* The source or the store raises.
Raise(w) ==
  /\ pc[w] \in {"fetch", "upsert"}
  /\ Forget(w)
  /\ Goto(w, "except")
  /\ UNCHANGED <<registry, active, state, edition, store, inserted, kills>>

\* Mutant: a record counts as inserted if its edition is new.
TestKeyByEdition(w, k) ==
  /\ pc[w] = "upsert"
  /\ k \in run[w].todo
  /\ inserted' = [inserted EXCEPT ![k] = IF store[k] # run[w].edition THEN @ + 1 ELSE @]
  /\ run' = [run EXCEPT ![w].key = k]
  /\ Goto(w, "write")
  /\ UNCHANGED <<registry, active, state, edition, store, kills>>

\* One record of upsert: is its key there?  It counts as inserted if not.
TestKey(w, k) ==
  /\ pc[w] = "upsert"
  /\ k \in run[w].todo
  /\ inserted' = [inserted EXCEPT ![k] = IF store[k] = Absent THEN @ + 1 ELSE @]
  /\ run' = [run EXCEPT ![w].key = k]
  /\ Goto(w, "write")
  /\ UNCHANGED <<registry, active, state, edition, store, kills>>

\* Mutant: the loop does not move on.
WriteKeyAgain(w) ==
  /\ pc[w] = "write"
  /\ store' = [store EXCEPT ![run[w].key] = run[w].edition]
  /\ Goto(w, "upsert")
  /\ UNCHANGED <<registry, active, state, edition, run, inserted, kills>>

WriteKey(w) ==
  /\ pc[w] = "write"
  /\ store' = [store EXCEPT ![run[w].key] = run[w].edition]
  /\ run' = [run EXCEPT ![w] = [@ EXCEPT !.todo = run[w].todo \ {run[w].key}, !.key = "none"]]
  /\ Goto(w, "upsert")
  /\ UNCHANGED <<registry, active, state, edition, inserted, kills>>

Upserted(w) ==
  /\ pc[w] = "upsert"
  /\ run[w].todo = {}
  /\ run' = [run EXCEPT ![w].edition = Absent]
  /\ Goto(w, "succeed")
  /\ UNCHANGED <<registry, active, state, edition, store, inserted, kills>>

-----------------------------------------------------------------------------
\* The source publishes its records anew.
Publish(s) ==
  /\ edition[s] < MaxEdition
  /\ edition' = [edition EXCEPT ![s] = @ + 1]
  /\ UNCHANGED <<registry, active, state, store, pc, run, inserted, kills>>

InTry == {"start", "starting", "fetch", "upsert", "write", "succeed", "succeeding"}

\* KeyboardInterrupt or SystemExit in the try or in its `except`: no Exception,
\* so what is left is `finally`.
Kill(w) ==
  /\ pc[w] \in InTry \cup {"except", "fail", "failing"}
  /\ kills < MaxKills
  /\ kills' = kills + 1
  /\ Forget(w)
  /\ Goto(w, "release")
  /\ UNCHANGED <<registry, active, state, edition, store, inserted>>

Work(w) ==
  \/ AddToRegistry(w)
  \/ Start(w)
  \/ Fetch(w) \/ Raise(w)
  \/ \E k \in run[w].todo : TestKey(w, k)
  \/ WriteKey(w) \/ Upserted(w)
  \/ Succeed(w) \/ Except(w)
  \/ Release(w)

Next ==
  \/ \E w \in Workers, j \in CalledWith[registry] : Call(w, j)
  \/ \E w \in Workers : Work(w)
  \/ \E s \in Sources : Publish(s)
  \/ \E w \in Workers : Kill(w)

\* A call that has begun goes on: threads are scheduled, and the source and
\* the store answer or raise.  Nobody is obliged to call.
Fairness == \A w \in Workers : WF_vars(Work(w))

Spec == Init /\ [][Next]_vars /\ Fairness

-----------------------------------------------------------------------------
\* Inside the call: the source is this worker's to release.
Inside == InTry \cup {"except", "fail", "failing", "release"}

Running(w, j) == pc[w] \in Inside /\ run[w].job = j

\* A key that only one source has.
Exclusive(k) == \A s, t \in Sources : k \in Offer[s] /\ k \in Offer[t] => s = t

Locals ==
  [job : Jobs \cup {"none"}, edition : 0..MaxEdition, got : SUBSET Keys, todo : SUBSET Keys,
   key : Keys \cup {"none"}]

\* A call's local variables are what its place in the code says.
LocalsFit(w) ==
  /\ pc[w] # "idle" => run[w].job \in Jobs
  /\ pc[w] = "add" => registry = "in memory"
  /\ IF pc[w] = "write" THEN run[w].key \in run[w].todo ELSE run[w].key = "none"
  /\ pc[w] \in {"upsert", "write"} => /\ run[w].edition \in 1..edition[Source(w)]
                                     /\ run[w].todo \subseteq Offer[Source(w)]

\* Every variable has its type, and every call the locals of its place.
TypeOK ==
  /\ registry \in Registries
  /\ active \subseteq Sources
  /\ state \in [Jobs -> JobState]
  /\ edition \in [Sources -> 1..MaxEdition]
  /\ store \in [Keys -> 0..MaxEdition]
  /\ kills \in 0..MaxKills
  /\ inserted \in [Keys -> Nat]
  /\ pc \in [Workers -> Inside \cup {"idle", "add"}]
  /\ run \in [Workers -> Locals]
  /\ \A w \in Workers : LocalsFit(w)

\* COL-002, with a registry that tests and adds at once: two workers are never
\* in one source's collection, and the registry holds exactly those that are.
OneRunPerSource ==
  registry = "database" =>
    /\ active = {Source(w) : w \in {x \in Workers : pc[x] \in Inside}}
    /\ \A w, x \in Workers :
         pc[w] \in Inside /\ pc[x] \in Inside /\ Source(w) = Source(x) => w = x

\* A job stays RUNNING after its call has ended only if the call was
\* interrupted by something `except Exception` does not catch.
RunningIsHeld ==
  registry = "database" /\ kills = 0 =>
    \A j \in Jobs : state[j] = "RUNNING" => \E w \in Workers : Running(w, j)

\* COL-003: over all runs, failed and retried ones too, a record that one source
\* has is counted as inserted once; with any registry and any sources, a stored
\* record has been counted.
InsertsCountedOnce ==
  \A k \in Keys :
    /\ registry = "database" /\ kills = 0 /\ Exclusive(k) => inserted[k] <= 1
    /\ store[k] # Absent => inserted[k] >= 1

\* The job table is kept: nothing fails a job that has succeeded.
TableKept ==
  [][registry = "database" =>
       \A j \in Jobs : state'[j] # state[j] => state'[j] \in Allowed[state[j]]]_vars

\* COL-003: an older answer of a source never overwrites a newer one.
StoreNeverGoesBack ==
  [][registry = "database" =>
       \A k \in Keys : Exclusive(k) => store[k] <= store'[k]]_vars

\* A source is freed after every run that succeeds, fails, raises, or is
\* interrupted before its `finally`.
SourceFreed == \A s \in Sources : s \in active ~> s \notin active

\* Every run that is not interrupted settles its job, one that finds the job
\* left RUNNING by an interrupted run included: a retry heals it.
RunsSettle ==
  \A j \in Jobs :
    (kills = MaxKills /\ \E w \in Workers : pc[w] \in {"start", "fetch"} /\ run[w].job = j)
      ~> state[j] \in {"SUCCEEDED", "FAILED"}

-----------------------------------------------------------------------------
(* What the safety properties rest on.                                     *)

\* A run's job is in the state that its place in the call implies.
JobFits(w) ==
  /\ pc[w] = "starting" => state[run[w].job] # "RUNNING"
  /\ pc[w] \in {"fetch", "upsert", "write", "succeed", "succeeding", "fail", "failing"} =>
       state[run[w].job] = "RUNNING"
  /\ pc[w] = "release" /\ kills = 0 => state[run[w].job] # "RUNNING"

JobByPlace == registry = "database" => \A w \in Workers : JobFits(w)

\* Nothing stored is newer than what its source has, or than what a run is
\* about to store.
NothingNewer ==
  registry = "database" =>
    \A k \in Keys : Exclusive(k) =>
      /\ \A s \in Sources : k \in Offer[s] => store[k] <= edition[s]
      /\ \A w \in Workers :
           pc[w] \in {"upsert", "write"} /\ k \in run[w].todo => store[k] <= run[w].edition

\* A record is counted, then stored.
CountedThenStored ==
  \A k \in Keys :
    /\ \A w \in Workers : pc[w] = "write" /\ run[w].key = k => inserted[k] >= 1
    /\ registry = "database" /\ kills = 0 /\ Exclusive(k) /\ inserted[k] >= 1 =>
         store[k] # Absent \/ \E w \in Workers : pc[w] = "write" /\ run[w].key = k

IInv ==
  /\ TypeOK /\ OneRunPerSource /\ JobByPlace /\ RunningIsHeld
  /\ NothingNewer /\ CountedThenStored /\ InsertsCountedOnce

=============================================================================
