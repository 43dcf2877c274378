-------------------------- MODULE CollectionProofs --------------------------
(***************************************************************************)
(* Collection for any number of workers, jobs, sources and trades: what a  *)
(* registry that tests and adds at once keeps apart, and what follows for  *)
(* the jobs and the store.                                                 *)
(***************************************************************************)
EXTENDS Collection, TLAPS

Places == Inside \cup {"idle", "add"}

\* The constants that are functions, as the proofs use them.
LEMMA Constants ==
  /\ SourceOf \in [Jobs -> Sources]
  /\ \A r \in Registries : CalledWith[r] \subseteq Jobs
  /\ \A s \in Sources : Offer[s] \subseteq Keys
BY CollectionAssumption DEF CollectionAssumption, Keys

\* The bounds.
LEMMA Bounds == MaxEdition \in Nat \ {0} /\ MaxKills \in Nat
BY CollectionAssumption DEF CollectionAssumption

\* The initial states satisfy the inductive invariant.
LEMMA InitIInv == Init => IInv
<1>1. Init => TypeOK
  <2>1. Init => run \in [Workers -> Locals] /\ store \in [Keys -> 0..MaxEdition]
    BY Bounds DEF Init, NoRun, Locals, Absent
  <2>2. Init => \A w \in Workers : LocalsFit(w)
    BY DEF Init, LocalsFit, NoRun
  <2>3. Init => edition \in [Sources -> 1..MaxEdition] /\ kills \in 0..MaxKills
    BY Bounds DEF Init
  <2>4. Init => registry \in Registries /\ active \subseteq Sources /\ state \in [Jobs -> JobState]
    BY DEF Init, JobState
  <2>5. Init => pc \in [Workers -> Inside \cup {"idle", "add"}] /\ inserted \in [Keys -> Nat]
    BY DEF Init
  <2> QED
    BY <2>1, <2>2, <2>3, <2>4, <2>5 DEF TypeOK
<1>2. Init => OneRunPerSource
  BY DEF Init, OneRunPerSource, Inside, InTry
<1>3. Init => JobByPlace /\ RunningIsHeld
  BY DEF Init, JobByPlace, JobFits, RunningIsHeld
<1>4. Init => NothingNewer /\ CountedThenStored /\ InsertsCountedOnce
  <2>1. Init => \A s \in Sources : edition[s] = 1
    BY DEF Init
  <2>2. Init => \A k \in Keys : store[k] = 0 /\ inserted[k] = 0
    BY DEF Init, Absent
  <2>3. Init => \A w \in Workers : pc[w] = "idle"
    BY DEF Init
  <2> QED
    BY <2>1, <2>2, <2>3 DEF NothingNewer, CountedThenStored, InsertsCountedOnce, Absent
<1> QED
  BY <1>1, <1>2, <1>3, <1>4 DEF IInv

-----------------------------------------------------------------------------
(* Types and local variables.                                              *)

\* A step of one worker leaves the other workers' calls as they are.
LEMMA OneMoves ==
  ASSUME TypeOK, NEW w \in Workers, NEW at \in Places, NEW r \in Locals,
         pc' = [pc EXCEPT ![w] = at], run' = [run EXCEPT ![w] = r],
         registry' = registry, edition' = edition
  PROVE  /\ pc' \in [Workers -> Places] /\ run' \in [Workers -> Locals]
         /\ pc'[w] = at /\ run'[w] = r
         /\ \A x \in Workers : x # w => pc'[x] = pc[x] /\ run'[x] = run[x] /\ LocalsFit(x)'
<1>1. pc \in [Workers -> Places] /\ run \in [Workers -> Locals] /\ \A x \in Workers : LocalsFit(x)
  BY DEF TypeOK, Places
<1>2. pc' \in [Workers -> Places] /\ run' \in [Workers -> Locals] /\ pc'[w] = at /\ run'[w] = r
  BY <1>1
<1>3. \A x \in Workers : x # w => pc'[x] = pc[x] /\ run'[x] = run[x]
  BY <1>1
<1>4. \A x \in Workers : x # w => LocalsFit(x)'
  BY <1>1, <1>3 DEF LocalsFit, Source
<1> QED
  BY <1>2, <1>3, <1>4

\* A call keeps its job and goes to a place with no other claim on its locals.
LEMMA MovesOn ==
  ASSUME TypeOK, NEW w \in Workers, NEW at \in Places \ {"add", "upsert", "write"},
         NEW r \in Locals, at # "idle" => r.job \in Jobs, r.key = "none",
         pc' = [pc EXCEPT ![w] = at], run' = [run EXCEPT ![w] = r],
         registry' = registry, edition' = edition
  PROVE  /\ pc' \in [Workers -> Places] /\ run' \in [Workers -> Locals]
         /\ \A x \in Workers : LocalsFit(x)'
<1>1. LocalsFit(w)'
  BY OneMoves DEF LocalsFit
<1> QED
  BY <1>1, OneMoves

\* A call that goes on without changing its locals.
LEMMA GoesOn ==
  ASSUME TypeOK, NEW w \in Workers, NEW at \in Places \ {"idle", "add", "upsert", "write"},
         pc[w] \notin {"idle", "write"}, pc' = [pc EXCEPT ![w] = at], run' = run,
         registry' = registry, edition' = edition
  PROVE  /\ pc' \in [Workers -> Places] /\ run' \in [Workers -> Locals]
         /\ \A x \in Workers : LocalsFit(x)'
<1>1. run \in [Workers -> Locals] /\ run[w].job \in Jobs /\ run[w].key = "none"
  BY DEF TypeOK, LocalsFit
<1>2. run' = [run EXCEPT ![w] = run[w]]
  BY <1>1
<1> QED
  BY <1>1, <1>2, MovesOn

\* Forgetting keeps the job.
LEMMA Forgotten ==
  ASSUME TypeOK, NEW w \in Workers, pc[w] # "idle"
  PROVE  [NoRun EXCEPT !.job = run[w].job] \in Locals
         /\ [NoRun EXCEPT !.job = run[w].job].job = run[w].job
         /\ [NoRun EXCEPT !.job = run[w].job].key = "none"
         /\ run[w].job \in Jobs
<1>1. run[w].job \in Jobs
  BY DEF TypeOK, LocalsFit
<1> QED
  BY <1>1, Bounds DEF NoRun, Locals, Absent

\* The test of _transition, at any place of the call.
LEMMA TestTransitionTypes ==
  ASSUME TypeOK, NEW w \in Workers, NEW at \in Places \ {"idle", "write"}, NEW to,
         NEW then \in Places \ {"idle", "add", "upsert", "write"},
         NEW otherwise \in Places \ {"idle", "add", "upsert", "write"},
         TestTransition(w, at, to, then, otherwise)
  PROVE  TypeOK'
<1> DEFINE next == IF to \in Allowed[state[run[w].job]] THEN then ELSE otherwise
<1>1. pc[w] \notin {"idle", "write"} /\ pc' = [pc EXCEPT ![w] = next]
      /\ UNCHANGED <<registry, active, state, edition, store, run, inserted, kills>>
  BY DEF TestTransition, Goto
<1>2. next \in Places \ {"idle", "add", "upsert", "write"}
  OBVIOUS
<1> HIDE DEF next
<1>3. pc' \in [Workers -> Places] /\ run' \in [Workers -> Locals] /\ \A x \in Workers : LocalsFit(x)'
  BY <1>1, <1>2, GoesOn
<1> QED
  BY <1>1, <1>3 DEF TypeOK, Places

\* Its assignment.
LEMMA SetStateTypes ==
  ASSUME TypeOK, NEW w \in Workers, NEW at \in Places \ {"idle"}, NEW to \in JobState,
         NEW then \in Places \ {"idle", "add", "upsert", "write"},
         SetState(w, at, to, then)
  PROVE  TypeOK'
<1>1. pc[w] # "idle" /\ pc' = [pc EXCEPT ![w] = then]
      /\ state' = [state EXCEPT ![run[w].job] = to]
      /\ run' = [run EXCEPT ![w] = [NoRun EXCEPT !.job = run[w].job]]
      /\ UNCHANGED <<registry, active, edition, store, inserted, kills>>
  BY DEF SetState, Forget, Goto
<1>2. pc' \in [Workers -> Places] /\ run' \in [Workers -> Locals] /\ \A x \in Workers : LocalsFit(x)'
  BY <1>1, Forgotten, MovesOn
<1>3. state' \in [Jobs -> JobState]
  BY <1>1 DEF TypeOK
<1> QED
  BY <1>1, <1>2, <1>3 DEF TypeOK, Places

\* Every step keeps types, and local variables that fit their place.
LEMMA TypeStep == TypeOK /\ [Next]_vars => TypeOK'
<1> SUFFICES ASSUME TypeOK, [Next]_vars PROVE TypeOK'
  OBVIOUS
<1>t. /\ registry \in Registries /\ active \subseteq Sources /\ state \in [Jobs -> JobState]
      /\ edition \in [Sources -> 1..MaxEdition] /\ store \in [Keys -> 0..MaxEdition]
      /\ kills \in 0..MaxKills /\ inserted \in [Keys -> Nat]
      /\ pc \in [Workers -> Places] /\ run \in [Workers -> Locals]
      /\ \A w \in Workers : LocalsFit(w)
  BY DEF TypeOK, Places
<1>1. ASSUME NEW w \in Workers, NEW j \in CalledWith[registry], Call(w, j)
      PROVE  TypeOK'
  <2>j. j \in Jobs /\ SourceOf[j] \in Sources
    BY Constants, <1>t
  <2>r. pc[w] = "idle" => /\ [run[w] EXCEPT !.job = j] \in Locals
                          /\ [run[w] EXCEPT !.job = j].job = j
                          /\ [run[w] EXCEPT !.job = j].key = "none"
    BY <1>t, <2>j DEF Locals, LocalsFit
  <2>1. CASE Refused(w, j)
    BY <2>1, <1>t DEF Refused, vars, TypeOK, LocalsFit, Source, Places
  <2>2. CASE TestRegistry(w, j)
    <3>1. /\ pc' = [pc EXCEPT ![w] = "add"] /\ run' = [run EXCEPT ![w] = [run[w] EXCEPT !.job = j]]
          /\ pc[w] = "idle" /\ registry = "in memory"
          /\ UNCHANGED <<registry, active, state, edition, store, inserted, kills>>
      BY <2>2 DEF TestRegistry, Enter, Goto
    <3>2. "add" \in Places
      BY DEF Places
    <3>3. LocalsFit(w)'
      BY <3>1, <3>2, <2>j, <2>r, OneMoves DEF LocalsFit
    <3>4. pc' \in [Workers -> Places] /\ run' \in [Workers -> Locals] /\ \A x \in Workers : LocalsFit(x)'
      BY <3>1, <3>2, <3>3, <2>r, OneMoves
    <3> QED
      BY <3>1, <3>4, <1>t DEF TypeOK, Places
  <2>3. CASE AcquireInDatabase(w, j)
    <3>1. /\ pc' = [pc EXCEPT ![w] = "start"] /\ run' = [run EXCEPT ![w] = [run[w] EXCEPT !.job = j]]
          /\ pc[w] = "idle" /\ active' = active \cup {SourceOf[j]}
          /\ UNCHANGED <<registry, state, edition, store, inserted, kills>>
      BY <2>3 DEF AcquireInDatabase, Enter, Goto
    <3>2. "start" \in Places \ {"idle", "add", "upsert", "write"}
      BY DEF Places, Inside, InTry
    <3>3. pc' \in [Workers -> Places] /\ run' \in [Workers -> Locals] /\ \A x \in Workers : LocalsFit(x)'
      BY <3>1, <3>2, <2>j, <2>r, MovesOn
    <3> QED
      BY <3>1, <3>3, <2>j, <1>t DEF TypeOK, Places
  <2> QED
    BY <1>1, <2>1, <2>2, <2>3 DEF Call
<1>2. ASSUME NEW w \in Workers, AddToRegistry(w) PROVE TypeOK'
  <2>1. /\ pc[w] = "add" /\ pc' = [pc EXCEPT ![w] = "start"]
        /\ active' = active \cup {Source(w)}
        /\ UNCHANGED <<registry, state, edition, store, run, inserted, kills>>
    BY <1>2 DEF AddToRegistry, Goto
  <2>2. Source(w) \in Sources
    BY <2>1, <1>t, Constants DEF LocalsFit, Source
  <2>3. pc' \in [Workers -> Places] /\ run' \in [Workers -> Locals] /\ \A x \in Workers : LocalsFit(x)'
    BY <2>1, GoesOn DEF Places, Inside, InTry
  <2> QED
    BY <2>1, <2>2, <2>3, <1>t DEF TypeOK, Places
<1>3. ASSUME NEW w \in Workers, Fetch(w) PROVE TypeOK'
  <2>1. PICK got \in SUBSET Offer[Source(w)] :
          run' = [run EXCEPT ![w] = [@ EXCEPT !.edition = edition[Source(w)], !.got = got, !.todo = got]]
    BY <1>3 DEF Fetch
  <2>2. /\ pc[w] = "fetch" /\ pc' = [pc EXCEPT ![w] = "upsert"]
        /\ UNCHANGED <<registry, active, state, edition, store, inserted, kills>>
    BY <1>3 DEF Fetch, Goto
  <2>3. run[w].job \in Jobs /\ Source(w) \in Sources /\ got \subseteq Keys
        /\ edition[Source(w)] \in 1..MaxEdition
    BY <2>1, <2>2, <1>t, Constants DEF LocalsFit, Source
  <2>e. edition[Source(w)] \in 0..MaxEdition /\ edition[Source(w)] \in 1..edition[Source(w)]
    BY <2>3, Bounds
  <2> DEFINE r == [run[w] EXCEPT !.edition = edition[Source(w)], !.got = got, !.todo = got]
  <2>4. r \in Locals /\ r.job = run[w].job /\ r.edition = edition[Source(w)] /\ r.todo = got
    BY <2>3, <2>e, <1>t DEF Locals
  <2>5. run' = [run EXCEPT ![w] = r]
    BY <2>1, <1>t
  <2>6. r.key = "none"
    BY <2>2, <1>t DEF Locals, LocalsFit
  <2> HIDE DEF r
  <2>7. /\ pc' \in [Workers -> Places] /\ run' \in [Workers -> Locals]
        /\ pc'[w] = "upsert" /\ run'[w] = r
        /\ \A x \in Workers : x # w => LocalsFit(x)'
    BY <2>2, <2>4, <2>5, OneMoves DEF Places, Inside, InTry
  <2>s. Source(w)' = Source(w)
    BY <2>4, <2>7 DEF Source
  <2>8. LocalsFit(w)'
    BY <2>1, <2>2, <2>3, <2>e, <2>4, <2>6, <2>7, <2>s DEF LocalsFit
  <2> QED
    BY <2>2, <2>7, <2>8, <1>t DEF TypeOK, Places
<1>4. ASSUME NEW w \in Workers, Raise(w) PROVE TypeOK'
  <2>1. /\ pc[w] \in {"fetch", "upsert"} /\ pc' = [pc EXCEPT ![w] = "except"]
        /\ run' = [run EXCEPT ![w] = [NoRun EXCEPT !.job = run[w].job]]
        /\ UNCHANGED <<registry, active, state, edition, store, inserted, kills>>
    BY <1>4 DEF Raise, Forget, Goto
  <2>2. pc' \in [Workers -> Places] /\ run' \in [Workers -> Locals] /\ \A x \in Workers : LocalsFit(x)'
    BY <2>1, Forgotten, MovesOn DEF Places, Inside
  <2> QED
    BY <2>1, <2>2, <1>t DEF TypeOK, Places
<1>5. ASSUME NEW w \in Workers, NEW k \in run[w].todo, TestKey(w, k) PROVE TypeOK'
  <2>1. /\ pc[w] = "upsert" /\ pc' = [pc EXCEPT ![w] = "write"]
        /\ run' = [run EXCEPT ![w] = [run[w] EXCEPT !.key = k]]
        /\ UNCHANGED <<registry, active, state, edition, store, kills>>
    BY <1>5, <1>t DEF TestKey, Goto
  <2>2. k \in Keys
    BY <1>t DEF Locals
  <2>3. inserted' \in [Keys -> Nat]
    <3>1. inserted[k] \in Nat /\ inserted[k] + 1 \in Nat
      BY <2>2, <1>t
    <3>2. inserted' = [inserted EXCEPT ![k] = IF store[k] = Absent THEN inserted[k] + 1 ELSE inserted[k]]
      BY <1>5 DEF TestKey
    <3> QED
      BY <3>1, <3>2, <1>t
  <2> DEFINE r == [run[w] EXCEPT !.key = k]
  <2>4. r \in Locals /\ r.job = run[w].job /\ r.edition = run[w].edition /\ r.todo = run[w].todo /\ r.key = k
    BY <2>2, <1>t DEF Locals
  <2>5. run' = [run EXCEPT ![w] = r]
    BY <2>1
  <2> HIDE DEF r
  <2>6. /\ pc' \in [Workers -> Places] /\ run' \in [Workers -> Locals]
        /\ pc'[w] = "write" /\ run'[w] = r
        /\ \A x \in Workers : x # w => LocalsFit(x)'
    BY <2>1, <2>4, <2>5, OneMoves DEF Places, Inside, InTry
  <2>7. LocalsFit(w)'
    <3>1. /\ run[w].job \in Jobs /\ k \in run[w].todo
          /\ run[w].edition \in 1..edition[Source(w)] /\ run[w].todo \subseteq Offer[Source(w)]
      BY <1>5, <2>1, <1>t DEF LocalsFit
    <3>2. Source(w)' = Source(w) /\ edition' = edition
      BY <2>1, <2>4, <2>6 DEF Source
    <3> QED
      BY <2>4, <2>6, <3>1, <3>2 DEF LocalsFit
  <2> QED
    BY <2>1, <2>3, <2>6, <2>7, <1>t DEF TypeOK, Places
<1>6. ASSUME NEW w \in Workers, WriteKey(w) PROVE TypeOK'
  <2> DEFINE r == [run[w] EXCEPT !.todo = run[w].todo \ {run[w].key}, !.key = "none"]
  <2>r. run' = [run EXCEPT ![w] = r]
    BY <1>6, <1>t DEF WriteKey, Locals
  <2>1. /\ pc[w] = "write" /\ pc' = [pc EXCEPT ![w] = "upsert"]
        /\ store' = [store EXCEPT ![run[w].key] = run[w].edition]
        /\ UNCHANGED <<registry, active, state, edition, inserted, kills>>
    BY <1>6 DEF WriteKey, Goto
  <2>2. run[w].edition \in 0..MaxEdition
    BY <1>t DEF Locals
  <2>3. store' \in [Keys -> 0..MaxEdition]
    BY <2>1, <2>2, <1>t
  <2>4. /\ r \in Locals /\ r.job = run[w].job /\ r.edition = run[w].edition
        /\ r.todo \subseteq run[w].todo /\ r.key = "none"
    BY <1>t DEF Locals
  <2> HIDE DEF r
  <2>6. /\ pc' \in [Workers -> Places] /\ run' \in [Workers -> Locals]
        /\ pc'[w] = "upsert" /\ run'[w] = r
        /\ \A x \in Workers : x # w => LocalsFit(x)'
    BY <2>r, <2>1, <2>4, OneMoves DEF Places, Inside, InTry
  <2>7. LocalsFit(w)'
    BY <2>1, <2>4, <2>6, <1>t DEF LocalsFit, Source
  <2> QED
    BY <2>1, <2>3, <2>6, <2>7, <1>t DEF TypeOK, Places
<1>7. ASSUME NEW w \in Workers, Upserted(w) PROVE TypeOK'
  <2> DEFINE r == [run[w] EXCEPT !.edition = Absent]
  <2>1. /\ pc[w] = "upsert" /\ pc' = [pc EXCEPT ![w] = "succeed"]
        /\ run' = [run EXCEPT ![w] = r]
        /\ UNCHANGED <<registry, active, state, edition, store, inserted, kills>>
    BY <1>7, <1>t DEF Upserted, Goto
  <2>2. r \in Locals /\ r.job \in Jobs /\ r.key = "none"
    <3>1. Absent \in 0..MaxEdition
      BY Bounds DEF Absent
    <3>2. run[w].job \in Jobs /\ run[w].key = "none"
      BY <2>1, <1>t DEF LocalsFit
    <3> QED
      BY <3>1, <3>2, <1>t DEF Locals
  <2> HIDE DEF r
  <2>3. pc' \in [Workers -> Places] /\ run' \in [Workers -> Locals] /\ \A x \in Workers : LocalsFit(x)'
    BY <2>1, <2>2, MovesOn DEF Places, Inside, InTry
  <2> QED
    BY <2>1, <2>3, <1>t DEF TypeOK, Places
<1>8. ASSUME NEW s \in Sources, Publish(s) PROVE TypeOK'
  <2>1. /\ edition[s] < MaxEdition /\ edition' = [edition EXCEPT ![s] = edition[s] + 1]
        /\ UNCHANGED <<registry, active, state, store, pc, run, inserted, kills>>
    BY <1>8 DEF Publish
  <2>2. edition' \in [Sources -> 1..MaxEdition]
    BY <2>1, <1>t, Bounds
  <2>3. \A t \in Sources : edition[t] \in Nat /\ edition'[t] \in Nat /\ edition[t] <= edition'[t]
    BY <2>1, <1>t, Bounds
  <2>4. ASSUME NEW w \in Workers PROVE LocalsFit(w)'
    <3>1. pc[w] # "idle" => Source(w) \in Sources
      BY <1>t, Constants DEF LocalsFit, Source
    <3>2. run[w].edition \in Nat
      BY <1>t, Bounds DEF Locals
    <3>3. Source(w)' = Source(w) /\ LocalsFit(w)
      BY <2>1, <1>t DEF Source
    <3>4. Source(w) \in Sources /\ run[w].edition \in 1..edition[Source(w)] =>
            run[w].edition \in 1..edition'[Source(w)]
      BY <2>3, <3>2
    <3> QED
      BY <2>1, <3>1, <3>3, <3>4 DEF LocalsFit
  <2> QED
    BY <2>1, <2>2, <2>4, <1>t DEF TypeOK, Places
<1>9. ASSUME NEW w \in Workers, Kill(w) PROVE TypeOK'
  <2>1. /\ pc[w] # "idle" /\ pc' = [pc EXCEPT ![w] = "release"]
        /\ run' = [run EXCEPT ![w] = [NoRun EXCEPT !.job = run[w].job]]
        /\ kills < MaxKills /\ kills' = kills + 1
        /\ UNCHANGED <<registry, active, state, edition, store, inserted>>
    BY <1>9 DEF Kill, Forget, Goto, InTry
  <2>2. pc' \in [Workers -> Places] /\ run' \in [Workers -> Locals] /\ \A x \in Workers : LocalsFit(x)'
    BY <2>1, Forgotten, MovesOn DEF Places, Inside
  <2>3. kills' \in 0..MaxKills
    BY <2>1, <1>t, Bounds
  <2> QED
    BY <2>1, <2>2, <2>3, <1>t DEF TypeOK, Places
<1>10. ASSUME NEW w \in Workers, Release(w) PROVE TypeOK'
  <2>1. /\ pc' = [pc EXCEPT ![w] = "idle"] /\ run' = [run EXCEPT ![w] = NoRun]
        /\ active' = active \ {Source(w)}
        /\ UNCHANGED <<registry, state, edition, store, inserted, kills>>
    BY <1>10 DEF Release, Goto
  <2>2. NoRun \in Locals /\ NoRun.key = "none"
    BY Bounds DEF NoRun, Locals, Absent
  <2>3. pc' \in [Workers -> Places] /\ run' \in [Workers -> Locals] /\ \A x \in Workers : LocalsFit(x)'
    BY <2>1, <2>2, MovesOn DEF Places
  <2> QED
    BY <2>1, <2>3, <1>t DEF TypeOK, Places
<1>11. ASSUME NEW w \in Workers, Start(w) PROVE TypeOK'
  BY <1>11, TestTransitionTypes, SetStateTypes DEF Start, Places, Inside, InTry, JobState
<1>12. ASSUME NEW w \in Workers, Succeed(w) PROVE TypeOK'
  <2>1. ASSUME NEW at \in {"succeeding", "except"}, pc[w] = "succeed", Goto(w, at),
               UNCHANGED <<registry, active, state, edition, store, run, inserted, kills>>
        PROVE  TypeOK'
    BY <2>1, <1>t, GoesOn DEF Goto, TypeOK, Places, Inside, InTry
  <2> QED
    BY <1>12, <2>1, SetStateTypes DEF Succeed, Places, Inside, InTry, JobState
<1>13. ASSUME NEW w \in Workers, Except(w) PROVE TypeOK'
  <2>1. ASSUME NEW at \in {"fail", "release"}, pc[w] = "except", Goto(w, at),
               UNCHANGED <<registry, active, state, edition, store, run, inserted, kills>>
        PROVE  TypeOK'
    BY <2>1, <1>t, GoesOn DEF Goto, TypeOK, Places, Inside
  <2> QED
    BY <1>13, <2>1, TestTransitionTypes, SetStateTypes DEF Except, Places, Inside, InTry, JobState
<1>14. CASE UNCHANGED vars
  BY <1>14, <1>t DEF vars, LocalsFit, Source, TypeOK, Places
<1> QED
  BY <1>1, <1>2, <1>3, <1>4, <1>5, <1>6, <1>7, <1>8, <1>9, <1>10, <1>11, <1>12, <1>13, <1>14 DEF Next, Work

-----------------------------------------------------------------------------
(* The registry.                                                           *)

\* What a step of a call does to the call's place and job and to the registry:
\* it stays inside, or it is the release.
LEMMA WorkMoves ==
  ASSUME TypeOK, registry = "database", NEW w \in Workers, Work(w) \/ Kill(w)
  PROVE  /\ registry' = registry /\ pc[w] \in Inside
         /\ \A x \in Workers : x # w => pc'[x] = pc[x] /\ run'[x] = run[x]
         /\ \/ pc'[w] \in Inside /\ run'[w].job = run[w].job /\ active' = active
            \/ pc[w] = "release" /\ pc'[w] = "idle" /\ active' = active \ {Source(w)}
<1>t. /\ pc \in [Workers -> Places] /\ run \in [Workers -> Locals]
      /\ pc[w] # "add"
  BY DEF TypeOK, LocalsFit, Places
<1>f. [NoRun EXCEPT !.job = run[w].job].job = run[w].job
  BY DEF NoRun
<1>1. CASE Start(w)
  BY <1>1, <1>t, <1>f DEF Start, TestTransition, SetState, Goto, Forget, Places, Inside, InTry
<1>2. CASE Succeed(w)
  BY <1>2, <1>t, <1>f DEF Succeed, TestTransition, SetState, Goto, Forget, Places, Inside, InTry
<1>3. CASE Except(w)
  BY <1>3, <1>t, <1>f DEF Except, TestTransition, SetState, Goto, Forget, Places, Inside, InTry
<1>4. CASE Raise(w) \/ Kill(w)
  BY <1>4, <1>t, <1>f DEF Raise, Kill, Goto, Forget, Places, Inside, InTry
<1>5. CASE Fetch(w)
  BY <1>5, <1>t DEF Fetch, Goto, Places, Inside, InTry, Locals
<1>6. ASSUME NEW k \in run[w].todo, TestKey(w, k)
      PROVE  /\ registry' = registry /\ pc[w] \in Inside
             /\ \A x \in Workers : x # w => pc'[x] = pc[x] /\ run'[x] = run[x]
             /\ pc'[w] \in Inside /\ run'[w].job = run[w].job /\ active' = active
  BY <1>6, <1>t DEF TestKey, Goto, Places, Inside, InTry, Locals
<1>7. CASE WriteKey(w)
  BY <1>7, <1>t DEF WriteKey, Goto, Places, Inside, InTry, Locals
<1>8. CASE Upserted(w)
  BY <1>8, <1>t DEF Upserted, Goto, Places, Inside, InTry, Locals
<1>9. CASE Release(w)
  BY <1>9, <1>t DEF Release, Goto, Places, Inside, InTry
<1>10. CASE AddToRegistry(w)
  BY <1>10, <1>t DEF AddToRegistry
<1> QED
  BY <1>1, <1>2, <1>3, <1>4, <1>5, <1>6, <1>7, <1>8, <1>9, <1>10 DEF Work

\* What a call that is not refused does to them.
LEMMA CallMoves ==
  ASSUME TypeOK, registry = "database", NEW w \in Workers, NEW j \in Jobs, Call(w, j),
         ~(UNCHANGED vars)
  PROVE  /\ AcquireInDatabase(w, j)
         /\ pc[w] = "idle" /\ pc'[w] = "start" /\ run'[w].job = j
         /\ SourceOf[j] \notin active /\ active' = active \cup {SourceOf[j]}
         /\ \A x \in Workers : x # w => pc'[x] = pc[x] /\ run'[x] = run[x]
<1>1. AcquireInDatabase(w, j)
  BY DEF Call, Refused, TestRegistry
<1>2. pc \in [Workers -> Places] /\ run \in [Workers -> Locals]
  BY DEF TypeOK, Places
<1> QED
  BY <1>1, <1>2 DEF AcquireInDatabase, Enter, Goto, Locals

\* The registry is never swapped.
LEMMA SameRegistry == TypeOK /\ [Next]_vars => registry' = registry
<1> SUFFICES ASSUME TypeOK, [Next]_vars PROVE registry' = registry
  OBVIOUS
<1>1. ASSUME NEW w \in Workers, Work(w) PROVE registry' = registry
  BY <1>1 DEF Work, AddToRegistry, Start, Succeed, Except, TestTransition, SetState, Fetch, Raise,
    TestKey, WriteKey, Upserted, Release
<1> QED
  BY <1>1 DEF Next, vars, Call, Refused, TestRegistry, AcquireInDatabase, Publish, Kill

\* The steps of a system whose registry tests and adds at once.
LEMMA Steps ==
  ASSUME TypeOK, [Next]_vars, registry = "database"
  PROVE  \/ UNCHANGED vars
         \/ \E s \in Sources : Publish(s)
         \/ \E w \in Workers, j \in Jobs : Call(w, j) /\ ~(UNCHANGED vars)
         \/ \E w \in Workers : Work(w) \/ Kill(w)
<1>1. registry \in Registries
  BY DEF TypeOK
<1> QED
  BY <1>1, Constants DEF Next

\* Two workers are never in one source's collection.
LEMMA LockStep == TypeOK /\ OneRunPerSource /\ [Next]_vars => OneRunPerSource'
<1> SUFFICES ASSUME TypeOK, OneRunPerSource, [Next]_vars, registry' = "database"
             PROVE  OneRunPerSource'
  BY DEF OneRunPerSource
<1>d. registry = "database"
  BY SameRegistry
<1>i. /\ active = {Source(w) : w \in {x \in Workers : pc[x] \in Inside}}
      /\ \A w, x \in Workers :
           pc[w] \in Inside /\ pc[x] \in Inside /\ Source(w) = Source(x) => w = x
  BY <1>d DEF OneRunPerSource
<1>n. "idle" \notin Inside /\ "start" \in Inside /\ "release" \in Inside
  BY DEF Inside, InTry
<1>1. CASE UNCHANGED vars \/ \E s \in Sources : Publish(s)
  <2>1. UNCHANGED <<pc, run, active, registry>>
    BY <1>1 DEF vars, Publish
  <2> QED
    BY <2>1, <1>i, <1>d DEF OneRunPerSource, Source
<1>2. ASSUME NEW w \in Workers, NEW j \in Jobs, Call(w, j), ~(UNCHANGED vars)
      PROVE  OneRunPerSource'
  <2>1. /\ pc[w] = "idle" /\ pc'[w] = "start" /\ Source(w)' = SourceOf[j]
        /\ SourceOf[j] \notin active /\ active' = active \cup {SourceOf[j]}
        /\ \A x \in Workers : x # w => pc'[x] = pc[x] /\ Source(x)' = Source(x)
    BY <1>2, <1>d, CallMoves DEF Source
  <2> QED
    BY <2>1, <1>i, <1>n DEF OneRunPerSource
<1>3. ASSUME NEW w \in Workers, Work(w) \/ Kill(w) PROVE OneRunPerSource'
  <2>1. /\ pc[w] \in Inside
        /\ \A x \in Workers : x # w => pc'[x] = pc[x] /\ Source(x)' = Source(x)
        /\ \/ pc'[w] \in Inside /\ Source(w)' = Source(w) /\ active' = active
           \/ pc'[w] = "idle" /\ active' = active \ {Source(w)}
    BY <1>3, <1>d, WorkMoves DEF Source
  <2>2. CASE pc'[w] \in Inside /\ Source(w)' = Source(w) /\ active' = active
    BY <2>1, <2>2, <1>i DEF OneRunPerSource
  <2>3. CASE pc'[w] = "idle" /\ active' = active \ {Source(w)}
    BY <2>1, <2>3, <1>i, <1>n DEF OneRunPerSource
  <2> QED
    BY <2>1, <2>2, <2>3
<1> QED
  BY <1>1, <1>2, <1>3, <1>d, Steps

-----------------------------------------------------------------------------
(* The jobs.                                                               *)

\* A call's step sets no job but its own, only as the table allows, and leaves
\* it in the state its new place implies.
LEMMA WorkSetsJob ==
  ASSUME TypeOK, registry = "database", NEW w \in Workers, Work(w) \/ Kill(w), JobFits(w)
  PROVE  /\ run[w].job \in Jobs
         /\ JobFits(w)'
         /\ \/ state' = state
            \/ /\ state' = [state EXCEPT ![run[w].job] = state'[run[w].job]]
               /\ state'[run[w].job] \in Allowed[state[run[w].job]]
         /\ state'[run[w].job] = "RUNNING" => state[run[w].job] = "RUNNING" \/ pc'[w] \in Inside
<1>t. /\ pc \in [Workers -> Places] /\ run \in [Workers -> Locals] /\ state \in [Jobs -> JobState]
      /\ pc[w] # "add" /\ (pc[w] # "idle" => run[w].job \in Jobs)
  BY DEF TypeOK, LocalsFit, Places
<1>m. /\ pc[w] \in Inside /\ run[w].job \in Jobs
      /\ pc'[w] \in Inside => run'[w].job = run[w].job
  BY <1>t, WorkMoves DEF Inside, InTry
<1>1. CASE Start(w)
  <2>1. CASE TestTransition(w, "start", "RUNNING", "starting", "except")
    <3>1. state' = state /\ run' = run /\ pc'[w] \in {"starting", "except"}
          /\ (pc'[w] = "starting" => "RUNNING" \in Allowed[state[run[w].job]])
      BY <2>1, <1>t DEF TestTransition, Goto
    <3>2. pc'[w] = "starting" => state[run[w].job] # "RUNNING"
      BY <3>1 DEF Allowed
    <3> QED
      BY <3>1, <3>2, <1>m DEF JobFits
  <2>2. CASE SetState(w, "starting", "RUNNING", "fetch")
    <3>1. /\ pc[w] = "starting" /\ pc'[w] = "fetch"
          /\ state' = [state EXCEPT ![run[w].job] = "RUNNING"]
      BY <2>2, <1>t DEF SetState, Goto
    <3>2. state[run[w].job] # "RUNNING" /\ state[run[w].job] \in JobState
      BY <3>1, <1>t, <1>m DEF JobFits
    <3>3. "RUNNING" \in Allowed[state[run[w].job]]
      BY <3>2 DEF Allowed, JobState
    <3> QED
      BY <3>1, <3>3, <1>m, <1>t DEF JobFits, Inside, InTry
  <2> QED
    BY <1>1, <2>1, <2>2 DEF Start
<1>2. ASSUME NEW at \in {"succeeding", "failing"}, NEW to \in {"SUCCEEDED", "FAILED"},
             SetState(w, at, to, "release")
      PROVE  /\ JobFits(w)'
             /\ state' = [state EXCEPT ![run[w].job] = to]
             /\ to \in Allowed[state[run[w].job]]
             /\ state'[run[w].job] = to
  <2>1. /\ pc[w] = at /\ pc'[w] = "release"
        /\ state' = [state EXCEPT ![run[w].job] = to]
    BY <1>2, <1>t DEF SetState, Goto
  <2>2. state[run[w].job] = "RUNNING"
    BY <2>1 DEF JobFits
  <2>3. to \in Allowed[state[run[w].job]]
    BY <2>2 DEF Allowed
  <2>4. run'[w].job = run[w].job /\ state'[run[w].job] = to
    BY <2>1, <1>m, <1>t DEF Inside
  <2> QED
    BY <2>1, <2>3, <2>4 DEF JobFits
<1>3. CASE Succeed(w)
  <2>1. CASE SetState(w, "succeeding", "SUCCEEDED", "release")
    BY <2>1, <1>2, <1>m
  <2>2. CASE ~SetState(w, "succeeding", "SUCCEEDED", "release")
    <3>1. /\ state' = state /\ pc[w] = "succeed" /\ pc'[w] \in {"succeeding", "except"}
          /\ run' = run
      BY <1>3, <2>2, <1>t DEF Succeed, TestTransition, Goto
    <3> QED
      BY <3>1, <1>m DEF JobFits
  <2> QED
    BY <2>1, <2>2
<1>4. CASE Except(w)
  <2>1. CASE SetState(w, "failing", "FAILED", "release")
    BY <2>1, <1>2, <1>m
  <2>2. CASE TestTransition(w, "fail", "FAILED", "failing", "release")
    <3>1. /\ state' = state /\ run' = run /\ pc[w] = "fail" /\ pc'[w] \in {"failing", "release"}
          /\ (pc'[w] = "release" => "FAILED" \notin Allowed[state[run[w].job]])
      BY <2>2, <1>t DEF TestTransition, Goto
    <3>2. state[run[w].job] = "RUNNING"
      BY <3>1 DEF JobFits
    <3>3. pc'[w] = "failing"
      BY <3>1, <3>2 DEF Allowed
    <3> QED
      BY <3>1, <3>2, <3>3, <1>m DEF JobFits
  <2>3. CASE ~SetState(w, "failing", "FAILED", "release")
             /\ ~TestTransition(w, "fail", "FAILED", "failing", "release")
    <3>1. /\ state' = state /\ run' = run
          /\ pc'[w] = IF state[run[w].job] = "RUNNING" THEN "fail" ELSE "release"
      BY <1>4, <2>3, <1>t DEF Except, Goto
    <3> QED
      BY <3>1, <1>m DEF JobFits
  <2> QED
    BY <2>1, <2>2, <2>3
<1>5. CASE Raise(w)
  BY <1>5, <1>m, <1>t DEF Raise, Goto, JobFits, Inside, InTry
<1>6. CASE Kill(w)
  <2>1. kills' # 0
    BY <1>6, Bounds DEF Kill, TypeOK
  <2> QED
    BY <1>6, <2>1, <1>m, <1>t DEF Kill, Goto, JobFits, Inside, InTry
<1>7. ASSUME pc[w] \in {"fetch", "upsert", "write"}, pc'[w] \in {"upsert", "write", "succeed"},
             state' = state
      PROVE  state' = state /\ JobFits(w)'
  BY <1>7, <1>m DEF JobFits, Inside, InTry
<1>8. CASE Fetch(w)
  BY <1>8, <1>7, <1>m, <1>t DEF Fetch, Goto
<1>9. ASSUME NEW k \in run[w].todo, TestKey(w, k) PROVE state' = state /\ JobFits(w)'
  BY <1>9, <1>7, <1>t DEF TestKey, Goto
<1>10. CASE WriteKey(w) \/ Upserted(w)
  BY <1>10, <1>7, <1>m, <1>t DEF WriteKey, Upserted, Goto
<1>11. CASE Release(w)
  BY <1>11, <1>m, <1>t DEF Release, Goto, JobFits
<1>12. CASE AddToRegistry(w)
  BY <1>12, <1>t DEF AddToRegistry
<1> QED
  BY <1>1, <1>3, <1>4, <1>5, <1>6, <1>8, <1>9, <1>10, <1>11, <1>12, <1>m DEF Work

\* Interrupts are not taken back.
LEMMA KillsStay == TypeOK /\ [Next]_vars /\ kills' = 0 => kills = 0
<1> SUFFICES ASSUME TypeOK, [Next]_vars, kills' = 0 PROVE kills = 0
  OBVIOUS
<1>1. ASSUME NEW w \in Workers, Work(w) PROVE kills = 0
  BY <1>1 DEF Work, AddToRegistry, Start, Succeed, Except, TestTransition, SetState, Fetch, Raise,
    TestKey, WriteKey, Upserted, Release
<1>2. ASSUME NEW w \in Workers, Kill(w) PROVE kills = 0
  BY <1>2, Bounds DEF Kill, TypeOK
<1> QED
  BY <1>1, <1>2 DEF Next, vars, Call, Refused, TestRegistry, AcquireInDatabase, Publish

\* Every job in a call is in the state its place implies: no other call sets it,
\* since no other call is in its source's collection.
LEMMA JobStep ==
  TypeOK /\ OneRunPerSource /\ JobByPlace /\ [Next]_vars => JobByPlace'
<1> SUFFICES ASSUME TypeOK, OneRunPerSource, JobByPlace, [Next]_vars, registry' = "database",
                    NEW x \in Workers
             PROVE  JobFits(x)'
  BY DEF JobByPlace
<1>d. registry = "database"
  BY SameRegistry
<1>i. /\ \A w \in Workers : JobFits(w)
      /\ \A w \in Workers : pc[w] \in Inside /\ pc[x] \in Inside /\ Source(w) = Source(x) => w = x
  BY <1>d DEF OneRunPerSource, JobByPlace
<1>k. kills' = 0 => kills = 0
  BY KillsStay
<1>1. CASE UNCHANGED vars \/ \E s \in Sources : Publish(s)
  BY <1>1, <1>i DEF vars, Publish, JobFits
<1>2. ASSUME NEW w \in Workers, NEW j \in Jobs, Call(w, j), ~(UNCHANGED vars)
      PROVE  JobFits(x)'
  <2>1. /\ state' = state /\ pc'[w] = "start"
        /\ x # w => pc'[x] = pc[x] /\ run'[x] = run[x]
    BY <1>2, <1>d, CallMoves DEF AcquireInDatabase
  <2> QED
    BY <2>1, <1>i, <1>k DEF JobFits
<1>3. ASSUME NEW w \in Workers, Work(w) \/ Kill(w) PROVE JobFits(x)'
  <2>1. CASE x = w
    BY <2>1, <1>3, <1>d, <1>i, WorkSetsJob
  <2>2. CASE x # w
    <3>1. pc[w] \in Inside /\ pc'[x] = pc[x] /\ run'[x] = run[x]
      BY <2>2, <1>3, <1>d, WorkMoves
    <3>2. CASE pc[x] \in Inside
      <4>1. run[x].job # run[w].job
        BY <2>2, <3>1, <3>2, <1>i DEF Source
      <4>2. state'[run[x].job] = state[run[x].job]
        <5>1. run[x].job \in Jobs /\ state \in [Jobs -> JobState]
          BY <3>2 DEF TypeOK, LocalsFit, Inside, InTry
        <5> QED
          BY <4>1, <5>1, <1>3, <1>d, <1>i, WorkSetsJob
      <4> QED
        BY <3>1, <4>2, <1>i, <1>k DEF JobFits
    <3>3. CASE pc[x] \notin Inside
      BY <3>1, <3>3 DEF JobFits, Inside, InTry
    <3> QED
      BY <3>2, <3>3
  <2> QED
    BY <2>1, <2>2
<1> QED
  BY <1>1, <1>2, <1>3, <1>d, Steps

\* A running job has its call, as long as nothing was interrupted.
LEMMA HeldStep ==
  TypeOK /\ JobByPlace /\ RunningIsHeld /\ [Next]_vars => RunningIsHeld'
<1> SUFFICES ASSUME TypeOK, JobByPlace, RunningIsHeld, [Next]_vars,
                    registry' = "database", kills' = 0,
                    NEW j \in Jobs, state'[j] = "RUNNING"
             PROVE  \E w \in Workers : Running(w, j)'
  BY DEF RunningIsHeld
<1>d. registry = "database" /\ kills = 0
  BY SameRegistry, KillsStay
<1>h. state[j] = "RUNNING" => \E w \in Workers : Running(w, j)
  BY <1>d DEF RunningIsHeld
<1>1. CASE UNCHANGED vars \/ \E s \in Sources : Publish(s)
  BY <1>1, <1>h DEF vars, Publish, Running
<1>2. ASSUME NEW w \in Workers, NEW i \in Jobs, Call(w, i), ~(UNCHANGED vars)
      PROVE  \E x \in Workers : Running(x, j)'
  <2>1. /\ state' = state /\ pc[w] = "idle"
        /\ \A x \in Workers : x # w => pc'[x] = pc[x] /\ run'[x] = run[x]
    BY <1>2, <1>d, CallMoves DEF AcquireInDatabase
  <2> QED
    BY <2>1, <1>h DEF Running, Inside, InTry
<1>3. ASSUME NEW w \in Workers, Work(w) \/ Kill(w)
      PROVE  \E x \in Workers : Running(x, j)'
  <2>f. JobFits(w) /\ state \in [Jobs -> JobState]
    BY <1>d DEF JobByPlace, TypeOK
  <2>1. /\ pc[w] \in Inside
        /\ \A x \in Workers : x # w => pc'[x] = pc[x] /\ run'[x] = run[x]
        /\ \/ pc'[w] \in Inside /\ run'[w].job = run[w].job
           \/ pc[w] = "release" /\ pc'[w] = "idle"
    BY <1>3, <1>d, WorkMoves
  <2>2. /\ run[w].job \in Jobs
        /\ run[w].job # j => state'[j] = state[j]
        /\ run[w].job = j => state[j] = "RUNNING" \/ pc'[w] \in Inside
    BY <1>3, <1>d, <2>f, WorkSetsJob
  <2>3. CASE run[w].job = j
    <3>1. pc[w] = "release" => state[j] # "RUNNING"
      BY <2>3, <2>f, <1>d DEF JobFits
    <3>2. pc'[w] \in Inside
      BY <2>1, <2>2, <2>3, <3>1
    <3> QED
      BY <2>1, <2>3, <3>2 DEF Running, Inside, InTry
  <2>4. CASE run[w].job # j
    BY <2>1, <2>2, <2>4, <1>h DEF Running
  <2> QED
    BY <2>3, <2>4
<1> QED
  BY <1>1, <1>2, <1>3, <1>d, Steps

\* Every change of a job's state is one the table allows.
LEMMA TableStep ==
  ASSUME TypeOK, JobByPlace, [Next]_vars, registry = "database",
         NEW j \in Jobs, state'[j] # state[j]
  PROVE  state'[j] \in Allowed[state[j]]
<1>1. ASSUME NEW w \in Workers, Work(w) \/ Kill(w) PROVE state'[j] \in Allowed[state[j]]
  <2>1. JobFits(w) /\ state \in [Jobs -> JobState]
    BY DEF JobByPlace, TypeOK
  <2> QED
    BY <1>1, <2>1, WorkSetsJob
<1>2. ASSUME NEW w \in Workers, NEW i \in Jobs, Call(w, i), ~(UNCHANGED vars)
      PROVE  state' = state
  BY <1>2, CallMoves DEF AcquireInDatabase
<1> QED
  BY <1>1, <1>2, Steps DEF vars, Publish

-----------------------------------------------------------------------------
(* The store.                                                              *)

\* What a call's step does to the store and the count: only the two steps of the
\* upsert's loop touch them, and only a fetch and that loop lead to it.
LEMMA WorkStores ==
  ASSUME TypeOK, NEW w \in Workers, Work(w) \/ Kill(w)
  PROVE  /\ edition' = edition
         /\ \A x \in Workers : x # w => pc'[x] = pc[x] /\ run'[x] = run[x]
         /\ \/ WriteKey(w)
            \/ \E k \in run[w].todo : TestKey(w, k)
            \/ /\ store' = store /\ inserted' = inserted
               /\ pc[w] = "write" => kills' # 0
               /\ pc'[w] # "write"
               /\ pc'[w] = "upsert" => Fetch(w)
<1>t. pc \in [Workers -> Places] /\ run \in [Workers -> Locals] /\ kills \in Nat
  BY Bounds DEF TypeOK, Places
<1>1. CASE WriteKey(w)
  BY <1>1, <1>t DEF WriteKey, Goto
<1>2. ASSUME NEW k \in run[w].todo, TestKey(w, k)
      PROVE  edition' = edition /\ \A x \in Workers : x # w => pc'[x] = pc[x] /\ run'[x] = run[x]
  BY <1>2, <1>t DEF TestKey, Goto
<1>3. CASE Start(w) \/ Succeed(w) \/ Except(w)
  BY <1>3, <1>t DEF Start, Succeed, Except, TestTransition, SetState, Goto, Forget
<1>4. CASE Fetch(w) \/ Raise(w) \/ Upserted(w) \/ Release(w) \/ AddToRegistry(w)
  BY <1>4, <1>t DEF Fetch, Raise, Upserted, Release, AddToRegistry, Goto, Forget
<1>5. CASE Kill(w)
  BY <1>5, <1>t DEF Kill, Goto, Forget
<1> QED
  BY <1>1, <1>2, <1>3, <1>4, <1>5 DEF Work

\* The loop's write.
LEMMA Writes ==
  ASSUME TypeOK, NEW w \in Workers, WriteKey(w)
  PROVE  /\ pc[w] = "write" /\ pc'[w] = "upsert"
         /\ run[w].key \in run[w].todo /\ run[w].key \in Keys
         /\ Source(w) \in Sources /\ run[w].key \in Offer[Source(w)]
         /\ run[w].edition \in 1..edition[Source(w)]
         /\ store' = [store EXCEPT ![run[w].key] = run[w].edition]
         /\ store'[run[w].key] = run[w].edition
         /\ inserted' = inserted /\ edition' = edition /\ kills' = kills
         /\ run'[w].edition = run[w].edition /\ run'[w].todo = run[w].todo \ {run[w].key}
<1>1. /\ pc \in [Workers -> Places] /\ run \in [Workers -> Locals]
      /\ store \in [Keys -> 0..MaxEdition] /\ LocalsFit(w)
  BY DEF TypeOK, Places
<1>2. /\ pc[w] = "write" /\ run[w].key \in run[w].todo /\ run[w].todo \subseteq Offer[Source(w)]
      /\ run[w].job \in Jobs /\ run[w].edition \in 1..edition[Source(w)]
  BY <1>1 DEF WriteKey, LocalsFit
<1>3. Source(w) \in Sources /\ run[w].key \in Keys
  BY <1>1, <1>2, Constants DEF Source, Locals
<1>4. /\ store' = [store EXCEPT ![run[w].key] = run[w].edition]
      /\ inserted' = inserted /\ edition' = edition /\ kills' = kills
      /\ pc' = [pc EXCEPT ![w] = "upsert"]
      /\ run' = [run EXCEPT ![w] = [run[w] EXCEPT !.todo = run[w].todo \ {run[w].key}, !.key = "none"]]
  BY DEF WriteKey, Goto
<1>5. run'[w].edition = run[w].edition /\ run'[w].todo = run[w].todo \ {run[w].key}
  BY <1>1, <1>4 DEF Locals
<1> QED
  BY <1>1, <1>2, <1>3, <1>4, <1>5

\* A call, refused or not, leaves the store as it is and is not in the upsert.
LEMMA CallStores ==
  ASSUME TypeOK, NEW w \in Workers, NEW j \in Jobs, Call(w, j)
  PROVE  /\ UNCHANGED <<store, inserted, edition, kills>>
         /\ pc'[w] \in {"idle", "add", "start"} /\ pc[w] = "idle"
         /\ \A x \in Workers : x # w => pc'[x] = pc[x] /\ run'[x] = run[x]
<1>1. pc \in [Workers -> Places] /\ run \in [Workers -> Locals]
  BY DEF TypeOK, Places
<1> QED
  BY <1>1 DEF Call, Refused, TestRegistry, AcquireInDatabase, Enter, Goto, vars

\* Whoever still has a record to store has it in an edition no older than the
\* stored one: nobody else is storing records of that source.
LEMMA NewerStep ==
  TypeOK /\ OneRunPerSource /\ NothingNewer /\ [Next]_vars => NothingNewer'
<1> SUFFICES ASSUME TypeOK, OneRunPerSource, NothingNewer, [Next]_vars, registry' = "database",
                    NEW k \in Keys, \A s, t \in Sources : k \in Offer[s] /\ k \in Offer[t] => s = t
             PROVE  /\ \A s \in Sources : k \in Offer[s] => store'[k] <= edition'[s]
                    /\ \A w \in Workers :
                         pc'[w] \in {"upsert", "write"} /\ k \in run'[w].todo =>
                           store'[k] <= run'[w].edition
  BY DEF NothingNewer, Exclusive
<1>d. registry = "database"
  BY SameRegistry
<1>t. /\ store[k] \in Nat /\ \A s \in Sources : edition[s] \in Nat
      /\ pc \in [Workers -> Places] /\ run \in [Workers -> Locals]
  <2>1. store[k] \in 0..MaxEdition /\ \A s \in Sources : edition[s] \in 1..MaxEdition
    BY DEF TypeOK
  <2> QED
    BY <2>1, Bounds DEF TypeOK, Places
<1>n. /\ \A s \in Sources : k \in Offer[s] => store[k] <= edition[s]
      /\ \A w \in Workers :
           pc[w] \in {"upsert", "write"} /\ k \in run[w].todo => store[k] <= run[w].edition
  BY <1>d DEF NothingNewer, Exclusive
<1>1. CASE UNCHANGED vars
  BY <1>1, <1>n DEF vars
<1>2. ASSUME NEW t \in Sources, Publish(t)
      PROVE  /\ \A s \in Sources : k \in Offer[s] => store'[k] <= edition'[s]
             /\ UNCHANGED <<store, pc, run>>
  <2>1. edition' = [edition EXCEPT ![t] = edition[t] + 1] /\ UNCHANGED <<store, pc, run>>
    BY <1>2 DEF Publish
  <2>2. edition \in [Sources -> 1..MaxEdition]
    BY DEF TypeOK
  <2>3. \A s \in Sources : edition'[s] \in Nat /\ edition[s] <= edition'[s]
    BY <1>t, <2>1, <2>2
  <2> QED
    BY <2>1, <2>3, <1>n, <1>t
<1>3. ASSUME NEW w \in Workers, NEW j \in Jobs, Call(w, j)
      PROVE  /\ UNCHANGED <<store, edition>>
             /\ \A x \in Workers :
                  pc'[x] \in {"upsert", "write"} => pc'[x] = pc[x] /\ run'[x] = run[x]
  BY <1>3, CallStores
<1>4. ASSUME NEW w \in Workers, WriteKey(w)
      PROVE  /\ \A s \in Sources : k \in Offer[s] => store'[k] <= edition'[s]
             /\ \A x \in Workers : pc'[x] \in {"upsert", "write"} /\ k \in run'[x].todo =>
                  store'[k] <= run'[x].edition
  <2>0. \A x \in Workers : x # w => pc'[x] = pc[x] /\ run'[x] = run[x]
    BY <1>4, <1>t DEF WriteKey, Goto
  <2>1. CASE run[w].key = k
    <3>1. \A s \in Sources : k \in Offer[s] => s = Source(w)
      BY <1>4, <2>1, Writes
    <3>2. store'[k] <= edition[Source(w)] /\ edition' = edition
      BY <1>4, <2>1, <1>t, Writes
    <3>3. k \notin run'[w].todo
      BY <1>4, <2>1, Writes
    <3>4. ASSUME NEW x \in Workers, x # w, pc[x] \in {"upsert", "write"} PROVE k \notin run[x].todo
      <4>1. Source(x) \in Sources /\ run[x].todo \subseteq Offer[Source(x)]
        BY <3>4, Constants DEF TypeOK, LocalsFit, Source
      <4>2. Source(x) # Source(w)
        BY <1>d, <1>4, <3>4, Writes DEF OneRunPerSource, Inside, InTry
      <4> QED
        BY <3>1, <4>1, <4>2
    <3> QED
      BY <2>0, <3>1, <3>2, <3>3, <3>4
  <2>2. CASE run[w].key # k
    <3>1. store'[k] = store[k] /\ edition' = edition
      BY <1>4, <2>2, Writes DEF TypeOK
    <3>2. k \in run'[w].todo => k \in run[w].todo /\ run'[w].edition = run[w].edition /\ pc[w] = "write"
      BY <1>4, Writes
    <3> QED
      BY <2>0, <3>1, <3>2, <1>n
  <2> QED
    BY <2>1, <2>2
<1>5. ASSUME NEW w \in Workers, NEW i \in run[w].todo, TestKey(w, i)
      PROVE  /\ UNCHANGED <<store, edition>>
             /\ \A x \in Workers :
                  pc'[x] \in {"upsert", "write"} =>
                    /\ pc[x] \in {"upsert", "write"}
                    /\ run'[x].todo = run[x].todo /\ run'[x].edition = run[x].edition
  BY <1>5, <1>t DEF TestKey, Goto, Locals
<1>6. ASSUME NEW w \in Workers, Fetch(w)
      PROVE  /\ UNCHANGED <<store, edition>>
             /\ \A x \in Workers : x # w => pc'[x] = pc[x] /\ run'[x] = run[x]
             /\ k \in run'[w].todo => store[k] <= run'[w].edition
  <2>1. PICK got \in SUBSET Offer[Source(w)] :
          run' = [run EXCEPT ![w] = [@ EXCEPT !.edition = edition[Source(w)], !.got = got, !.todo = got]]
    BY <1>6 DEF Fetch
  <2>2. run'[w].todo = got /\ run'[w].edition = edition[Source(w)]
    BY <2>1, <1>t DEF Locals
  <2>3. Source(w) \in Sources
    BY <1>6, Constants DEF Fetch, TypeOK, LocalsFit, Source
  <2>4. /\ UNCHANGED <<store, edition>>
        /\ \A x \in Workers : x # w => pc'[x] = pc[x] /\ run'[x] = run[x]
    BY <1>6, <1>t DEF Fetch, Goto
  <2> QED
    BY <2>2, <2>3, <2>4, <1>n
<1>7. ASSUME NEW w \in Workers, Work(w) \/ Kill(w)
      PROVE  /\ \A s \in Sources : k \in Offer[s] => store'[k] <= edition'[s]
             /\ \A x \in Workers : pc'[x] \in {"upsert", "write"} /\ k \in run'[x].todo =>
                  store'[k] <= run'[x].edition
  <2>1. CASE \E i \in run[w].todo : TestKey(w, i)
    BY <2>1, <1>5, <1>n
  <2>2. CASE Fetch(w)
    BY <2>2, <1>6, <1>n
  <2>3. CASE ~WriteKey(w) /\ ~Fetch(w) /\ ~\E i \in run[w].todo : TestKey(w, i)
    BY <2>3, <1>7, <1>n, WorkStores
  <2> QED
    BY <2>1, <2>2, <2>3, <1>4
<1> QED
  BY <1>1, <1>2, <1>3, <1>7, <1>n, <1>d, Steps

\* A record is counted when it is first seen missing, and its write follows before
\* anyone else of its source can look: it is counted once.
LEMMA CountStep ==
  /\ TypeOK /\ OneRunPerSource /\ CountedThenStored /\ InsertsCountedOnce /\ [Next]_vars
  => CountedThenStored' /\ InsertsCountedOnce'
<1> SUFFICES ASSUME TypeOK, OneRunPerSource, CountedThenStored, InsertsCountedOnce, [Next]_vars,
                    NEW k \in Keys
             PROVE  /\ \A w \in Workers : pc'[w] = "write" /\ run'[w].key = k => inserted'[k] >= 1
                    /\ registry' = "database" /\ kills' = 0 /\ Exclusive(k) =>
                         /\ inserted'[k] <= 1
                         /\ inserted'[k] >= 1 =>
                              store'[k] # Absent
                                \/ \E w \in Workers : pc'[w] = "write" /\ run'[w].key = k
                    /\ store'[k] # Absent => inserted'[k] >= 1
  BY DEF CountedThenStored, InsertsCountedOnce, Exclusive
<1>r. registry' = registry /\ (kills' = 0 => kills = 0)
  BY SameRegistry, KillsStay
<1>t. /\ inserted[k] \in Nat /\ store[k] \in Nat
      /\ pc \in [Workers -> Places] /\ run \in [Workers -> Locals]
  <2>1. store[k] \in 0..MaxEdition /\ inserted[k] \in Nat
    BY DEF TypeOK
  <2> QED
    BY <2>1, Bounds DEF TypeOK, Places
<1> DEFINE Once == registry = "database" /\ kills = 0 /\ Exclusive(k)
           Writing(w) == pc[w] = "write" /\ run[w].key = k
<1>i. /\ \A w \in Workers : Writing(w) => inserted[k] >= 1
      /\ Once => inserted[k] <= 1
      /\ Once /\ inserted[k] >= 1 => store[k] # Absent \/ \E w \in Workers : Writing(w)
      /\ store[k] # Absent => inserted[k] >= 1
  BY DEF CountedThenStored, InsertsCountedOnce
<1>o. registry' = "database" /\ kills' = 0 /\ Exclusive(k) => Once
  BY <1>r
<1> DEFINE Goal ==
             /\ \A w \in Workers : Writing(w)' => inserted'[k] >= 1
             /\ Once => inserted'[k] <= 1
             /\ Once /\ kills' = 0 /\ inserted'[k] >= 1 =>
                  store'[k] # Absent \/ \E w \in Workers : Writing(w)'
             /\ store'[k] # Absent => inserted'[k] >= 1
<1>1. ASSUME UNCHANGED <<store, inserted>>,
             \A w \in Workers : Writing(w)' => Writing(w),
             kills' = 0 => \A w \in Workers : Writing(w) => Writing(w)'
      PROVE  Goal
  <2> HIDE DEF Once, Writing
  <2> QED
    BY <1>1, <1>i
<1>2. ASSUME UNCHANGED vars \/ \E s \in Sources : Publish(s) PROVE Goal
  <2>1. UNCHANGED <<store, inserted, pc, run>>
    BY <1>2 DEF vars, Publish
  <2> QED
    BY <2>1, <1>1
<1>3. ASSUME NEW w \in Workers, NEW j \in Jobs, Call(w, j) PROVE Goal
  <2>1. /\ UNCHANGED <<store, inserted>>
        /\ pc'[w] # "write" /\ pc[w] # "write"
        /\ \A x \in Workers : x # w => pc'[x] = pc[x] /\ run'[x] = run[x]
    BY <1>3, CallStores
  <2> QED
    BY <2>1, <1>1
<1>4. ASSUME NEW w \in Workers, WriteKey(w) PROVE Goal
  <2>1. /\ pc[w] = "write" /\ pc'[w] = "upsert" /\ inserted' = inserted
        /\ run[w].key \in Keys /\ store' = [store EXCEPT ![run[w].key] = run[w].edition]
        /\ run[w].edition # Absent
    <3>1. Source(w) \in Sources /\ run[w].edition \in 1..edition[Source(w)]
      BY <1>4, Writes
    <3>2. edition[Source(w)] \in Nat
      BY <3>1, Bounds DEF TypeOK
    <3> QED
      BY <1>4, <3>1, <3>2, Writes DEF Absent
  <2>2. \A x \in Workers : x # w => (Writing(x)' <=> Writing(x))
    BY <1>4, <1>t DEF WriteKey, Goto
  <2>3. ~Writing(w)'
    BY <2>1
  <2>4. CASE run[w].key = k
    <3>1. store'[k] # Absent /\ inserted[k] >= 1
      BY <2>1, <2>4, <1>i DEF TypeOK
    <3> QED
      BY <2>1, <2>2, <2>3, <3>1, <1>i
  <2>5. CASE run[w].key # k
    <3>1. store'[k] = store[k] /\ ~Writing(w)
      BY <2>1, <2>5 DEF TypeOK
    <3> HIDE DEF Once, Writing
    <3> QED
      BY <2>1, <2>2, <2>3, <3>1, <1>i
  <2> QED
    BY <2>4, <2>5
<1>5. ASSUME NEW w \in Workers, NEW i \in run[w].todo, TestKey(w, i) PROVE Goal
  <2>1. /\ pc[w] = "upsert" /\ pc'[w] = "write" /\ run'[w].key = i /\ store' = store
        /\ \A x \in Workers : x # w => pc'[x] = pc[x] /\ run'[x] = run[x]
    BY <1>5, <1>t DEF TestKey, Goto, Locals
  <2>2. \A x \in Workers : x # w => (Writing(x)' <=> Writing(x))
    BY <2>1
  <2>3. ~Writing(w) /\ (Writing(w)' <=> i = k)
    BY <2>1
  <2>4. CASE i # k
    <3>1. inserted'[k] = inserted[k]
      BY <1>5, <2>4 DEF TestKey, TypeOK
    <3> HIDE DEF Once, Writing
    <3> QED
      BY <2>1, <2>2, <2>3, <2>4, <3>1, <1>i
  <2>5. CASE i = k
    <3>1. inserted'[k] = IF store[k] = Absent THEN inserted[k] + 1 ELSE inserted[k]
      BY <1>5, <2>5 DEF TestKey, TypeOK
    <3>2. inserted'[k] >= 1
      BY <3>1, <1>t, <1>i
    <3>3. Once /\ store[k] = Absent => inserted[k] = 0
      <4>1. ASSUME Once, store[k] = Absent, NEW x \in Workers, Writing(x) PROVE FALSE
        <5>1. pc[x] = "write" /\ pc[w] = "upsert" /\ k \in run[x].todo /\ k \in run[w].todo
          BY <1>5, <2>1, <2>5, <4>1 DEF TypeOK, LocalsFit
        <5>2. /\ Source(x) \in Sources /\ k \in Offer[Source(x)]
              /\ Source(w) \in Sources /\ k \in Offer[Source(w)]
          BY <5>1, Constants DEF TypeOK, LocalsFit, Source
        <5>3. Source(x) = Source(w)
          BY <4>1, <5>2 DEF Exclusive
        <5>4. x = w
          BY <4>1, <5>1, <5>3 DEF OneRunPerSource, Inside, InTry
        <5> QED
          BY <5>1, <5>4
      <4> QED
        BY <4>1, <1>i, <1>t
    <3>4. Once => inserted'[k] <= 1
      BY <3>1, <3>3, <1>i, <1>t
    <3> HIDE DEF Once, Writing
    <3> QED
      BY <2>3, <2>5, <3>2, <3>4
  <2> QED
    BY <2>4, <2>5
<1>6. ASSUME NEW w \in Workers, Work(w) \/ Kill(w) PROVE Goal
  <2>1. CASE ~WriteKey(w) /\ ~\E i \in run[w].todo : TestKey(w, i)
    <3>1. /\ UNCHANGED <<store, inserted>>
          /\ pc[w] = "write" => kills' # 0
          /\ pc'[w] # "write"
          /\ \A x \in Workers : x # w => pc'[x] = pc[x] /\ run'[x] = run[x]
      BY <1>6, <2>1, WorkStores
    <3> QED
      BY <3>1, <1>1
  <2> QED
    BY <2>1, <1>4, <1>5
<1>7. Goal
  <2> HIDE DEF Goal
  <2>1. \A j \in CalledWith[registry] : j \in Jobs
    BY Constants DEF TypeOK
  <2>2. CASE Next
    BY <2>1, <2>2, <1>2, <1>3, <1>6 DEF Next
  <2> QED
    BY <2>2, <1>2
<1> QED
  <2> HIDE DEF Once
  <2> QED
    BY <1>7, <1>o

\* Within one step, a record that one source has is stored in no older edition.
LEMMA StoreStep ==
  ASSUME TypeOK, NothingNewer, [Next]_vars, registry = "database",
         NEW k \in Keys, Exclusive(k)
  PROVE  store[k] <= store'[k]
<1>t. store[k] \in Nat
  <2>1. store[k] \in 0..MaxEdition
    BY DEF TypeOK
  <2> QED
    BY <2>1, Bounds
<1>1. CASE UNCHANGED store
  BY <1>1, <1>t
<1>2. ASSUME NEW w \in Workers, WriteKey(w) PROVE store[k] <= store'[k]
  <2>1. CASE run[w].key = k
    <3>1. pc[w] = "write" /\ k \in run[w].todo /\ store'[k] = run[w].edition
      BY <1>2, <2>1, Writes
    <3> QED
      BY <3>1 DEF NothingNewer
  <2>2. CASE run[w].key # k
    <3>1. store'[k] = store[k]
      BY <1>2, <2>2, Writes DEF TypeOK
    <3> QED
      BY <3>1, <1>t
  <2> QED
    BY <2>1, <2>2
<1>3. ASSUME NEW w \in Workers, NEW j \in Jobs, Call(w, j) PROVE UNCHANGED store
  BY <1>3, CallStores
<1>4. ASSUME NEW w \in Workers, Work(w) \/ Kill(w), ~WriteKey(w) PROVE UNCHANGED store
  <2>1. ASSUME NEW i \in run[w].todo, TestKey(w, i) PROVE UNCHANGED store
    BY <2>1 DEF TestKey
  <2> QED
    BY <1>4, <2>1, WorkStores
<1> QED
  BY <1>1, <1>2, <1>3, <1>4, Steps DEF Publish, vars

-----------------------------------------------------------------------------
(* The theorems.                                                           *)

\* The inductive invariant: types, the lock, the jobs, the store and the counts
\* hold together at every state of every behaviour, with either registry.
THEOREM CollectionInvariant == Spec => []IInv
<1>1. IInv /\ [Next]_vars => IInv'
  BY TypeStep, LockStep, JobStep, HeldStep, NewerStep, CountStep DEF IInv
<1> QED
  BY <1>1, InitIInv, PTL DEF Spec

\* Every variable keeps its type, and a call's local variables fit its place in
\* RunCollection, the in-memory registry's gap between test and entry included.
THEOREM CollectionTypes == Spec => []TypeOK
<1>1. IInv => TypeOK
  BY DEF IInv
<1> QED
  BY <1>1, CollectionInvariant, PTL

\* COL-002: with a registry that tests and adds at once, no two of any number of
\* workers are in the collection of one source.
THEOREM LockExcludes == Spec => []OneRunPerSource
<1>1. IInv => OneRunPerSource
  BY DEF IInv
<1> QED
  BY <1>1, CollectionInvariant, PTL

\* No call that ends leaves its job RUNNING, unless a run was interrupted: every
\* exception of the try reaches job.fail.
THEOREM RunsEndTheirJobs == Spec => []RunningIsHeld
<1>1. IInv => RunningIsHeld
  BY DEF IInv
<1> QED
  BY <1>1, CollectionInvariant, PTL

\* COL-003: over any number of runs, retries and workers, a record is counted as
\* inserted once, and no record is stored that was not counted.
THEOREM CountedOnce == Spec => []InsertsCountedOnce
<1>1. IInv => InsertsCountedOnce
  BY DEF IInv
<1> QED
  BY <1>1, CollectionInvariant, PTL

\* The jobs' transition table is kept by every step, although _transition tests
\* the state in one step and assigns it in another.
THEOREM TableIsKept == Spec => TableKept
<1>1. IInv /\ [Next]_vars =>
        [registry = "database" =>
           \A j \in Jobs : state'[j] # state[j] => state'[j] \in Allowed[state[j]]]_vars
  BY TableStep DEF IInv
<1> QED
  BY <1>1, CollectionInvariant, PTL DEF Spec, TableKept

\* COL-003: no late answer of a source overwrites a newer one.
THEOREM StoreOnlyGrowsNewer == Spec => StoreNeverGoesBack
<1>1. IInv /\ [Next]_vars =>
        [registry = "database" =>
           \A k \in Keys : Exclusive(k) => store[k] <= store'[k]]_vars
  BY StoreStep DEF IInv
<1> QED
  BY <1>1, CollectionInvariant, PTL DEF Spec, StoreNeverGoesBack
=============================================================================
