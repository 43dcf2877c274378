--------------------------- MODULE ExtractProofs ---------------------------
(***************************************************************************)
(* Proofs about Extract: its safety invariants, and that every step of the *)
(* two commands is a step of Ask or a stutter.                             *)
(***************************************************************************)
EXTENDS Extract, TLAPS

\* What the invariants need besides themselves: where the command is tells
\* what the backend's last answer was.
ReplyFits ==
  /\ place = "asking" /\ calls = 0 => reply = NoReply
  /\ place = "reading" => job \in Asked /\ calls = 0 /\ prompt = NoError /\ reply = NoReply
  /\ place \in {"printing", "writing", "telling"} => reply = Validated
  /\ place \in {"writing", "telling"} => job.save

IInv == TypeOK /\ AsksWithin /\ ExitCodeTells /\ ReplyFits

-----------------------------------------------------------------------------
\* Repairs and attempts of a job are integers, and it is saved or not.
LEMMA JobFields ==
  ASSUME NEW j \in Jobs
  PROVE  /\ j.repair \in Int /\ Attempts(j) \in Int
         /\ j.save \in BOOLEAN /\ j.text \in Texts \cup {NoText} /\ j.tool \in Tools
         /\ j.tool = "extract" => j.save
  <1>1. j \in [tool : Tools, text : Texts \cup {NoText}, repair : Repairs \cup {1}, save : BOOLEAN]
    BY DEF Jobs
  <1>2. j.repair \in Repairs \cup {1}
    BY <1>1
  <1>3. j.repair \in Int
    BY <1>2, RepairsAreInts
  <1>4. j.tool = "extract" => j.save
    BY DEF Jobs
  <1>5. QED
    BY <1>1, <1>3, <1>4 DEF Attempts

\* A job that has read a text is a job, with the same arguments.
LEMMA ReadingIsAJob ==
  ASSUME NEW j \in Jobs, NEW t \in Texts \cup {NoText}
  PROVE  [j EXCEPT !.text = t] \in Jobs /\ Attempts([j EXCEPT !.text = t]) = Attempts(j)
  <1> DEFINE k == [j EXCEPT !.text = t]
  <1>1. j \in [tool : Tools, text : Texts \cup {NoText}, repair : Repairs \cup {1}, save : BOOLEAN]
    BY DEF Jobs
  <1>2. /\ k \in [tool : Tools, text : Texts \cup {NoText}, repair : Repairs \cup {1}, save : BOOLEAN]
        /\ k.tool = j.tool /\ k.repair = j.repair /\ k.save = j.save
    BY <1>1
  <1>3. k \in Jobs
    BY <1>2 DEF Jobs
  <1>4. QED
    BY <1>2, <1>3 DEF Attempts

\* The exit codes are different from one another.
LEMMA CodesApart ==
  NoExit \notin {Killed, 0, 1, 6} /\ Killed \notin {0, 1, 6} /\ 1 # 0 /\ 1 # 6
  BY DEF NoExit, Killed

\* A failed reply is of no other kind.
LEMMA KindsApart ==
  "none" \notin Failures /\ "valid" \notin Failures /\ "broken" \notin Failures
  /\ "no object" \notin Failures
  BY DEF Failures

\* The replies that the actions make are replies.
LEMMA RepliesTyped ==
  /\ NoReply \in Replies /\ NoReply.kind = "none"
  /\ Validated \in Replies /\ Validated.kind = "valid"
  /\ \A p \in Failures \cup {"no object"} :
       Reply(p, NoError) \in Replies /\ Reply(p, NoError).kind = p
  /\ \A e \in Errors : Reply("broken", e) \in Replies /\ Reply("broken", e).kind = "broken"
  BY DEF NoReply, Validated, Reply, Replies

\* What a job leaves in the file is one of the file's contents.
LEMMA DraftsAreFiles ==
  ASSUME NEW j \in Jobs
  PROVE  Draft(j) \in Files /\ Half(j) \in Files
  BY JobFields DEF Draft, Half, Content, Files

\* The invariant holds when nothing has run.
LEMMA InitIInv == Init => IInv
  <1> SUFFICES ASSUME Init PROVE IInv
    OBVIOUS
  <1>1. out \in Files
    BY DEF Init, Absent, Content, Files
  <1>2. TypeOK
    BY <1>1 DEF Init, TypeOK, NoReply, Reply, Replies, Places, Asked
  <1>3. QED
    BY <1>2 DEF Init, IInv, AsksWithin, ExitCodeTells, ReplyFits, NoExit

\* Starting a command keeps the invariant,
LEMMA StartIInv ==
  ASSUME IInv, NEW j \in Asked, Start(j)
  PROVE  IInv'
  <1>1. j \in Jobs /\ j.text = NoText /\ job' = j
    BY DEF Start, Asked
  <1>2. /\ UNCHANGED <<policy, out>> /\ calls' = 0 /\ prompt' = NoError /\ reply' = NoReply
        /\ \/ place' = "ended" /\ exit' = 6
           \/ place' = "reading" /\ exit' = NoExit
    BY DEF Start, Ends
  <1>3. TypeOK'
    BY <1>1, <1>2, CodesApart, RepliesTyped DEF IInv, TypeOK, Places
  <1>4. AsksWithin' /\ ReplyFits'
    BY <1>1, <1>2 DEF AsksWithin, ReplyFits
  <1>5. reply' # Validated
    BY <1>2, RepliesTyped
  <1>6. ASSUME place' = "ended" PROVE exit' = 6
    BY <1>2, <1>6
  <1>7. ExitCodeTells'
    BY <1>1, <1>5, <1>6, CodesApart DEF ExitCodeTells
  <1>8. QED
    BY <1>3, <1>4, <1>7 DEF IInv

\* and so does its reading of the document.
LEMMA ReadIInv ==
  ASSUME IInv, Read
  PROVE  IInv'
  <1>1. /\ place = "reading" /\ job \in Jobs /\ policy \in Texts \cup {NoText}
        /\ job' = [job EXCEPT !.text = policy] /\ UNCHANGED <<policy, out, prompt, calls, reply>>
        /\ reply = NoReply
    BY DEF Read, IInv, TypeOK, ReplyFits
  <1>2. /\ job' \in Jobs /\ Attempts(job) \in Int /\ Attempts(job') = Attempts(job)
        /\ job'.text = policy
    <2>1. job' \in Jobs /\ Attempts(job') = Attempts(job) /\ Attempts(job) \in Int
      BY <1>1, ReadingIsAJob, JobFields
    <2>2. job \in [tool : Tools, text : Texts \cup {NoText}, repair : Repairs \cup {1}, save : BOOLEAN]
      BY <1>1 DEF Jobs
    <2>3. QED
      BY <1>1, <2>1, <2>2
  <1>3. \/ place' = "ended" /\ exit' = 1 /\ policy = NoText
        \/ place' = "ended" /\ exit' = 6 /\ Attempts(job) <= 0
        \/ place' = "asking" /\ exit' = exit /\ policy # NoText /\ ~(Attempts(job) <= 0)
    BY DEF Read, Ends, Goes
  <1>4. TypeOK'
    BY <1>1, <1>2, <1>3, CodesApart DEF IInv, TypeOK, Places
  <1>5. calls = 0 /\ prompt = NoError
    BY <1>1 DEF IInv, ReplyFits
  <1>6. AsksWithin' /\ ReplyFits'
    BY <1>1, <1>2, <1>3, <1>5 DEF AsksWithin, ReplyFits
  <1>7. reply' = NoReply /\ reply'.kind = "none" /\ reply' # Validated
    BY <1>1, RepliesTyped
  <1>8. ASSUME place' = "ended" PROVE (exit' = 1 /\ job'.text = NoText) \/ (exit' = 6 /\ Attempts(job') <= 0)
    BY <1>2, <1>3, <1>8
  <1>9. exit' = 1 => exit' # 0 /\ exit' # 6
    OBVIOUS
  <1>10. exit' = 6 => exit' # 0 /\ exit' # 1
    OBVIOUS
  <1>11. ExitCodeTells'
    BY <1>7, <1>8, <1>9, <1>10 DEF ExitCodeTells
  <1>12. QED
    BY <1>4, <1>6, <1>11 DEF IInv

\* A call that is the command's last.
LEMMA LastCallIInv ==
  ASSUME IInv, NEW r \in Replies, Called(r), prompt' \in Errors \cup {NoError},
         place' = "ended", exit' \in {0, 1, 6}, ExitCodeTells'
  PROVE  IInv'
  <1>1. job \in Jobs /\ calls \in Nat /\ Attempts(job) \in Int /\ Attempts(job') = Attempts(job)
    BY JobFields DEF IInv, TypeOK, Called, Attempts
  <1>2. UNCHANGED <<policy, out, job>> /\ reply' = r /\ place = "asking"
    BY DEF Called
  <1>3. calls' = calls + 1
    BY DEF Called
  <1>4. calls' \in Nat
    BY <1>1, <1>3
  <1>5. TypeOK'
    BY <1>2, <1>4, CodesApart DEF IInv, TypeOK, Places
  <1>6. calls < Attempts(job)
    BY <1>2 DEF IInv, AsksWithin
  <1>7. calls' <= Attempts(job')
    BY <1>1, <1>3, <1>6
  <1>8. AsksWithin' /\ ReplyFits'
    BY <1>7 DEF AsksWithin, ReplyFits
  <1>9. QED
    BY <1>5, <1>8 DEF IInv

\* So does the reply that is accepted,
LEMMA AcceptIInv ==
  ASSUME IInv, Accept
  PROVE  IInv'
  <1>1. /\ job \in Jobs /\ calls \in Nat /\ Attempts(job) \in Int /\ Attempts(job') = Attempts(job)
        /\ job.tool = "extract" => job.save
    BY JobFields DEF IInv, TypeOK, Accept, Called, Attempts
  <1>2. /\ UNCHANGED <<policy, out, job, prompt, exit>> /\ calls' = calls + 1
        /\ reply' = Validated /\ place = "asking"
        /\ \/ place' = "writing" /\ job.tool = "extract"
           \/ place' = "printing"
    BY DEF Accept, Called, Goes
  <1>3. calls' \in Nat
    BY <1>1, <1>2
  <1>4. TypeOK'
    BY <1>2, <1>3, RepliesTyped DEF IInv, TypeOK, Places
  <1>5. AsksWithin' /\ ReplyFits'
    BY <1>1, <1>2 DEF IInv, AsksWithin, ReplyFits
  <1>6. ExitCodeTells'
    BY <1>2 DEF ExitCodeTells
  <1>7. QED
    BY <1>4, <1>5, <1>6 DEF IInv

\* a broken one that is sent back for repair,
LEMMA RepairIInv ==
  ASSUME IInv, NEW e \in Errors, Repair(e)
  PROVE  IInv'
  <1> DEFINE r == Reply("broken", e)
  <1>1. r \in Replies /\ r.kind = "broken"
    BY RepliesTyped
  <1>2. Called(r) /\ prompt' = e
    BY DEF Repair
  <1>3. CASE calls' = Attempts(job)
    <2>1. place' = "ended" /\ exit' = 6 /\ reply' = r
      BY <1>3 DEF Repair, Called, Ends
    <2>2. exit' # 0 /\ exit' # 1
      BY <2>1
    <2>3. reply'.kind = "broken"
      BY <1>1, <2>1
    <2>4. reply' # Validated /\ reply' # NoReply
      BY <2>3, RepliesTyped
    <2>5. ExitCodeTells'
      BY <2>2, <2>4 DEF ExitCodeTells
    <2>6. QED
      BY <1>1, <1>2, <2>1, <2>5, LastCallIInv
  <1>4. CASE calls' # Attempts(job)
    <2>1. job \in Jobs /\ calls \in Nat /\ Attempts(job) \in Int /\ Attempts(job') = Attempts(job)
      BY <1>2, JobFields DEF IInv, TypeOK, Called, Attempts
    <2>2. /\ UNCHANGED <<policy, out, job, place, exit>> /\ calls' = calls + 1
          /\ reply' = r /\ place = "asking"
      BY <1>2, <1>4 DEF Repair, Called
    <2>3. calls' \in Nat
      BY <2>1, <2>2
    <2>4. TypeOK'
      BY <1>1, <1>2, <2>2, <2>3 DEF IInv, TypeOK
    <2>5. AsksWithin' /\ ReplyFits'
      BY <1>2, <1>4, <2>1, <2>2 DEF IInv, AsksWithin, ReplyFits
    <2>6. ExitCodeTells'
      BY <2>2 DEF ExitCodeTells
    <2>7. QED
      BY <2>4, <2>5, <2>6 DEF IInv
  <1>5. QED
    BY <1>3, <1>4

\* the last failure of an attempt,
LEMMA FailIInv ==
  ASSUME IInv, NEW p \in Failures, Fail(p)
  PROVE  IInv'
  <1> DEFINE r == Reply(p, NoError)
  <1>1. r \in Replies /\ r.kind = p
    BY RepliesTyped
  <1>2. /\ Called(r) /\ prompt' \in Errors \cup {NoError}
        /\ place' = "ended" /\ exit' = 6 /\ reply' = r
    BY DEF Fail, Called, Ends, IInv, TypeOK
  <1>3. exit' # 0 /\ exit' # 1
    BY <1>2
  <1>4. reply'.kind = p
    BY <1>1, <1>2
  <1>5. reply' # Validated /\ reply' # NoReply
    BY <1>4, KindsApart, RepliesTyped
  <1>6. ExitCodeTells'
    BY <1>3, <1>5 DEF ExitCodeTells
  <1>7. QED
    BY <1>1, <1>2, <1>6, LastCallIInv

\* a reply without an object, which no handler catches,
LEMMA CrashIInv ==
  ASSUME IInv, NEW p, p = "no object", Crash(p)
  PROVE  IInv'
  <1> DEFINE r == Reply(p, NoError)
  <1>1. r \in Replies /\ r.kind = p
    BY RepliesTyped
  <1>2. /\ Called(r) /\ prompt' \in Errors \cup {NoError}
        /\ place' = "ended" /\ exit' = 1 /\ reply' = r
    BY DEF Crash, Called, Ends, IInv, TypeOK
  <1>3. exit' # 0 /\ exit' # 6
    BY <1>2, CodesApart, Zenon
  <1>4. reply'.kind = "no object" /\ reply' # NoReply
    BY <1>1, <1>2, RepliesTyped
  <1>5. ExitCodeTells'
    BY <1>3, <1>4 DEF ExitCodeTells
  <1>6. QED
    BY <1>1, <1>2, <1>5, LastCallIInv

\* Printing and writing, whether they succeed or not, follow a valid answer.
LEMMA HandingOverIInv ==
  ASSUME IInv, Render \/ Write \/ WriteFails \/ Tell \/ PrintFails
  PROVE  IInv'
  <1>1. /\ job \in Jobs /\ job' = job /\ reply' = reply
        /\ place \in {"printing", "writing", "telling"} /\ UNCHANGED <<policy, prompt, calls>>
        /\ out' \in {out, Draft(job), Half(job)}
    BY DEF IInv, TypeOK, Render, Write, WriteFails, Tell, PrintFails
  <1>2. \/ place' = "ended" /\ exit' \in {0, 1}
        \/ place' \in {"writing", "telling"} /\ exit' = exit /\ job.save
    BY DEF IInv, ReplyFits, Render, Write, WriteFails, Tell, PrintFails, Ends, Goes
  <1>3. reply = Validated
    BY <1>1 DEF IInv, ReplyFits
  <1>4. TypeOK'
    BY <1>1, <1>2, DraftsAreFiles, CodesApart DEF IInv, TypeOK, Places
  <1>5. AsksWithin' /\ ReplyFits'
    BY <1>1, <1>2, <1>3 DEF IInv, AsksWithin, ReplyFits, Attempts
  <1>6. reply' = Validated /\ reply'.kind = "valid" /\ reply' # NoReply
    BY <1>1, <1>3, RepliesTyped
  <1>7. place' = "ended" => exit' # 6
    BY <1>2
  <1>8. ExitCodeTells'
    BY <1>6, <1>7 DEF ExitCodeTells
  <1>9. QED
    BY <1>4, <1>5, <1>8 DEF IInv

\* So does the kill of a command, wherever it is,
LEMMA KillIInv ==
  ASSUME IInv, Kill
  PROVE  IInv'
  <1>1. /\ job \in Jobs /\ job' = job /\ reply' = reply /\ UNCHANGED <<policy, prompt, calls>>
        /\ place' = "ended" /\ exit' = Killed /\ out' \in {out, Half(job)}
    BY DEF IInv, TypeOK, Kill, Ends
  <1>2. TypeOK'
    BY <1>1, DraftsAreFiles, CodesApart DEF IInv, TypeOK, Places
  <1>3. AsksWithin' /\ ReplyFits'
    BY <1>1 DEF IInv, AsksWithin, ReplyFits, Attempts
  <1>4. exit' # 0 /\ exit' # 1 /\ exit' # 6
    BY <1>1, CodesApart
  <1>5. ExitCodeTells'
    BY <1>4 DEF ExitCodeTells
  <1>6. QED
    BY <1>2, <1>3, <1>5 DEF IInv

\* and what somebody edits meanwhile.
LEMMA EditIInv ==
  ASSUME IInv, (\E t \in Texts \cup {NoText} : EditPolicy(t)) \/ EditDraft
  PROVE  IInv'
  <1>1. UNCHANGED command /\ policy' \in Texts \cup {NoText} /\ out' \in {out, ByHand}
    BY DEF EditPolicy, EditDraft, IInv, TypeOK
  <1>2. ByHand \in Files
    BY DEF ByHand, Content, Files
  <1>3. TypeOK'
    BY <1>1, <1>2, CodesApart DEF IInv, TypeOK, command
  <1>4. AsksWithin' /\ ReplyFits'
    BY <1>1 DEF IInv, AsksWithin, ReplyFits, command, Attempts
  <1>5. ExitCodeTells'
    BY <1>1 DEF IInv, ExitCodeTells, command, Attempts
  <1>6. QED
    BY <1>3, <1>4, <1>5 DEF IInv

\* No step breaks the invariant.
LEMMA StepIInv == IInv /\ [Next]_vars => IInv'
  <1> SUFFICES ASSUME IInv, [Next]_vars PROVE IInv'
    OBVIOUS
  <1>1. CASE \E j \in Asked : Start(j)
    BY <1>1, StartIInv
  <1>2. CASE Read
    BY <1>2, ReadIInv
  <1>3. CASE Attempt
    BY <1>3, AcceptIInv, RepairIInv, FailIInv, CrashIInv DEF Attempt
  <1>4. CASE Render \/ Write \/ WriteFails \/ Tell \/ PrintFails
    BY <1>4, HandingOverIInv
  <1>5. CASE Kill
    BY <1>5, KillIInv
  <1>6. CASE (\E t \in Texts \cup {NoText} : EditPolicy(t)) \/ EditDraft
    BY <1>6, EditIInv
  <1>7. CASE UNCHANGED vars
    <2>1. TypeOK'
      BY <1>7 DEF vars, IInv, TypeOK
    <2>2. AsksWithin'
      BY <1>7 DEF vars, IInv, AsksWithin, Attempts
    <2>3. ExitCodeTells'
      BY <1>7 DEF vars, IInv, ExitCodeTells, Attempts
    <2>4. ReplyFits'
      BY <1>7 DEF vars, IInv, ReplyFits
    <2>5. QED
      BY <2>1, <2>2, <2>3, <2>4 DEF IInv
  <1>8. QED
    BY <1>1, <1>2, <1>3, <1>4, <1>5, <1>6, <1>7 DEF Next, Progress

\* The invariant of every behaviour.
LEMMA SpecIInv == Spec => []IInv
  BY InitIInv, StepIInv, PTL DEF Spec

\* A command works on one of the jobs, whatever texts, errors and numbers of
\* repairs there are.
THEOREM ExtractTypeOK == Spec => []TypeOK
  BY SpecIInv, PTL DEF IInv

\* The backend is asked again only with the error of an answer that failed
\* validation, and never more than --max-repair times (extract.py:59-69).
THEOREM ExtractAsksWithin == Spec => []AsksWithin
  BY SpecIInv, PTL DEF IInv

\* The exit code tells how the command ended (cli.py:110-154).
THEOREM ExtractExitCodeTells == Spec => []ExitCodeTells
  BY SpecIInv, PTL DEF IInv

-----------------------------------------------------------------------------
(* The refinement.                                                         *)

\* Every step is one that Ask promises, or none of its.
LEMMA PromiseStep ==
  ASSUME IInv, IInv', [Next]_vars
  PROVE  [Promise!Next]_(Promise!vars)
  <1>1. ASSUME NEW j \in Asked, Start(j) PROVE j \in Jobs /\ Promise!Begin(j)
    <2>1. j \in Jobs /\ job' = j /\ UNCHANGED out
      BY <1>1 DEF Start, Asked
    <2>2. Status \in {"idle", "delivered", "declined", "broken"}
      BY <1>1 DEF Start, Status
    <2>3. reply' # Validated
      BY <1>1, RepliesTyped DEF Start
    <2>4. (place' = "ended" /\ exit' = 6) \/ place' = "reading"
      BY <1>1 DEF Start, Ends
    <2>5. Status' \in {"opened", "declined"}
      BY <2>3, <2>4 DEF Status
    <2>6. QED
      BY <2>1, <2>2, <2>5 DEF Promise!Begin
  <1>2. CASE Read
    <2>1. place = "reading" /\ Status = "opened" /\ UNCHANGED out
      BY <1>2 DEF Read, Status
    <2>2. CASE policy = NoText
      <3>1. job \in [tool : Tools, text : Texts \cup {NoText}, repair : Repairs \cup {1}, save : BOOLEAN]
        BY DEF IInv, TypeOK, Jobs
      <3>2. job' = job
        BY <1>2, <2>1, <2>2, <3>1 DEF Read, IInv, ReplyFits, Asked
      <3>3. Status' = "broken"
        BY <1>2, <2>2 DEF Read, Ends, Status
      <3>4. QED
        BY <2>1, <3>2, <3>3 DEF Promise!Break, Promise!Next, Promise!Progress
    <2>3. CASE policy # NoText
      <3>1. policy \in Texts /\ job' \in Readings(job)
        BY <1>2, <2>3 DEF Read, Readings, IInv, TypeOK
      <3>2. reply' # Validated
        BY <1>2, <2>1, RepliesTyped DEF Read, IInv, ReplyFits
      <3>3. Status' \in {"working", "declined"}
        BY <1>2, <2>3, <3>2 DEF Read, Ends, Goes, Status
      <3>4. QED
        BY <2>1, <3>1, <3>3 DEF Promise!Take, Promise!Next, Promise!Progress
    <2>4. QED
      BY <2>2, <2>3
  <1>3. CASE Accept
    <2>1. Status = "working" /\ Status' = "working" /\ UNCHANGED <<job, out>>
      BY <1>3 DEF Accept, Called, Goes, Status
    <2>2. QED
      BY <2>1 DEF Promise!vars
  <1>4. ASSUME NEW e \in Errors, Repair(e) PROVE [Promise!Next]_(Promise!vars)
    <2>1. reply' # Validated
      BY <1>4 DEF Repair, Called, Reply, Validated
    <2>2. Status = "working" /\ Status' \in {"working", "declined"} /\ UNCHANGED <<job, out>>
      BY <1>4, <2>1 DEF Repair, Called, Ends, Status
    <2>3. QED
      BY <2>2 DEF Promise!Decline, Promise!Progress, Promise!Next, Promise!vars
  <1>5. ASSUME NEW p \in Failures, Fail(p) PROVE Promise!Decline
    <2>1. /\ place = "asking" /\ place' = "ended" /\ exit' = 6 /\ reply' = Reply(p, NoError)
          /\ UNCHANGED <<job, out>>
      BY <1>5 DEF Fail, Called, Ends
    <2>2. reply' # Validated
      BY <2>1, KindsApart, RepliesTyped
    <2>3. Status = "working" /\ Status' = "declined"
      BY <2>1, <2>2 DEF Status
    <2>4. QED
      BY <2>1, <2>3 DEF Promise!Decline
  <1>6. CASE Crash("no object")
    <2>1. place = "asking" /\ place' = "ended" /\ exit' = 1 /\ UNCHANGED <<job, out>>
      BY <1>6 DEF Crash, Called, Ends
    <2>2. Status = "working" /\ Status' = "broken"
      BY <2>1 DEF Status
    <2>3. QED
      BY <2>1, <2>2 DEF Promise!Break, Promise!Progress, Promise!Next
  <1>7. CASE Render
    <2>1. /\ Status = "working" /\ UNCHANGED <<job, out>>
          /\ IF job.save THEN Status' = "working" ELSE Status' = "delivered"
      BY <1>7 DEF Render, Goes, Ends, Status
    <2>2. QED
      BY <2>1 DEF Saves, Promise!Deliver, Promise!Progress, Promise!Next, Promise!vars
  <1>8. CASE Write
    <2>1. /\ Status = "working" /\ Status' = "saved" /\ UNCHANGED job
          /\ out' = Draft(job) /\ job.save
      BY <1>8 DEF Write, Goes, Status, IInv, ReplyFits
    <2>2. QED
      BY <2>1 DEF Saves, Promise!Save, Promise!Progress, Promise!Next
  <1>9. CASE WriteFails
    <2>1. /\ Status = "working" /\ Status' = "broken" /\ UNCHANGED job
          /\ out' \in {out, Half(job)} /\ job.save
      BY <1>9 DEF WriteFails, Ends, Status, IInv, ReplyFits
    <2>2. QED
      BY <2>1 DEF Saves, Promise!Break, Promise!Progress, Promise!Next
  <1>10. CASE Tell
    <2>1. Status = "saved" /\ Status' = "delivered" /\ UNCHANGED <<job, out>> /\ job.save
      BY <1>10 DEF Tell, Ends, Status, IInv, ReplyFits
    <2>2. QED
      BY <2>1 DEF Saves, Promise!Deliver, Promise!Progress, Promise!Next
  <1>11. CASE PrintFails
    <2>1. Status \in {"working", "saved"} /\ Status' = "broken" /\ UNCHANGED <<job, out>>
      BY <1>11 DEF PrintFails, Ends, Status
    <2>2. QED
      BY <2>1 DEF Promise!Break, Promise!Progress, Promise!Next
  <1>12. CASE Kill
    <2>1. Status' = "broken" /\ UNCHANGED job /\ place \in Places \ {"idle", "ended"}
      BY <1>12, CodesApart DEF Kill, Ends, Status, IInv, TypeOK
    <2>2. Status \in {"opened", "working", "saved"}
      BY <2>1 DEF Places, Status
    <2>3. out' = out \/ (Status = "working" /\ job.save /\ out' = Half(job))
      BY <1>12 DEF Kill, Status, IInv, ReplyFits
    <2>4. QED
      BY <2>1, <2>2, <2>3 DEF Saves, Promise!Break, Promise!Progress, Promise!Next
  <1>13. ASSUME NEW t \in Texts \cup {NoText}, EditPolicy(t) PROVE UNCHANGED Promise!vars
    BY <1>13 DEF EditPolicy, command, Status, Promise!vars
  <1>14. CASE EditDraft
    BY <1>14 DEF EditDraft, command, Status, Promise!Edit, Promise!Next
  <1>15. CASE UNCHANGED vars
    BY <1>15 DEF vars, Status, Promise!vars
  <1>16. QED
    BY <1>1, <1>2, <1>3, <1>4, <1>5, <1>6, <1>7, <1>8, <1>9, <1>10, <1>11, <1>12, <1>13,
       <1>14, <1>15 DEF Next, Attempt, Progress, Promise!Next, Promise!Progress

\* The safety part of the promise: a delivered draft is of the text the command
\* read, and a declined command leaves the file alone.
THEOREM ExtractKeepsThePromise == Spec => Promise!Safe
  <1>1. Init => Status = "idle"
    BY DEF Init, Status
  <1>2. IInv /\ IInv' /\ [Next]_vars => [Promise!Next]_(Promise!vars)
    BY PromiseStep
  <1>3. QED
    BY <1>1, <1>2, SpecIInv, PTL DEF Spec, Promise!Safe
=============================================================================
