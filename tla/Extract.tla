------------------------------ MODULE Extract ------------------------------
(***************************************************************************)
(* The two commands that ask a language model, extract and select-arch:    *)
(* cli.py reads the policy document, the repair loop of extract.py and     *)
(* select_arch.py asks the backend until an answer validates, and the      *)
(* draft is written to a file people edit too.                             *)
(***************************************************************************)
EXTENDS Integers

CONSTANTS
  Texts,    \* what the policy document may say
  NoText,   \* there is no policy document
  Errors,   \* what a validation may complain of
  NoError,
  Repairs   \* the values given for --max-repair

ASSUME NamesApart == NoText \notin Texts /\ NoError \notin Errors
ASSUME RepairsAreInts == \A r \in Repairs : r \in Int

Tools == {"extract", "select-arch"}

\* extract always writes its file, select-arch has no --max-repair.
Jobs ==
  {j \in [tool : Tools, text : Texts \cup {NoText}, repair : Repairs \cup {1}, save : BOOLEAN] :
     IF j.tool = "extract" THEN j.repair \in Repairs /\ j.save ELSE j.repair = 1}

Content(kind, of) == [kind |-> kind, of |-> of]
Absent == Content("absent", NoText)
ByHand == Content("by hand", NoText)
Draft(j) == Content(j.tool, j.text)

\* write_text empties the file before it writes.
Half(j) == Content("half a draft", j.text)

Files == [kind : {"absent", "by hand", "half a draft"} \cup Tools, of : Texts \cup {NoText}]

Failures == {"no claude", "timed out", "exit code", "no JSON", "is_error", "no structured_output",
             "output no object"}

Reply(kind, error) == [kind |-> kind, error |-> error]
NoReply == Reply("none", NoError)
Validated == Reply("valid", NoError)
Replies == [kind : {"none", "valid", "no object"} \cup Failures, error : {NoError}]
           \cup [kind : {"broken"}, error : Errors]

\* ClaudeSessionBackend.complete: what becomes of the process that was called.
\* An envelope that is JSON but no object has no `get`.
Complete(process) ==
  CASE process = "no object" -> "unforeseen"
    [] process \in {"valid", "broken"} -> "answer"
    [] OTHER -> "LLMError"

Killed == -1   \* no exit code of its own
NoExit == -2   \* the command has not ended

VARIABLES
  policy,  \* the policy document
  out,     \* the file for the drafts
  place,   \* where the command is
  job,     \* its arguments and the text it read
  prompt,  \* the error fed back with the text, if any
  calls,   \* the calls of the backend so far
  reply,   \* what the last one came to
  exit     \* its exit code

vars == <<policy, out, place, job, prompt, calls, reply, exit>>
command == <<place, job, prompt, calls, reply, exit>>

\* Reading the document, asking, printing what came of it (select-arch), the
\* write, and the line after it.
Places == {"idle", "reading", "asking", "printing", "writing", "telling", "ended"}

\* The jobs of commands that have not read the document.
Asked == {j \in Jobs : j.text = NoText}

Attempts(j) == j.repair + 1

-----------------------------------------------------------------------------
Init ==
  /\ policy \in Texts \cup {NoText}
  /\ out = Absent
  /\ place = "idle"
  /\ job \in Asked
  /\ prompt = NoError
  /\ calls = 0
  /\ reply = NoReply
  /\ exit = NoExit

Ends(code) == place' = "ended" /\ exit' = code
Goes(there) == place' = there /\ UNCHANGED exit

\* A command begins, and ends with code 6 if there is no document.
Start(j) ==
  /\ place \in {"idle", "ended"}
  /\ job' = j
  /\ prompt' = NoError
  /\ calls' = 0
  /\ reply' = NoReply
  /\ IF policy = NoText THEN Ends(6) ELSE place' = "reading" /\ exit' = NoExit
  /\ UNCHANGED <<policy, out>>

\* The document is read once.  If it has gone since, nobody catches what that
\* raises; with no attempt to make, the command ends with code 6.
Read ==
  /\ place = "reading"
  /\ job' = [job EXCEPT !.text = policy]
  /\ IF policy = NoText THEN Ends(1)
     ELSE IF Attempts(job) <= 0 THEN Ends(6)
     ELSE Goes("asking")
  /\ UNCHANGED <<policy, out, prompt, calls, reply>>

Called(r) ==
  /\ place = "asking"
  /\ calls' = calls + 1
  /\ reply' = r
  /\ UNCHANGED <<policy, out, job>>

\* The answer validates: extract writes it, select-arch prints it first.
Accept ==
  /\ Complete("valid") = "answer"
  /\ Called(Validated)
  /\ Goes(IF job.tool = "extract" THEN "writing" ELSE "printing")
  /\ UNCHANGED prompt

Render ==
  /\ place = "printing"
  /\ IF job.save THEN Goes("writing") ELSE Ends(0)
  /\ UNCHANGED <<policy, out, job, prompt, calls, reply>>

\* Mutant: nothing is raised after the last attempt, so there is no spec to dump.
RepairThenNothing(e) ==
  /\ Complete("broken") = "answer"
  /\ Called(Reply("broken", e))
  /\ prompt' = e
  /\ IF calls' = Attempts(job) THEN Ends(1) ELSE UNCHANGED <<place, exit>>

\* Mutant: the loop asks until an answer validates.
RepairForEver(e) ==
  /\ place = "asking"
  /\ reply' = Reply("broken", e)
  /\ prompt' = e
  /\ UNCHANGED <<policy, out, job, place, calls, exit>>

\* It does not: its error is fed back, with the text and without the errors
\* before it, as long as an attempt is left.
Repair(e) ==
  /\ Complete("broken") = "answer"
  /\ Called(Reply("broken", e))
  /\ prompt' = e
  /\ IF calls' = Attempts(job) THEN Ends(6) ELSE UNCHANGED <<place, exit>>

\* Mutant: the repair loop swallows the backend's errors too.
FailAndAskAgain(process) ==
  /\ Complete(process) = "LLMError"
  /\ Called(Reply(process, NoError))
  /\ IF calls' = Attempts(job) THEN Ends(6) ELSE UNCHANGED <<place, exit>>
  /\ UNCHANGED prompt

\* Mutant: its handler in cli.py returns no code.
FailSilently(process) ==
  /\ Complete(process) = "LLMError"
  /\ Called(Reply(process, NoError))
  /\ place' = "ended"
  /\ UNCHANGED <<prompt, exit>>

\* An infrastructure error passes through the loop.
Fail(process) ==
  /\ Complete(process) = "LLMError"
  /\ Called(Reply(process, NoError))
  /\ Ends(6)
  /\ UNCHANGED prompt

\* Any other exception is caught by nobody.
Crash(process) ==
  /\ Complete(process) = "unforeseen"
  /\ Called(Reply(process, NoError))
  /\ Ends(1)
  /\ UNCHANGED prompt

\* Mutant: the draft is of what the document says by now.
WriteOfPolicy ==
  /\ place = "writing"
  /\ out' = Content(job.tool, policy)
  /\ Goes("telling")
  /\ UNCHANGED <<policy, job, prompt, calls, reply>>

Write ==
  /\ place = "writing"
  /\ out' = Draft(job)
  /\ Goes("telling")
  /\ UNCHANGED <<policy, job, prompt, calls, reply>>

\* The file cannot be opened, or the disk is full.
WriteFails ==
  /\ place = "writing"
  /\ out' \in {out, Half(job)}
  /\ Ends(1)
  /\ UNCHANGED <<policy, job, prompt, calls, reply>>

\* The line that says so is the last thing the command does.
Tell ==
  /\ place = "telling"
  /\ Ends(0)
  /\ UNCHANGED <<policy, out, job, prompt, calls, reply>>

\* Standard output does not take what is printed: select-arch has written
\* nothing by then, extract everything.
PrintFails ==
  /\ place = "printing" \/ (place = "telling" /\ job.tool = "extract")
  /\ Ends(1)
  /\ UNCHANGED <<policy, out, job, prompt, calls, reply>>

Kill ==
  /\ place \notin {"idle", "ended"}
  /\ out' \in IF place = "writing" THEN {out, Half(job)} ELSE {out}
  /\ Ends(Killed)
  /\ UNCHANGED <<policy, job, prompt, calls, reply>>

\* People work on both files meanwhile.
EditPolicy(text) == policy' = text /\ UNCHANGED <<out, command>>
EditDraft == out' = ByHand /\ UNCHANGED <<policy, command>>

Attempt ==
  \/ Accept
  \/ \E e \in Errors : Repair(e)
  \/ \E p \in Failures : Fail(p)
  \/ Crash("no object")

Progress == Read \/ Attempt \/ Render \/ Write \/ WriteFails \/ Tell \/ PrintFails

Next ==
  \/ \E j \in Asked : Start(j)
  \/ Progress
  \/ Kill
  \/ \E t \in Texts \cup {NoText} : EditPolicy(t)
  \/ EditDraft

\* A call of the backend is cut off after its timeout, so every attempt comes to
\* an end; nobody has to start or to kill anything.
Fairness == WF_vars(Progress)

Spec == Init /\ [][Next]_vars /\ Fairness

-----------------------------------------------------------------------------
\* A command works on one of the jobs, for as long as it has no exit code.
TypeOK ==
  /\ policy \in Texts \cup {NoText}
  /\ out \in Files
  /\ place \in Places
  /\ job \in Jobs
  /\ prompt \in Errors \cup {NoError}
  /\ calls \in Nat
  /\ reply \in Replies
  /\ exit \in {NoExit, Killed, 0, 1, 6}
  /\ (place = "ended") <=> (exit # NoExit)

\* The backend is asked again only with the error of an answer that failed
\* validation, never after an error of its own, and no more than --max-repair
\* times: an infrastructure error is told from a broken answer (llm/base.py:9).
AsksWithin ==
  /\ calls > 0 => calls <= Attempts(job)
  /\ place = "asking" =>
       /\ job.text # NoText
       /\ calls < Attempts(job)
       /\ IF calls = 0 THEN prompt = NoError ELSE reply = Reply("broken", prompt)

\* The exit code tells how the command ended, whatever happened before: 0
\* after a validated answer only, 6 with no answer only if nothing could be
\* asked, and 1 never after a broken answer or an error of the backend, nor
\* with no answer but because the document had gone (cli.py:10-13).
ExitCodeTells ==
  place = "ended" =>
    /\ exit = 0 => reply = Validated
    /\ exit = 6 /\ reply = NoReply => job.text = NoText \/ Attempts(job) <= 0
    /\ exit = 1 => reply.kind \in {"none", "valid", "no object"}
    /\ exit = 1 /\ reply = NoReply => job.text = NoText

\* Every command ends, on its own if nobody kills it (claude_session.py:40).
EveryCommandEnds == place \notin {"idle", "ended"} ~> place = "ended"

\* The commands keep the promise of Ask: the draft that is saved is of the text
\* the command read, whatever was edited since, and the file of a command that
\* was declined is left alone.
Status ==
  CASE place = "idle" -> "idle"
    [] place = "reading" -> "opened"
    [] place = "telling" -> "saved"
    [] place = "ended" /\ exit = 0 -> "delivered"
    [] place = "ended" /\ exit = 6 /\ reply # Validated -> "declined"
    [] place = "ended" /\ exit # 0 /\ (exit = 6 => reply = Validated) -> "broken"
    [] OTHER -> "working"

Readings(j) == {[j EXCEPT !.text = t] : t \in Texts}

Saves(j) == j.save

Promise == INSTANCE Ask WITH status <- Status, file <- out

KeepsThePromise == Promise!Spec

-----------------------------------------------------------------------------
\* Exit code 6 is that of a failing model (cli.py:13): a command without a
\* validated answer ends with it, whatever it was that the backend came up with.
FailureEndsWith6 ==
  place = "ended" /\ exit # Killed /\ reply.kind \notin {"none", "valid"} => exit = 6
=============================================================================
