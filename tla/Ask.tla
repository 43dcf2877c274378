-------------------------------- MODULE Ask --------------------------------
(***************************************************************************)
(* What a command that asks a language model promises: it ends, it saves a *)
(* draft made of the text it has read or leaves the file as it was, and    *)
(* only a command that breaks in its write may leave half a draft.         *)
(***************************************************************************)
CONSTANTS
  Jobs,         \* what one may ask for
  Readings(_),  \* what a job may be once the command has read its text
  Saves(_),     \* the job's draft goes to the file
  Draft(_),     \* the draft of a job
  Half(_),      \* what is there of a draft when its writing breaks off
  ByHand        \* what people write into the file themselves

VARIABLES
  status,  \* "idle", then "opened", "working", "saved", then as it ended:
           \* "delivered", "declined" or "broken"
  job,     \* what the command was asked for
  file     \* the file for the drafts

vars == <<status, job, file>>

Begin(j) ==
  /\ status \in {"idle", "delivered", "declined", "broken"}
  /\ status' \in {"opened", "declined"}
  /\ job' = j
  /\ UNCHANGED file

Take ==
  /\ status = "opened"
  /\ status' \in {"working", "declined"}
  /\ job' \in Readings(job)
  /\ UNCHANGED file

Save ==
  /\ status = "working" /\ Saves(job)
  /\ status' = "saved"
  /\ file' = Draft(job)
  /\ UNCHANGED job

Deliver ==
  /\ status = IF Saves(job) THEN "saved" ELSE "working"
  /\ status' = "delivered"
  /\ UNCHANGED <<job, file>>

Decline ==
  /\ status = "working"
  /\ status' = "declined"
  /\ UNCHANGED <<job, file>>

Break ==
  /\ status \in {"opened", "working", "saved"}
  /\ status' = "broken"
  /\ file' = file \/ (status = "working" /\ Saves(job) /\ file' = Half(job))
  /\ UNCHANGED job

Edit ==
  /\ file' = ByHand
  /\ UNCHANGED <<status, job>>

Progress == Take \/ Save \/ Deliver \/ Decline \/ Break

Next ==
  \/ \E j \in Jobs : Begin(j)
  \/ Progress
  \/ Edit

Safe == status = "idle" /\ [][Next]_vars

Spec == Safe /\ WF_vars(Progress)
=============================================================================
