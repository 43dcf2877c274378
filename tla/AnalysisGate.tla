---------------------------- MODULE AnalysisGate ----------------------------
(***************************************************************************)
(* What the gate before an analysis promises, by either approach: it opens *)
(* only on enough trades, closes only for want of them, and a request has  *)
(* a result exactly if it is made behind the open gate, of a loan within   *)
(* the limit, and then it leaves the gate analysed.                        *)
(***************************************************************************)
EXTENDS Integers

CONSTANTS MinTrades, NoLimit

VARIABLES
  state,   \* of the gate
  trades,  \* recent trades
  limit,   \* what regulation allows to lend
  loan,    \* the loan a request is about
  outcome  \* how it ended: "done" is a result

vars == <<state, trades, limit, loan, outcome>>

Moves(from, to) ==
  /\ state \in from
  /\ state' = to
  /\ UNCHANGED <<trades, limit>>

Open == trades >= MinTrades /\ Moves({"LOCKED", "ANALYZED"}, "READY")

Close == trades < MinTrades /\ Moves({"READY", "ANALYZED"}, "LOCKED")

Analyze ==
  /\ Moves({"READY"}, "ANALYZED")
  /\ limit # NoLimit
  /\ loan' <= limit
  /\ outcome' = "done"

\* A request is refused, or the world around the gate moves.
Stay == UNCHANGED state

Init == state = "LOCKED"
Next == Analyze \/ (outcome' # "done" /\ (Open \/ Close \/ Stay))

Spec == Init /\ [][Next]_vars
=============================================================================
