--------------------------- MODULE MCCollection ---------------------------
(***************************************************************************)
(* Two workers, two jobs on one source with two trades.  The in-memory     *)
(* registry, which keeps nobody apart, is run with one of the jobs: its    *)
(* state space is the larger one by far.                                   *)
(***************************************************************************)
EXTENDS Collection

CONSTANTS w1, w2

MCWorkers == {w1, w2}
MCJobs == {"daily", "hourly"}
MCSources == {"molit"}
MCSourceOf == [j \in MCJobs |-> "molit"]
MCOffer == [s \in MCSources |-> {"trade 1", "trade 2"}]
MCRegistries == {"in memory", "database"}
MCCalledWith == [r \in MCRegistries |-> IF r = "database" THEN MCJobs ELSE {"daily"}]
=============================================================================
