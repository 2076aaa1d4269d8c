---------------------------- MODULE JobLifecycle ----------------------------
(***************************************************************************)
(* What the job store promises of an ingestion job, whatever the threads,  *)
(* the requests and the restarts behind it: its status only moves forward, *)
(*                                                                         *)
(*     unknown -> queued -> running -> completed | failed                  *)
(*                                                                         *)
(* and what GET /results answers changes together with the status, once    *)
(* and for all.  (The database may raise under any single request; that is *)
(* no part of what the store promises of the job.)                         *)
(***************************************************************************)
CONSTANT Jobs

VARIABLES
    phase,    \* the status of each job
    answer    \* what GET /results/{job_id} would answer: 404, 409, a result,
              \* or 500 for a result that cannot be read back

Outcomes == {"completed", "failed"}

Init ==
    /\ phase = [j \in Jobs |-> "unknown"]
    /\ answer = [j \in Jobs |-> "404"]

Accept(j) ==
    /\ phase[j] = "unknown"
    /\ phase' = [phase EXCEPT ![j] = "queued"]
    /\ answer' = [answer EXCEPT ![j] = "409"]

Start(j) ==
    /\ phase[j] = "queued"
    /\ phase' = [phase EXCEPT ![j] = "running"]
    /\ UNCHANGED answer

Finish(j) ==
    /\ phase[j] = "running"
    /\ \E o \in Outcomes :
          /\ phase' = [phase EXCEPT ![j] = o]
          /\ \E a \in {o, "500"} : answer' = [answer EXCEPT ![j] = a]

Next == \E j \in Jobs : Accept(j) \/ Start(j) \/ Finish(j)

Spec == Init /\ [][Next]_<<phase, answer>>

=============================================================================
