----------------------------- MODULE DurableQueue -----------------------------
(* What the download queue promises, with no word of channels, permits,    *)
(* statements or handlers: a set of jobs and a bounded set of workers.     *)
(*   - A job is submitted once.  A job that is gone never comes back, no   *)
(*     matter what a worker that still holds it writes.                    *)
(*   - Only a worker that holds a job and has begun it starts it and       *)
(*     records how it ended.                                               *)
(*   - A job that is done is put back in the queue by no one.              *)
(*   - A crash loses workers, and jobs that were being submitted, and      *)
(*     nothing else.                                                       *)
(* Two workers may hold one job: a job is done at least once.              *)
EXTENDS Naturals, FiniteSets

CONSTANTS Jobs, None, Workers, Limit

VARIABLES job, worker

States == {"unborn", "queued", "downloading", "done", "failed", "cancelled", "gone"}
Idle   == [id |-> None, begun |-> FALSE]
Live(i) == job[i] \notin {"unborn", "gone"}
Hired  == {w \in Workers : worker[w].id # None}

Init == job = [i \in Jobs |-> "unborn"] /\ worker = [w \in Workers |-> Idle]

\* A job changes, unless it is gone (or not there yet): then nothing happens.
Becomes(i, state) == job' = [job EXCEPT ![i] = IF Live(i) THEN state ELSE @]

Submit(i)  == job[i] = "unborn" /\ job' = [job EXCEPT ![i] = "queued"] /\ UNCHANGED worker
Abandon(i) == job[i] = "unborn" /\ job' = [job EXCEPT ![i] = "gone"] /\ UNCHANGED worker
Remove(i)  == Live(i) /\ job' = [job EXCEPT ![i] = "gone"] /\ UNCHANGED worker
Cancel(i)  == Becomes(i, "cancelled") /\ UNCHANGED worker
Renew(i)   == job[i] # "done" /\ Becomes(i, "queued") /\ UNCHANGED worker

Hire(w, i) ==
    /\ worker[w] = Idle
    /\ Cardinality(Hired) < Limit
    /\ job[i] # "unborn"
    /\ worker' = [worker EXCEPT ![w] = [id |-> i, begun |-> FALSE]]
    /\ UNCHANGED job

Begin(w) ==
    /\ worker[w] # Idle
    /\ Becomes(worker[w].id, "downloading")
    /\ worker' = [worker EXCEPT ![w] = [id |-> worker[w].id, begun |-> TRUE]]

Leave(w) == worker[w] # Idle /\ worker' = [worker EXCEPT ![w] = Idle] /\ UNCHANGED job

Record(w) ==
    /\ worker[w].begun
    /\ Becomes(worker[w].id, "done") \/ Becomes(worker[w].id, "failed")
    /\ worker' = [worker EXCEPT ![w] = Idle]

Crash ==
    /\ worker' = [w \in Workers |-> Idle]
    /\ \E lost \in SUBSET {i \in Jobs : job[i] = "unborn"} :
         job' = [i \in Jobs |-> IF i \in lost THEN "gone" ELSE job[i]]

Next ==
    \/ \E i \in Jobs : Submit(i) \/ Abandon(i) \/ Remove(i) \/ Cancel(i) \/ Renew(i)
    \/ \E w \in Workers, i \in Jobs : Hire(w, i)
    \/ \E w \in Workers : Begin(w) \/ Leave(w) \/ Record(w)
    \/ Crash

Spec == Init /\ [][Next]_<<job, worker>>
=============================================================================
