------------------------------- MODULE JobQueue -------------------------------
(***************************************************************************)
(* The delayed-job queue (BullMQ on Redis) as ObraCerta's schedulers use   *)
(* it.  A queue is a function from job ids to the state of the job with    *)
(* that id.  Every scheduler names its jobs after the row they act on      *)
(* (`invoice:due:ID`, `subscription:renew:ID`, ...), so a job id is the id *)
(* of that row and each kind of job is a queue of its own.                 *)
(*                                                                         *)
(* The operators are functions of the queue; the modules that schedule     *)
(* jobs hold the queue in a variable.                                      *)
(***************************************************************************)
EXTENDS Naturals

JobStates == {"absent", "delayed", "active", "failed"}

Job == [state : JobStates, at : Nat]

NoJob == [state |-> "absent", at |-> 0]

Queue(Ids) == [Ids -> Job]

EmptyQueue(Ids) == [id \in Ids |-> NoJob]

\* queue.add with a fixed jobId: the id names at most one job, and adding a
\* job whose id is taken (waiting, running, or kept after failing) does
\* nothing.
Add(q, id, t) ==
  IF q[id].state = "absent"
    THEN [q EXCEPT ![id] = [state |-> "delayed", at |-> t]]
    ELSE q

\* A worker may pick the job: its delay has run out.
Due(q, id, t) == q[id].state = "delayed" /\ q[id].at <= t

\* The job is being processed; its id stays taken.
Take(q, id) == [q EXCEPT ![id].state = "active"]

\* removeOnComplete: the id is free again only once the processor returned.
Complete(q, id) == [q EXCEPT ![id] = NoJob]

\* The processor threw: one attempt only, and removeOnFail keeps the job.
Fail(q, id) == [q EXCEPT ![id].state = "failed"]

\* The worker died: the stalled job goes back to waiting and runs again.
Stall(q, id) == [q EXCEPT ![id].state = "delayed"]

===============================================================================
