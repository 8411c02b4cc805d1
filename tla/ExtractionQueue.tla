-------------------------- MODULE ExtractionQueue --------------------------
(***************************************************************************)
(* The extraction queue (pkg/download/extract_queue.go): a FIFO of jobs    *)
(* behind a mutex, one worker, Start and Stop, and the channel that tells  *)
(* a waiter that a job has been executed or discarded.                     *)
(*                                                                         *)
(* Closing a channel twice is a panic in Go, so "closed" counts.           *)
(***************************************************************************)
EXTENDS Integers, Sequences, SequencesExt, FiniteSets

CONSTANTS Job, Nobody

VARIABLES
  jobs,      \* q.jobs
  running,   \* q.running
  shutdown,  \* q.shutdown
  workers,   \* worker goroutines, as wg counts them
  executing, \* the job a worker is executing, or Nobody
  closed,    \* how often the done channel of a job was closed
  discarded, \* the jobs whose channel was closed without executing them
  stopping   \* calls of Stop that wait for the workers

queueVars == <<jobs, running, shutdown, workers, executing, closed, discarded, stopping>>

QueueTypeOK ==
  /\ jobs \in Seq(Job)
  /\ running \in BOOLEAN /\ shutdown \in BOOLEAN
  /\ workers \in Nat /\ stopping \in Nat
  /\ executing \in Job \cup {Nobody}
  /\ closed \in [Job -> 0 .. 1]
  /\ discarded \subseteq Job

\* GetExtractionQueue: the global queue is created started.
QueueInit ==
  /\ jobs = <<>> /\ running = TRUE /\ shutdown = FALSE /\ workers = 1
  /\ executing = Nobody
  /\ closed = [j \in Job |-> 0] /\ discarded = {} /\ stopping = 0

Close(set) == closed' = [j \in Job |-> IF j \in set THEN closed[j] + 1 ELSE closed[j]]

\* Mutant: Start does not look whether the queue runs.
StartAgain ==
  /\ running' = TRUE /\ shutdown' = FALSE /\ workers' = workers + 1
  /\ UNCHANGED <<jobs, executing, closed, discarded, stopping>>

QueueStart ==
  /\ ~running
  /\ running' = TRUE /\ shutdown' = FALSE /\ workers' = workers + 1
  /\ UNCHANGED <<jobs, executing, closed, discarded, stopping>>

\* Stop returns at once if nothing runs, else it waits for wg.
StopBegins ==
  /\ running
  /\ shutdown' = TRUE
  /\ stopping' = stopping + 1
  /\ UNCHANGED <<jobs, running, workers, executing, closed, discarded>>

StopEnds ==
  /\ stopping > 0 /\ workers = 0
  /\ stopping' = stopping - 1
  /\ UNCHANGED <<jobs, running, shutdown, workers, executing, closed, discarded>>

\* A job that comes during the shutdown, or after it, is discarded.
Enqueue(j) ==
  /\ IF shutdown
     THEN /\ Close({j}) /\ discarded' = discarded \cup {j}
          /\ UNCHANGED jobs
     ELSE /\ jobs' = Append(jobs, j)
          /\ UNCHANGED <<closed, discarded>>
  /\ UNCHANGED <<running, shutdown, workers, executing, stopping>>

RemovePendingJob(j) ==
  /\ j \in ToSet(jobs)
  /\ jobs' = SelectSeq(jobs, LAMBDA k : k # j)
  /\ Close({j}) /\ discarded' = discarded \cup {j}
  /\ UNCHANGED <<running, shutdown, workers, executing, stopping>>

\* The worker: under the lock it takes the first job, or discards all of them and
\* leaves.
Dequeue ==
  /\ workers > 0 /\ executing = Nobody /\ ~shutdown /\ jobs # <<>>
  /\ executing' = Head(jobs)
  /\ jobs' = Tail(jobs)
  /\ UNCHANGED <<running, shutdown, workers, closed, discarded, stopping>>

\* Job.Execute has returned.
Executed ==
  /\ executing # Nobody
  /\ Close({executing})
  /\ executing' = Nobody
  /\ UNCHANGED <<jobs, running, shutdown, workers, discarded, stopping>>

WorkerLeaves ==
  /\ workers > 0 /\ executing = Nobody /\ shutdown
  /\ Close(ToSet(jobs)) /\ discarded' = discarded \cup ToSet(jobs)
  /\ jobs' = <<>>
  /\ running' = FALSE
  /\ workers' = workers - 1
  /\ UNCHANGED <<shutdown, executing, stopping>>

-----------------------------------------------------------------------------

\* A job is waiting, being executed or finished, and never two of these: so no
\* channel is closed twice and no job is executed twice (worker, RemovePendingJob,
\* Enqueue).
JobsHaveOnePlace ==
  /\ \A j \in Job :
       closed[j] + (IF j \in ToSet(jobs) THEN 1 ELSE 0)
                 + (IF j = executing THEN 1 ELSE 0) <= 1
  /\ IsInjective(jobs)

\* There is one worker, so one extraction at a time, and Start during a Stop never
\* makes a second one (Start, worker).
OneWorker == workers <= 1 /\ (running <=> workers = 1)
=============================================================================
