--------------------------- MODULE TaskScheduler ---------------------------
(***************************************************************************)
(* The life cycle of download tasks in pkg/download/downloader.go: at most *)
(* MaxRunning tasks run, the others wait in waitTasks; callers of the API  *)
(* create, pause, continue and delete tasks; every started task has a      *)
(* start handler, and then a watcher, in goroutines of their own.          *)
(*                                                                         *)
(* Three kinds of locks are involved: d.lock for tasks and waitTasks,      *)
(* task.lock for calls of the fetcher, task.statusLock for Status and      *)
(* runGeneration.  Steps under statusLock are single actions; the other    *)
(* two are held across several steps.  Many reads and writes of Status     *)
(* take no lock at all, and are steps of their own here.                   *)
(*                                                                         *)
(* The fetcher is known by its state and its doneCh only; RangeFetcher     *)
(* says what is behind them.                                               *)
(***************************************************************************)
EXTENDS Integers, Sequences, SequencesExt, FiniteSets

CONSTANTS Task, Client,
          MaxRunning,  \* cfg.MaxRunning
          Setups,      \* [ops: the API methods clients call, calls: bound on their number,
                       \*  kinds: of "resolve", "save" and "download", faults: bound on
                       \*  their number, callers: the clients that call]
          None         \* no client

ASSUME MaxRunningAssumption == MaxRunning \in Nat \ {0}
ASSUME NoneAssumption == None \notin Client

Methods == {"create", "pause", "pauseAll", "continue", "continueAll", "continueBatch",
            "delete", "deleteAll"}
Setup == [ops : SUBSET Methods, calls : Nat, kinds : SUBSET {"resolve", "save", "download"},
          faults : Nat, callers : SUBSET Client]

ASSUME SetupsAssumption == Setups \subseteq Setup

VARIABLES
  tasks,     \* d.tasks
  waitTasks, \* d.waitTasks
  dlock,     \* the client that holds d.lock across steps, or None
  status,    \* task.Status
  gen,       \* task.runGeneration
  tlock,     \* task.lock is held
  starters,  \* the start handlers under way
  watcher,   \* where watch(task) is; it is in watchedTasks unless "none"
  fet,       \* the state of task.fetcher
  doneCh,    \* its buffered result
  stored,    \* tasks with a record in bucketTask
  client,    \* the API calls under way
  notifies,  \* goroutines of notifyRunning not yet run
  budget     \* the setup; what is left of its calls and faults

taskVars == <<status, gen, starters>>
vars == <<tasks, waitTasks, dlock, taskVars, tlock, watcher, fet, doneCh, stored,
          client, notifies, budget>>

Status == {"ready", "running", "pause", "wait", "error", "done"}

Call == [pc : {"idle", "create", "prepare", "pausing", "stopping", "saving", "range", "lock",
               "scan", "queue", "each", "demote", "start", "remove", "erase", "close"},
         op : Methods \cup {"none"},
         todo : Seq(Task), scan : Seq(Task), start : Seq(Task), left : Int, g : Nat]
Starters == [t : Task, g : Nat, create : BOOLEAN,
             pc : {"queued", "ready", "start", "save", "watch", "failing", "marking", "failed"}]

Idle == [pc |-> "idle", op |-> "none", todo |-> <<>>, scan |-> <<>>,
         start |-> <<>>, left |-> 0, g |-> 0]

TypeOK ==
  /\ tasks \in Seq(Task) /\ IsInjective(tasks)
  /\ waitTasks \in Seq(Task)
  /\ dlock \in Client \cup {None}
  /\ status \in [Task -> Status]
  /\ gen \in [Task -> Nat]
  /\ tlock \in [Task -> BOOLEAN]
  /\ starters \subseteq Starters
  /\ watcher \in [Task -> {"none", "wait", "ok", "err", "marking", "failed", "recheck",
                        "finish", "leave"}]
  /\ fet \in [Task -> {"idle", "running", "paused", "done", "error"}]
  /\ doneCh \in [Task -> {"empty", "ok", "err"}]
  /\ stored \subseteq Task
  /\ client \in [Client -> Call]
  /\ notifies \in Nat
  /\ budget \in Setup

Init ==
  /\ tasks = <<>> /\ waitTasks = <<>> /\ dlock = None
  /\ status = [t \in Task |-> "ready"] /\ gen = [t \in Task |-> 0]
  /\ tlock = [t \in Task |-> FALSE]
  /\ starters = {} /\ watcher = [t \in Task |-> "none"]
  /\ fet = [t \in Task |-> "idle"] /\ doneCh = [t \in Task |-> "empty"]
  /\ stored = {}
  /\ client = [c \in Client |-> Idle]
  /\ notifies = 0
  /\ budget \in Setups

-----------------------------------------------------------------------------

Running == {t \in ToSet(tasks) : status[t] = "running"}

remainRunningCount == MaxRunning - Cardinality(Running)

IsRunningGeneration(t, g) == status[t] = "running" /\ gen[t] = g

IsPausedGeneration(t, g) == status[t] \in {"pause", "wait"} /\ gen[t] = g

\* The synchronous part of doStart, under statusLock.
DoStart(t) ==
  IF status[t] \in {"running", "done"}
  THEN UNCHANGED taskVars
  ELSE /\ status' = [status EXCEPT ![t] = "running"]
       /\ gen' = [gen EXCEPT ![t] = @ + 1]
       /\ starters' = starters \cup
            {[t |-> t, g |-> gen[t] + 1, create |-> status[t] = "ready", pc |-> "queued"]}

\* Client c moves on: the fields of f replace those of its call.
Moves(c, f) == client' = [client EXCEPT ![c] = f]

Calls(op) ==
  /\ op \in budget.ops /\ budget.calls > 0
  /\ budget' = [budget EXCEPT !.calls = @ - 1]

Fault(kind) ==
  /\ kind \in budget.kinds /\ budget.faults > 0
  /\ budget' = [budget EXCEPT !.faults = @ - 1]

\* The entries of seq at the places of I, in their order.
Entries(seq, I) ==
  [i \in 1 .. Cardinality(I) |-> seq[CHOOSE n \in I : Cardinality({m \in I : m <= n}) = i]]

\* What GetTasksByFilter returns for the ids of S.
Selected(S, Excluded) ==
  Entries(tasks, {i \in DOMAIN tasks : tasks[i] \in S /\ status[tasks[i]] \notin Excluded})

-----------------------------------------------------------------------------
(* doCreate.                                                               *)

\* Mutant: the task joins the list before the queue is asked for room, twice.
CreateQueuesTwice(c) ==
  /\ client[c].pc = "create" /\ dlock = None
  /\ LET t == Head(client[c].todo)
     IN  /\ tasks' = tasks \o <<t, t>>
         /\ DoStart(t)
  /\ Moves(c, Idle)
  /\ UNCHANGED <<waitTasks, dlock, tlock, watcher, fet, doneCh, stored, notifies, budget>>

\* A task nobody has created.
New(t) ==
  /\ t \notin stored \cup ToSet(tasks) /\ gen[t] = 0 /\ status[t] = "ready"
  /\ \A d \in Client : client[d].todo # <<t>> \/ client[d].pc # "create"

CreateStores(c, t) ==
  /\ client[c].pc = "idle" /\ Calls("create")
  /\ New(t)
  /\ stored' = stored \cup {t}
  /\ Moves(c, [Idle EXCEPT !.pc = "create", !.op = "create", !.todo = <<t>>])
  /\ UNCHANGED <<tasks, waitTasks, dlock, taskVars, tlock, watcher, fet, doneCh, notifies>>

CreateQueues(c) ==
  /\ client[c].pc = "create" /\ dlock = None
  /\ LET t == Head(client[c].todo)
     IN  /\ tasks' = Append(tasks, t)
         /\ IF remainRunningCount = 0
            THEN /\ status' = [status EXCEPT ![t] = "wait"]
                 /\ waitTasks' = Append(waitTasks, t)
                 /\ UNCHANGED <<gen, starters>>
            ELSE DoStart(t) /\ UNCHANGED waitTasks
  /\ Moves(c, Idle)
  /\ UNCHANGED <<dlock, tlock, watcher, fet, doneCh, stored, notifies, budget>>

-----------------------------------------------------------------------------
(* notifyRunning, in its own goroutine.                                    *)

\* Mutant: somebody else may have taken the slot since notifyRunning was called.
NotifyRunsUnchecked ==
  /\ notifies > 0 /\ dlock = None
  /\ notifies' = notifies - 1
  /\ IF waitTasks = <<>>
     THEN UNCHANGED <<taskVars, waitTasks>>
     ELSE /\ waitTasks' = Tail(waitTasks)
          /\ DoStart(Head(waitTasks))
  /\ UNCHANGED <<tasks, dlock, tlock, watcher, fet, doneCh, stored, client, budget>>

NotifyRuns ==
  /\ notifies > 0 /\ dlock = None
  /\ notifies' = notifies - 1
  /\ IF remainRunningCount = 0 \/ waitTasks = <<>>
     THEN UNCHANGED <<taskVars, waitTasks>>
     ELSE /\ waitTasks' = Tail(waitTasks)
          /\ DoStart(Head(waitTasks))
  /\ UNCHANGED <<tasks, dlock, tlock, watcher, fet, doneCh, stored, client, budget>>

-----------------------------------------------------------------------------
(* The start handler s of doStart.                                         *)

StarterBecomes(s, pc) == starters' = (starters \ {s}) \cup {[s EXCEPT !.pc = pc]}

StarterEnds(s) == starters' = starters \ {s}

\* Mutant: a handler that is too late returns with task.lock held.
StarterLocksForGood(s) ==
  /\ s.pc = "queued" /\ ~tlock[s.t]
  /\ tlock' = [tlock EXCEPT ![s.t] = TRUE]
  /\ IF IsRunningGeneration(s.t, s.g) THEN StarterBecomes(s, "ready") ELSE StarterEnds(s)
  /\ UNCHANGED <<tasks, waitTasks, dlock, status, gen, watcher, fet, doneCh, stored,
                 client, notifies, budget>>

\* task.lock, and the first check of the generation.
StarterLocks(s) ==
  /\ s.pc = "queued" /\ ~tlock[s.t]
  /\ IF IsRunningGeneration(s.t, s.g)
     THEN StarterBecomes(s, "ready") /\ tlock' = [tlock EXCEPT ![s.t] = TRUE]
     ELSE StarterEnds(s) /\ UNCHANGED tlock
  /\ UNCHANGED <<tasks, waitTasks, dlock, status, gen, watcher, fet, doneCh, stored,
                 client, notifies, budget>>

\* Mutant: the early return does not release task.lock.
StarterChecksLocked(s) ==
  /\ s.pc = "ready"
  /\ IF IsRunningGeneration(s.t, s.g) THEN StarterBecomes(s, "start") ELSE StarterEnds(s)
  /\ UNCHANGED <<tasks, waitTasks, dlock, status, gen, tlock, watcher, fet, doneCh, stored,
                 client, notifies, budget>>

\* triggerOnStart and Resolve may take long; the generation is checked again.
StarterChecks(s) ==
  /\ s.pc = "ready"
  /\ IF IsRunningGeneration(s.t, s.g)
     THEN StarterBecomes(s, "start") /\ UNCHANGED tlock
     ELSE StarterEnds(s) /\ tlock' = [tlock EXCEPT ![s.t] = FALSE]
  /\ UNCHANGED <<tasks, waitTasks, dlock, status, gen, watcher, fet, doneCh, stored,
                 client, notifies, budget>>

StarterCannotResolve(s) ==
  /\ s.pc = "ready" /\ Fault("resolve")
  /\ StarterBecomes(s, "failing") /\ tlock' = [tlock EXCEPT ![s.t] = FALSE]
  /\ UNCHANGED <<tasks, waitTasks, dlock, status, gen, watcher, fet, doneCh, stored,
                 client, notifies>>

\* fetcher.Start, which refuses a finished download and drops the result of a
\* cycle that was paused or failed.
StarterStarts(s) ==
  /\ s.pc = "start"
  /\ IF fet[s.t] = "done"
     THEN /\ StarterBecomes(s, "failing") /\ tlock' = [tlock EXCEPT ![s.t] = FALSE]
          /\ UNCHANGED <<fet, doneCh>>
     ELSE /\ StarterBecomes(s, "save") /\ UNCHANGED tlock
          /\ fet' = [fet EXCEPT ![s.t] = "running"]
          /\ doneCh' = [doneCh EXCEPT ![s.t] =
                          IF fet[s.t] \in {"paused", "error"} THEN "empty" ELSE @]
  /\ UNCHANGED <<tasks, waitTasks, dlock, status, gen, watcher, stored, client, notifies,
                 budget>>

StarterSaves(s) ==
  /\ s.pc = "save"
  /\ \/ /\ stored' = stored \cup {s.t} /\ StarterBecomes(s, "watch") /\ UNCHANGED budget
     \/ /\ Fault("save") /\ StarterBecomes(s, "failing") /\ UNCHANGED stored
  /\ tlock' = [tlock EXCEPT ![s.t] = FALSE]
  /\ UNCHANGED <<tasks, waitTasks, dlock, status, gen, watcher, fet, doneCh, client,
                 notifies>>

\* Mutant: only a task that was just created gets a watcher.
StarterWatchesNew(s) ==
  /\ s.pc = "watch"
  /\ StarterEnds(s)
  /\ watcher' = IF watcher[s.t] # "none" \/ status[s.t] = "done" \/ ~s.create THEN watcher
                ELSE [watcher EXCEPT ![s.t] = "wait"]
  /\ UNCHANGED <<tasks, waitTasks, dlock, status, gen, tlock, fet, doneCh, stored, client,
                 notifies, budget>>

\* go watch(task): nothing to do if the task is watched already.
StarterWatches(s) ==
  /\ s.pc = "watch"
  /\ StarterEnds(s)
  /\ watcher' = IF watcher[s.t] # "none" \/ status[s.t] = "done" THEN watcher
                ELSE [watcher EXCEPT ![s.t] = "wait"]
  /\ UNCHANGED <<tasks, waitTasks, dlock, status, gen, tlock, fet, doneCh, stored, client,
                 notifies, budget>>

\* doOnError is called if the error is still that of the current run ...
StarterFails(s) ==
  /\ s.pc = "failing"
  /\ IF IsRunningGeneration(s.t, s.g) THEN StarterBecomes(s, "marking") ELSE StarterEnds(s)
  /\ UNCHANGED <<tasks, waitTasks, dlock, status, gen, tlock, watcher, fet, doneCh, stored,
                 client, notifies, budget>>

\* handleOnError up to the release of task.lock: whatever run is under way by
\* now is marked, and the record saved.
MarkError(t) ==
  /\ status' = [status EXCEPT ![t] = "error"]
  /\ gen' = [gen EXCEPT ![t] = @ + 1]
  /\ stored' = stored \cup {t}

StarterMarksError(s) ==
  /\ s.pc = "marking" /\ ~tlock[s.t]
  /\ IF status[s.t] = "running"
     THEN MarkError(s.t) /\ StarterBecomes(s, "failed")
     ELSE StarterEnds(s) /\ UNCHANGED <<status, gen, stored>>
  /\ UNCHANGED <<tasks, waitTasks, dlock, tlock, watcher, fet, doneCh, client, notifies,
                 budget>>

\* The rest of handleOnError, after task.lock.
StarterNotifies(s) ==
  /\ s.pc = "failed"
  /\ notifies' = IF status[s.t] = "error" THEN notifies + 1 ELSE notifies
  /\ StarterEnds(s)
  /\ UNCHANGED <<tasks, waitTasks, dlock, status, gen, tlock, watcher, fet, doneCh, stored,
                 client, budget>>

-----------------------------------------------------------------------------
(* The fetcher of task t and its watcher.                                  *)

FetcherEnds(t) ==
  /\ fet[t] = "running"
  /\ \/ /\ fet' = [fet EXCEPT ![t] = "done"]
        /\ doneCh' = [doneCh EXCEPT ![t] = IF @ = "empty" THEN "ok" ELSE @]
        /\ UNCHANGED budget
     \/ /\ Fault("download")
        /\ fet' = [fet EXCEPT ![t] = "error"]
        /\ doneCh' = [doneCh EXCEPT ![t] = IF @ = "empty" THEN "err" ELSE @]
  /\ UNCHANGED <<tasks, waitTasks, dlock, taskVars, tlock, watcher, stored, client, notifies>>

WatcherBecomes(t, pc) == watcher' = [watcher EXCEPT ![t] = pc]

\* fetcher.Wait returns.
WatcherReceives(t) ==
  /\ watcher[t] = "wait" /\ doneCh[t] # "empty"
  /\ doneCh' = [doneCh EXCEPT ![t] = "empty"]
  /\ WatcherBecomes(t, doneCh[t])
  /\ UNCHANGED <<tasks, waitTasks, dlock, taskVars, tlock, fet, stored, client, notifies,
                 budget>>

\* An error of a task that is paused or waiting by now is not reported.
WatcherFails(t) ==
  /\ watcher[t] = "err"
  /\ WatcherBecomes(t, IF status[t] \in {"pause", "wait"} THEN "leave" ELSE "marking")
  /\ UNCHANGED <<tasks, waitTasks, dlock, taskVars, tlock, fet, doneCh, stored, client,
                 notifies, budget>>

WatcherMarksError(t) ==
  /\ watcher[t] = "marking" /\ ~tlock[t]
  /\ IF status[t] = "running"
     THEN MarkError(t) /\ WatcherBecomes(t, "failed")
     ELSE WatcherBecomes(t, "recheck") /\ UNCHANGED <<status, gen, stored>>
  /\ UNCHANGED <<tasks, waitTasks, dlock, starters, tlock, fet, doneCh, client, notifies,
                 budget>>

\* The same for the watcher.
WatcherNotifies(t) ==
  /\ watcher[t] = "failed"
  /\ notifies' = IF status[t] = "error" THEN notifies + 1 ELSE notifies
  /\ WatcherBecomes(t, "recheck")
  /\ UNCHANGED <<tasks, waitTasks, dlock, taskVars, tlock, fet, doneCh, stored, client,
                 budget>>

\* A task that runs again keeps its watcher.
WatcherRechecks(t) ==
  /\ watcher[t] = "recheck"
  /\ WatcherBecomes(t, IF status[t] = "running" THEN "wait" ELSE "leave")
  /\ UNCHANGED <<tasks, waitTasks, dlock, taskVars, tlock, fet, doneCh, stored, client,
                 notifies, budget>>

\* markTaskDone.
WatcherMarksDone(t) ==
  /\ watcher[t] = "ok"
  /\ IF t \notin ToSet(tasks)
     THEN WatcherBecomes(t, "leave") /\ UNCHANGED <<status, gen>>
     ELSE /\ ~tlock[t]
          /\ IF status[t] = "running"
             THEN /\ status' = [status EXCEPT ![t] = "done"]
                  /\ gen' = [gen EXCEPT ![t] = @ + 1]
                  /\ WatcherBecomes(t, "finish")
             ELSE WatcherBecomes(t, "leave") /\ UNCHANGED <<status, gen>>
  /\ UNCHANGED <<tasks, waitTasks, dlock, starters, tlock, fet, doneCh, stored, client,
                 notifies, budget>>

WatcherFinishes(t) ==
  /\ watcher[t] = "finish"
  /\ stored' = stored \cup {t}
  /\ notifies' = notifies + 1
  /\ WatcherBecomes(t, "leave")
  /\ UNCHANGED <<tasks, waitTasks, dlock, taskVars, tlock, fet, doneCh, client, budget>>

\* The deferred watchedTasks.Delete.
WatcherLeaves(t) ==
  /\ watcher[t] = "leave"
  /\ WatcherBecomes(t, "none")
  /\ UNCHANGED <<tasks, waitTasks, dlock, taskVars, tlock, fet, doneCh, stored, client,
                 notifies, budget>>

-----------------------------------------------------------------------------
(* Pausing a task: preparePause and runPauseHandler, called by Pause and    *)
(* pauseAll (doPause) and by Continue (doPauseForScheduling).              *)

\* The task client c is pausing: Continue walks over d.tasks, the others over
\* the tasks they selected.
Victim(c) == IF client[c].op = "continue" THEN Head(client[c].scan) ELSE Head(client[c].todo)

\* The call after it is through with its victim; Continue counts in left how
\* many more tasks it has to pause.
Onward(c, queued) ==
  LET k == client[c]
      n == IF queued THEN k.left - 1 ELSE k.left
  IN  IF k.op = "continue"
      THEN [k EXCEPT !.scan = Tail(@), !.left = n,
                     !.pc = IF n = 0 \/ Len(k.scan) = 1 THEN "queue" ELSE "scan"]
      ELSE IF Len(k.todo) > 1 THEN [k EXCEPT !.todo = Tail(@), !.pc = "prepare"]
      ELSE Idle

\* Mutant: Pause does not tell the queue that it freed a slot.
NotifyNever(c, k) == UNCHANGED notifies

\* Pause calls notifyRunning when it returns.
NotifyOnReturn(c, k) ==
  notifies' = IF client[c].op = "pause" /\ k = Idle THEN notifies + 1 ELSE notifies

\* Mutant: a task that finished since it was selected is paused.
AlreadyPaused(t) == status[t] = "pause"

\* The early return of preparePause.
NothingToPause(t) == status[t] \in {"pause", "done", "error"}

PreparePause(c) ==
  /\ client[c].pc = "prepare"
  /\ LET t == Victim(c)
         k == Onward(c, FALSE)
     IN  IF NothingToPause(t)
         THEN Moves(c, k) /\ NotifyOnReturn(c, k) /\ UNCHANGED <<status, gen>>
         ELSE /\ status' = [status EXCEPT ![t] = "pause"]
              /\ gen' = [gen EXCEPT ![t] = @ + 1]
              /\ Moves(c, [client[c] EXCEPT !.pc = "pausing", !.g = gen[t] + 1])
              /\ UNCHANGED notifies
  /\ UNCHANGED <<tasks, waitTasks, dlock, starters, tlock, watcher, fet, doneCh, stored,
                 budget>>

\* task.lock, and the check that the pause is still wanted.
HandlePause(c) ==
  /\ client[c].pc = "pausing"
  /\ LET t == Victim(c)
         k == Onward(c, FALSE)
     IN  /\ ~tlock[t]
         /\ IF IsPausedGeneration(t, client[c].g)
            THEN /\ tlock' = [tlock EXCEPT ![t] = TRUE]
                 /\ Moves(c, [client[c] EXCEPT !.pc = "stopping"])
                 /\ UNCHANGED notifies
            ELSE Moves(c, k) /\ NotifyOnReturn(c, k) /\ UNCHANGED tlock
  /\ UNCHANGED <<tasks, waitTasks, dlock, taskVars, watcher, fet, doneCh, stored, budget>>

\* fetcher.Pause.
StopFetcher(c) ==
  /\ client[c].pc = "stopping"
  /\ fet' = [fet EXCEPT ![Victim(c)] = "paused"]
  /\ Moves(c, [client[c] EXCEPT !.pc = "saving"])
  /\ UNCHANGED <<tasks, waitTasks, dlock, taskVars, tlock, watcher, doneCh, stored, notifies,
                 budget>>

\* saveTask and the end of the pause.  A task that was paused to make room
\* waits, unless it was continued in the meantime.
PauseSaves(c) ==
  /\ client[c].pc = "saving"
  /\ LET t == Victim(c)
         queued == /\ client[c].op = "continue"
                   /\ status[t] = "pause" /\ gen[t] = client[c].g
         k == Onward(c, queued)
     IN  /\ stored' = stored \cup {t}
         /\ tlock' = [tlock EXCEPT ![t] = FALSE]
         /\ IF queued
            THEN status' = [status EXCEPT ![t] = "wait"] /\ waitTasks' = Append(waitTasks, t)
            ELSE UNCHANGED <<status, waitTasks>>
         /\ Moves(c, k) /\ NotifyOnReturn(c, k)
  /\ UNCHANGED <<tasks, dlock, gen, starters, watcher, fet, doneCh, budget>>

-----------------------------------------------------------------------------
(* Pause and pauseAll.                                                     *)

CallPause(c, S) ==
  /\ client[c].pc = "idle" /\ dlock = None
  /\ LET sel == Selected(S, {"pause", "error", "done"})
     IN  /\ sel # <<>> /\ Calls("pause")
         /\ Moves(c, [Idle EXCEPT !.op = "pause", !.pc = "prepare", !.todo = sel])
  /\ UNCHANGED <<tasks, waitTasks, dlock, taskVars, tlock, watcher, fet, doneCh, stored,
                 notifies>>

CallPauseAll(c) ==
  /\ client[c].pc = "idle" /\ dlock = None /\ Calls("pauseAll")
  /\ waitTasks' = <<>>
  /\ Moves(c, [Idle EXCEPT !.op = "pauseAll", !.pc = "range"])
  /\ UNCHANGED <<tasks, dlock, taskVars, tlock, watcher, fet, doneCh, stored, notifies>>

\* It ranges over d.tasks as it is once d.lock is released.
PauseAllRanges(c) ==
  /\ client[c].pc = "range"
  /\ Moves(c, IF tasks = <<>> THEN Idle
               ELSE [client[c] EXCEPT !.pc = "prepare", !.todo = tasks])
  /\ UNCHANGED <<tasks, waitTasks, dlock, taskVars, tlock, watcher, fet, doneCh, stored,
                 notifies, budget>>

-----------------------------------------------------------------------------
(* Continue, continueAll and ContinueBatch.                                *)

CallContinue(c, S) ==
  /\ client[c].pc = "idle" /\ dlock = None
  /\ LET sel == Selected(S, {"running", "done"})
     IN  /\ sel # <<>> /\ Calls("continue")
         /\ Moves(c, [Idle EXCEPT !.op = "continue", !.pc = "lock", !.todo = sel])
  /\ UNCHANGED <<tasks, waitTasks, dlock, taskVars, tlock, watcher, fet, doneCh, stored,
                 notifies>>

NeedRunning(c) ==
  IF Len(client[c].todo) < MaxRunning THEN Len(client[c].todo) ELSE MaxRunning

ContinueLocks(c) ==
  /\ client[c].pc = "lock" /\ dlock = None
  /\ dlock' = c
  /\ LET needPause == NeedRunning(c) - remainRunningCount
     IN  Moves(c, IF needPause > 0 /\ tasks # <<>>
                  THEN [client[c] EXCEPT !.pc = "scan", !.scan = tasks, !.left = needPause]
                  ELSE [client[c] EXCEPT !.pc = "queue"])
  /\ UNCHANGED <<tasks, waitTasks, taskVars, tlock, watcher, fet, doneCh, stored, notifies,
                 budget>>

\* Holding d.lock, Continue pauses the first running tasks.
ContinueScans(c) ==
  /\ client[c].pc = "scan"
  /\ Moves(c, IF status[Victim(c)] = "running" THEN [client[c] EXCEPT !.pc = "prepare"]
               ELSE Onward(c, FALSE))
  /\ UNCHANGED <<tasks, waitTasks, dlock, taskVars, tlock, watcher, fet, doneCh, stored,
                 notifies, budget>>

\* What does not fit waits, whatever happened to it since it was selected.
ContinueQueues(c) ==
  /\ client[c].pc = "queue"
  /\ LET n     == NeedRunning(c)
         todo  == client[c].todo
         rest  == SubSeq(todo, n + 1, Len(todo))
     IN  /\ status' = [t \in Task |-> IF t \in ToSet(rest) THEN "wait" ELSE status[t]]
         /\ waitTasks' = waitTasks \o rest
         /\ Moves(c, [Idle EXCEPT !.op = "continue", !.pc = "start",
                                  !.start = SubSeq(todo, 1, n)])
  /\ dlock' = None
  /\ UNCHANGED <<tasks, gen, starters, tlock, watcher, fet, doneCh, stored, notifies, budget>>

\* doStart for one task after the other, without d.lock.
ContinueStarts(c) ==
  /\ client[c].pc = "start"
  /\ DoStart(Head(client[c].start))
  /\ Moves(c, IF Len(client[c].start) = 1 THEN Idle ELSE [client[c] EXCEPT !.start = Tail(@)])
  /\ UNCHANGED <<tasks, waitTasks, dlock, tlock, watcher, fet, doneCh, stored, notifies,
                 budget>>

CallContinueAll(c) ==
  /\ client[c].pc = "idle" /\ dlock = None /\ tasks # <<>> /\ Calls("continueAll")
  /\ dlock' = c
  /\ Moves(c, [Idle EXCEPT !.op = "continueAll", !.pc = "each", !.todo = tasks,
                            !.left = remainRunningCount])
  /\ UNCHANGED <<tasks, waitTasks, taskVars, tlock, watcher, fet, doneCh, stored, notifies>>

\* Mutant: a running task is queued like the others.
LeftAloneDone(t) == status[t] = "done"

\* What continueAll skips.
LeftAlone(t) == status[t] \in {"running", "done"}

\* The loop of continueAll reads the status of a task ...
ContinueAllReads(c) ==
  /\ client[c].pc = "each" /\ client[c].todo # <<>>
  /\ LET k == client[c]
         t == Head(k.todo)
     IN  Moves(c, IF LeftAlone(t) THEN [k EXCEPT !.todo = Tail(@)]
                  ELSE IF Len(k.start) < k.left
                  THEN [k EXCEPT !.todo = Tail(@), !.start = Append(@, t)]
                  ELSE [k EXCEPT !.pc = "demote"])
  /\ UNCHANGED <<tasks, waitTasks, dlock, taskVars, tlock, watcher, fet, doneCh, stored,
                 notifies, budget>>

\* ... and writes it, neither under statusLock.
ContinueAllDemotes(c) ==
  /\ client[c].pc = "demote"
  /\ LET t == Head(client[c].todo)
     IN  /\ status' = [status EXCEPT ![t] = "wait"]
         /\ waitTasks' = Append(waitTasks, t)
  /\ Moves(c, [client[c] EXCEPT !.todo = Tail(@), !.pc = "each"])
  /\ UNCHANGED <<tasks, dlock, gen, starters, tlock, watcher, fet, doneCh, stored, notifies,
                 budget>>

ContinueAllUnlocks(c) ==
  /\ client[c].pc = "each" /\ client[c].todo = <<>>
  /\ dlock' = None
  /\ Moves(c, IF client[c].start = <<>> THEN Idle ELSE [client[c] EXCEPT !.pc = "start"])
  /\ UNCHANGED <<tasks, waitTasks, taskVars, tlock, watcher, fet, doneCh, stored, notifies,
                 budget>>

CallContinueBatch(c, S) ==
  /\ client[c].pc = "idle" /\ dlock = None
  /\ Selected(S, {}) # <<>> /\ Calls("continueBatch")
  /\ Moves(c, [Idle EXCEPT !.op = "continueBatch", !.pc = "start", !.start = Selected(S, {})])
  /\ UNCHANGED <<tasks, waitTasks, dlock, taskVars, tlock, watcher, fet, doneCh, stored,
                 notifies>>

-----------------------------------------------------------------------------
(* Delete.                                                                 *)

CallDelete(c, S) ==
  /\ client[c].pc = "idle" /\ dlock = None
  /\ Selected(S, {}) # <<>> /\ Calls("delete")
  /\ Moves(c, [Idle EXCEPT !.op = "delete", !.pc = "remove", !.todo = Selected(S, {})])
  /\ UNCHANGED <<tasks, waitTasks, dlock, taskVars, tlock, watcher, fet, doneCh, stored,
                 notifies>>

\* One entry of each task goes from each of the lists.
DeleteRemoves(c) ==
  /\ client[c].pc = "remove" /\ dlock = None
  /\ LET First(seq) == {i \in DOMAIN seq : /\ seq[i] \in ToSet(client[c].todo)
                                           /\ \A j \in 1 .. i - 1 : seq[j] # seq[i]}
         Without(seq) == Entries(seq, DOMAIN seq \ First(seq))
     IN  tasks' = Without(tasks) /\ waitTasks' = Without(waitTasks)
  /\ Moves(c, [client[c] EXCEPT !.pc = "erase"])
  /\ UNCHANGED <<dlock, taskVars, tlock, watcher, fet, doneCh, stored, notifies, budget>>

CallDeleteAll(c) ==
  /\ client[c].pc = "idle" /\ dlock = None /\ tasks # <<>> /\ Calls("deleteAll")
  /\ tasks' = <<>> /\ waitTasks' = <<>>
  /\ Moves(c, [Idle EXCEPT !.op = "deleteAll", !.pc = "erase", !.todo = tasks])
  /\ UNCHANGED <<dlock, taskVars, tlock, watcher, fet, doneCh, stored, notifies>>

\* doDelete takes no lock of the task: records first ...
DeleteErases(c) ==
  /\ client[c].pc = "erase"
  /\ stored' = stored \ {Head(client[c].todo)}
  /\ Moves(c, [client[c] EXCEPT !.pc = "close"])
  /\ UNCHANGED <<tasks, waitTasks, dlock, taskVars, tlock, watcher, fet, doneCh, notifies,
                 budget>>

\* ... then fetcher.Close, which pauses.  Delete calls notifyRunning when it
\* returns, deleteAll does not.
DeleteCloses(c) ==
  /\ client[c].pc = "close"
  /\ fet' = [fet EXCEPT ![Head(client[c].todo)] = "paused"]
  /\ LET last == Len(client[c].todo) = 1
     IN  /\ Moves(c, IF last THEN Idle ELSE [client[c] EXCEPT !.todo = Tail(@), !.pc = "erase"])
         /\ notifies' = IF last /\ client[c].op = "delete" THEN notifies + 1 ELSE notifies
  /\ UNCHANGED <<tasks, waitTasks, dlock, taskVars, tlock, watcher, doneCh, stored, budget>>

-----------------------------------------------------------------------------

Starter(s) ==
  \/ StarterLocks(s) \/ StarterChecks(s) \/ StarterCannotResolve(s) \/ StarterStarts(s)
  \/ StarterSaves(s) \/ StarterWatches(s) \/ StarterFails(s) \/ StarterMarksError(s)
  \/ StarterNotifies(s)

Watcher(t) ==
  \/ WatcherReceives(t) \/ WatcherFails(t) \/ WatcherMarksError(t) \/ WatcherNotifies(t) \/ WatcherRechecks(t)
  \/ WatcherMarksDone(t) \/ WatcherFinishes(t) \/ WatcherLeaves(t)

\* A call of client c begins.
NewCall(c) ==
  \/ \E t \in Task : CreateStores(c, t)
  \/ CallPauseAll(c) \/ CallContinueAll(c) \/ CallDeleteAll(c)
  \/ \E S \in SUBSET Task : \/ CallPause(c, S) \/ CallContinue(c, S)
                            \/ CallContinueBatch(c, S) \/ CallDelete(c, S)

\* A call goes on.
Proceed(c) ==
  \/ CreateQueues(c)
  \/ PreparePause(c) \/ HandlePause(c) \/ StopFetcher(c) \/ PauseSaves(c)
  \/ PauseAllRanges(c)
  \/ ContinueLocks(c) \/ ContinueScans(c) \/ ContinueQueues(c) \/ ContinueStarts(c)
  \/ ContinueAllReads(c) \/ ContinueAllDemotes(c) \/ ContinueAllUnlocks(c)
  \/ DeleteRemoves(c) \/ DeleteErases(c) \/ DeleteCloses(c)

Next ==
  \/ \E c \in budget.callers : NewCall(c)
  \/ \E c \in Client : Proceed(c)
  \/ NotifyRuns
  \/ \E s \in starters : Starter(s)
  \/ \E t \in Task : Watcher(t) \/ FetcherEnds(t)

Spec == Init /\ [][Next]_vars

\* The scheduler of the Go runtime runs every goroutine that can run, and a
\* download ends one way or the other.  Nothing makes a client call.
Fairness ==
  /\ \A c \in Client : WF_vars(Proceed(c))
  /\ WF_vars(NotifyRuns)
  /\ WF_vars(\E s \in starters : Starter(s))
  /\ \A t \in Task : WF_vars(Watcher(t)) /\ WF_vars(FetcherEnds(t))

FairSpec == Spec /\ Fairness

-----------------------------------------------------------------------------

\* Nothing is under way but downloads.
Quiet ==
  /\ \A c \in Client : client[c].pc = "idle"
  /\ notifies = 0 /\ starters = {}
  /\ \A t \in Task : \/ watcher[t] = "none"
                     \/ watcher[t] = "wait" /\ doneCh[t] = "empty"

\* At most MaxRunning tasks run.
RunningBound == Cardinality(Running) <= MaxRunning

\* No task is left waiting while there is room for it: every step that frees
\* a slot also sees to it that the slot is filled.
QueueIsServed ==
  Quiet /\ (\E t \in ToSet(tasks) : status[t] = "wait") => remainRunningCount <= 0

\* The status users see and the fetcher agree once nothing is under way: what is paused,
\* waiting or failed has stopped, what is running is downloading and has a watcher that
\* will learn how its download ends (the generations of doStart, preparePause and watch).
StatusIsTrue ==
  Quiet => \A t \in ToSet(tasks) :
             /\ (status[t] = "running") <=> (fet[t] = "running")
             /\ status[t] = "running" => watcher[t] = "wait"

\* A finished task stays finished, as long as nobody calls Continue or continueAll, which
\* queue what they found unfinished before.
DoneIsFinal ==
  [][budget.ops \cap {"continue", "continueAll"} = {} =>
       \A t \in Task : status[t] = "done" => status'[t] = "done"]_vars

\* One client makes all the calls, whichever they are.
OneCaller == \E c \in Client : budget.callers = {c}

\* Continue and continueAll take a running task out of that state only by pausing it, as
\* long as one call is made at a time.
NeverDemotedWhileRunning ==
  [][OneCaller =>
       \A t \in Task : status[t] = "running" => status'[t] # "wait"]_vars

\* Every API call returns: nobody waits for ever for d.lock or a task.lock.
CallsReturn == \A c \in Client : (client[c].pc # "idle") ~> (client[c].pc = "idle")

\* After any burst of calls the scheduler settles: no start handler, watcher or
\* notification is stuck behind a lock or a generation, so that what is said
\* above of quiet states comes true each time, and a waiting task gets its turn.
Settles == []<>Quiet

-----------------------------------------------------------------------------

\* What the types rest on.  A call has the tasks its next step is about; a task is in no
\* list before doCreate has given it a status, and one client creates it.
HasWork(k) ==
  /\ k.pc \in {"create", "lock", "scan", "queue", "prepare", "pausing", "stopping", "saving",
               "demote", "remove", "erase", "close"} => k.todo # <<>>
  /\ k.pc \in {"lock", "scan", "queue"} => k.op = "continue"
  /\ k.pc = "range" => k.op = "pauseAll"
  /\ k.pc \in {"each", "demote"} => k.op = "continueAll"
  /\ k.pc \in {"remove", "erase", "close"} => k.op \in {"delete", "deleteAll"}
  /\ k.pc = "start" => k.op \in {"continue", "continueAll", "continueBatch"}
  /\ k.pc \in {"scan", "prepare", "pausing", "stopping", "saving"} /\ k.op = "continue"
       => k.scan # <<>>
  /\ k.pc = "start" => k.start # <<>>

CallsHaveWork == \A c \in Client : HasWork(client[c])

Known == {t \in Task : status[t] # "ready"}

Items(k) == ToSet(k.todo) \cup ToSet(k.scan) \cup ToSet(k.start)

CreatedOnce ==
  /\ ToSet(tasks) \subseteq Known /\ ToSet(waitTasks) \subseteq Known
  /\ \A c \in Client : IF client[c].pc = "create"
                        THEN \E t \in Task \ Known : client[c].todo = <<t>>
                        ELSE Items(client[c]) \subseteq Known
  /\ \A c, d \in Client : /\ client[c].pc = "create" /\ client[d].pc = "create"
                          /\ client[c].todo = client[d].todo
                          => c = d

TypeInv == TypeOK /\ CallsHaveWork /\ CreatedOnce

\* Only methods of the setup are under way.
OpsAreAllowed == \A c \in Client : client[c].op \in budget.ops \cup {"none"}

\* Nobody calls a method that starts tasks after it has released d.lock, or at once.
WithoutContinue == budget.ops \cap {"continue", "continueAll", "continueBatch"} = {}

\* What the bound on running tasks rests on.
BoundInv == OpsAreAllowed /\ (WithoutContinue => RunningBound)

Pausing == {"prepare", "pausing", "stopping", "saving"}

\* A client that holds d.lock across steps.
Holds(k) == \/ k.pc \in {"scan", "queue", "each", "demote"}
            \/ k.pc \in Pausing /\ k.op = "continue"

\* Continue, when more tasks are selected than may run, has still to pause every task that
\* runs: left counts them, and the one that is being paused.
MakesRoom(k) ==
  /\ Running \subseteq ToSet(k.scan)
  /\ k.left >= Cardinality(Running) + IF k.pc \in Pausing \ {"prepare"} THEN 1 ELSE 0

SoleCall(c) ==
  LET k == client[c]
  IN  /\ Holds(k) => dlock = c
      /\ k.pc = "demote" => status[Head(k.todo)] # "running"
      /\ k.op = "continue" =>
           /\ k.pc # "start" => ToSet(k.todo) \subseteq ToSet(tasks)
           /\ k.pc \in Pausing \cup {"scan"} => ToSet(k.scan) \subseteq ToSet(tasks)
           /\ k.pc = "prepare" => status[Head(k.scan)] \in {"running", "done", "error"}
           /\ k.pc \in Pausing \ {"prepare"} => status[Head(k.scan)] # "running"
           /\ Len(k.todo) > MaxRunning =>
                /\ k.pc \in Pausing \cup {"scan"} => MakesRoom(k)
                /\ k.pc = "queue" => Running = {}

\* What NeverDemotedWhileRunning rests on.
SoleInv ==
  OneCaller => \A c \in Client : IF c \in budget.callers THEN SoleCall(c)
                                                        ELSE client[c].pc = "idle"

-----------------------------------------------------------------------------

\* What StatusIsTrue and QueueIsServed rest on: without Continue a task is started once.
Handlers(t) == {s \in starters : s.t = t}

\* doStart has not been called for it.
Unstarted(t) ==
  /\ status[t] \in {"ready", "wait", "pause"} /\ Handlers(t) = {}
  /\ watcher[t] = "none" /\ fet[t] \in {"idle", "paused"} /\ doneCh[t] = "empty"

\* What is being deleted has left the list.
DeletedIsGone ==
  \A c \in Client : client[c].pc \in {"erase", "close"} =>
    \A t \in ToSet(tasks) : t \notin ToSet(client[c].todo)

StartedOnce ==
  /\ IsInjective(waitTasks) /\ ToSet(waitTasks) \subseteq ToSet(tasks)
  /\ \A t \in Task : status[t] \in {"ready", "wait"} \/ t \in ToSet(waitTasks) => Unstarted(t)
  /\ \A r, s \in starters : r.t = s.t => r = s

\* Whoever is between task.lock and its release has the lock, and nobody else has.
Locked == {"ready", "start", "save"}
Stopping(c) == client[c].pc \in {"stopping", "saving"}

LocksAreHeld ==
  /\ \A s \in starters : s.pc \in Locked => tlock[s.t]
  /\ \A c \in Client : Stopping(c) =>
       /\ tlock[Victim(c)]
       /\ \A s \in Handlers(Victim(c)) : s.pc \notin Locked
       /\ \A d \in Client \ {c} : Stopping(d) => Victim(d) # Victim(c)

\* The result of a download is in doneCh as soon as it has ended.
ResultIsThere(t) ==
  <<fet[t], doneCh[t]>> \in {<<"running", "empty">>, <<"done", "ok">>, <<"error", "err">>}

\* Where a task that runs may be: in its start handler, before or after fetcher.Start, or
\* with its watcher.
RunningIsSound(t) ==
  \/ \E s \in Handlers(t) :
       /\ s.g = gen[t] /\ watcher[t] = "none"
       /\ \/ /\ s.pc \in {"queued", "ready", "start", "failing", "marking"}
             /\ fet[t] \in {"idle", "paused"} /\ doneCh[t] = "empty"
          \/ s.pc \in {"save", "watch"} /\ ResultIsThere(t)
  \/ /\ Handlers(t) = {}
     /\ \/ watcher[t] = "wait" /\ ResultIsThere(t)
        \/ watcher[t] = "ok" /\ fet[t] = "done"
        \/ watcher[t] \in {"err", "marking"} /\ fet[t] = "error"

\* A fetcher that runs, or is about to, although its task was paused is going to be paused.
PauseIsComing(t) ==
  (fet[t] = "running" \/ \E s \in Handlers(t) : s.pc = "start") =>
    \E c \in Client : /\ \/ client[c].pc = "stopping"
                         \/ (client[c].pc = "pausing" /\ client[c].g = gen[t])
                      /\ Victim(c) = t

PlaceIsSound(t) ==
  /\ status[t] = "running" => RunningIsSound(t)
  /\ status[t] = "pause" => PauseIsComing(t)
  /\ status[t] \in {"error", "done"} =>
       fet[t] # "running" /\ \A s \in Handlers(t) : s.pc = "failed"
  /\ \A c \in Client : Stopping(c) /\ Victim(c) = t /\ status[t] = "running" =>
       \E s \in Handlers(t) : s.pc = "queued"

OnceInv == WithoutContinue => StartedOnce /\ DeletedIsGone /\ LocksAreHeld

\* No save fails: a start handler whose save fails leaves its fetcher running.
SavesSucceed == "save" \notin budget.kinds

TruthInv == WithoutContinue /\ SavesSucceed => \A t \in ToSet(tasks) : PlaceIsSound(t)

\* Somebody is going to call notifyRunning.
WakeUpIsDue ==
  \/ notifies > 0
  \/ \E c \in Client : client[c].op \in {"pause", "delete"} /\ client[c].pc # "idle"
  \/ \E s \in starters : s.pc = "failed" /\ status[s.t] = "error"
  \/ \E t \in Task : \/ watcher[t] = "finish"
                     \/ watcher[t] = "failed" /\ status[t] = "error"

\* The methods that notify for every slot they free, if there is only one.
EachSlotNotifies == MaxRunning = 1 /\ budget.ops \subseteq {"create", "pause", "delete"}

QueueInv ==
  EachSlotNotifies =>
    /\ \A c \in Client : client[c].pc \in Pausing => client[c].op = "pause"
    /\ \A t \in ToSet(tasks) : status[t] = "wait" => t \in ToSet(waitTasks)
    /\ waitTasks # <<>> /\ Running = {} => WakeUpIsDue
=============================================================================
