----------------------------- MODULE HlsFetcher -----------------------------
(***************************************************************************)
(* The HLS fetcher (internal/protocol/hls): one run per Start, with a      *)
(* producer, several segment workers and a supervisor that merges the      *)
(* staged segments; the journal that makes a staged segment count after a  *)
(* restart; Pause and Close, which wait for the supervisor; Patch, which   *)
(* drops the plan; the engine's snapshots and the death of the process.    *)
(*                                                                         *)
(* A playlist is one of two versions, and so is the content fetched for    *)
(* it.  Staging folders are numbered in the order of their random names.   *)
(***************************************************************************)
EXTENDS Integers, Sequences, FiniteSets

CONSTANTS Segments,   \* number of segments of a playlist
          Workers,    \* config.SegmentConnections
          MaxRetries, \* config.MaxRetries
          MaxSid,     \* bound: staging folders
          Budgets,    \* what the environment may do in one behaviour
          Nil         \* nil

ASSUME SegmentsAssumption == Segments \in Nat \ {0}
ASSUME WorkersAssumption == Workers \in Nat \ {0}
ASSUME RetriesAssumption == MaxRetries \in Nat
ASSUME SidAssumption == MaxSid \in Nat \ {0}

Seg == 1 .. Segments
Worker == 1 .. Workers
Sid == 1 .. MaxSid
Version == 1 .. 2
Plan == [sid : Sid, hash : Version]
Output == [Seg -> Version]
Result == [run : Nat, ok : BOOLEAN, hash : Version]   \* hash: of the plan the run had

ASSUME NilAssumption ==
  Nil \notin Plan /\ Nil \notin Version /\ Nil \notin Output /\ Nil \notin Result

\* starts: bound on runs; prompt: Start comes only after the watcher has taken
\* the result of the run before; vanish: staged files somebody else deletes.
Budget == [starts : Nat, pauses : Nat, patches : Nat, closes : Nat, deaths : Nat,
           faults : Nat, vanish : Nat, prompt : BOOLEAN]

ASSUME BudgetsAssumption == Budgets \subseteq Budget

VARIABLES
  url,      \* meta.Req.URL, as the version it serves
  res,      \* meta.Res is not nil
  plan,     \* f.state: staging folder and fingerprint, or Nil
  closed,   \* f.closed
  nextSid,  \* the next random staging folder
  saved,    \* the records of the task in bucketSave and bucketTask
  staged,   \* content of the segment files of every staging folder
  journals, \* journal.json of every staging folder
  lost,     \* segment files somebody else has deleted since the last Start
  target,   \* content of the output file, or Nil
  run,      \* f.activeRun, with the position of its supervisor
  worker,   \* its segment workers
  late,     \* results of supervisors that have detached their run
  doneCh,   \* f.DoneCh
  lastDone, \* f.lastStats.SegmentsDone
  op,       \* the Pause or Close that waits, with the number of its run
  status,   \* the task's status, as far as it decides about calls
  got,      \* the last result the watcher took while the task was running
  budget

disk == <<staged, journals, lost, target>>
task == <<url, res, plan, closed, nextSid>>
calls == <<op, status, got>>
vars == <<task, saved, disk, run, worker, late, doneCh, lastDone, calls, budget>>

-----------------------------------------------------------------------------

Record == [plan : Plan \cup {Nil}, url : Version, res : BOOLEAN]
Journal == [hash : Version \cup {Nil}, done : SUBSET Seg]

\* The positions of the supervisor: waiting for the workers, and in merge.
Phase == {"none", "work", "merge", "remove", "rename", "merged", "report"}

Run == [no : Nat, phase : Phase, cancelled : BOOLEAN, plan : Plan \cup {Nil},
        journal : SUBSET Seg, base : 0 .. Segments, count : 0 .. Segments,
        fails : 0 .. Segments, pending : SUBSET Seg, out : Output \cup {Nil},
        ok : BOOLEAN]

Idle == [at |-> "gone", seg |-> 0, tries |-> 0]

TypeOK ==
  /\ url \in Version /\ res \in BOOLEAN /\ closed \in BOOLEAN
  /\ plan \in Plan \cup {Nil}
  /\ nextSid \in 1 .. MaxSid + 1
  /\ saved \in Record
  /\ staged \in [Sid -> [Seg -> Version \cup {Nil}]]
  /\ journals \in [Sid -> Journal]
  /\ lost \subseteq Sid \X Seg
  /\ target \in Output \cup {Nil}
  /\ run \in Run
  /\ worker \in [Worker -> [at : {"idle", "fetch", "put", "journal", "gone"},
                            seg : 0 .. Segments, tries : 0 .. MaxRetries]]
  /\ late \subseteq Result
  /\ doneCh \in Seq(Result) /\ Len(doneCh) <= 1
  /\ lastDone \in 0 .. Segments
  /\ op \in [kind : {"none", "pause", "close"}, run : Nat]
  /\ status \in {"idle", "running", "done", "deleted"}
  /\ got \in Result \cup {Nil}
  /\ budget \in Budget

-----------------------------------------------------------------------------
(* What the fetcher derives from its state.                                *)

Active == run.phase # "none"
Free == op.kind = "none"

\* The segments a journal proves finished: it must name the plan, and the file
\* must be there with the size it records.
Finished(p) ==
  IF journals[p.sid].hash = p.hash
  THEN {s \in journals[p.sid].done : staged[p.sid][s] # Nil}
  ELSE {}

\* Mutant: the journal is not consulted.
PendingAlways(p) == Seg

\* prepareRun: everything else is pending.
PendingOf(p) == Seg \ Finished(p)

\* Stats and Progress: the active run's counters, or the last known ones.
SegmentsDone == IF Active THEN run.base + run.count ELSE lastDone

FreshPlan == [sid |-> nextSid, hash |-> url]
EmptyFolder == [s \in Seg |-> Nil]
EmptyJournal == [hash |-> Nil, done |-> {}]

\* os.RemoveAll of a staging folder.
RemoveStaging(sid) ==
  /\ staged' = [staged EXCEPT ![sid] = EmptyFolder]
  /\ journals' = [journals EXCEPT ![sid] = EmptyJournal]

Spend(what) == budget[what] > 0 /\ budget' = [budget EXCEPT ![what] = @ - 1]

\* clearActiveRun: its counters become the last known ones.
NoRun == [run EXCEPT !.phase = "none"]
ClearActiveRun ==
  /\ run' = NoRun
  /\ lastDone' = run.base + run.count

InitRun == [no |-> 0, phase |-> "none", cancelled |-> FALSE, plan |-> Nil,
            journal |-> {}, base |-> 0, count |-> 0, fails |-> 0,
            pending |-> {}, out |-> Nil, ok |-> FALSE]

\* A task is created with a resolved fetcher, or resolves when it starts.  Its
\* record has the resource, its fetcher state is not stored yet.
Init ==
  /\ url = 1 /\ closed = FALSE
  /\ res \in BOOLEAN
  /\ plan = IF res THEN [sid |-> 1, hash |-> 1] ELSE Nil
  /\ nextSid = IF res THEN 2 ELSE 1
  /\ saved = [plan |-> Nil, url |-> 1, res |-> res]
  /\ staged = [i \in Sid |-> EmptyFolder]
  /\ journals = [i \in Sid |-> EmptyJournal]
  /\ lost = {} /\ target = Nil
  /\ run = InitRun
  /\ worker = [w \in Worker |-> Idle]
  /\ late = {} /\ doneCh = <<>> /\ lastDone = 0
  /\ op = [kind |-> "none", run |-> 0]
  /\ status = "idle" /\ got = Nil
  /\ budget \in Budgets

-----------------------------------------------------------------------------
(* The engine's calls.  task.lock serialises them; only Pause and Close    *)
(* wait for another goroutine, and are in "op" while they do.              *)

\* Resolve: a fresh plan with a fresh staging folder, pinned at once.
Resolve ==
  /\ Free /\ status = "idle" /\ ~res /\ nextSid <= MaxSid
  /\ plan' = FreshPlan
  /\ nextSid' = nextSid + 1
  /\ res' = TRUE
  /\ UNCHANGED <<url, closed, saved, disk, run, worker, late, doneCh, lastDone,
                 calls, budget>>

\* What Start checks, and the plan it runs: a restored task may have a resource
\* and no plan, and gets a new one.
MayStart ==
  /\ Free /\ status = "idle" /\ ~closed /\ ~Active /\ res
  /\ plan = Nil => nextSid <= MaxSid
  /\ budget.prompt => doneCh = <<>> /\ late = {}
  /\ IF plan # Nil
     THEN UNCHANGED <<plan, nextSid>>
     ELSE plan' = FreshPlan /\ nextSid' = nextSid + 1

\* launchWorkers: no more workers than pending segments.
Launched(pending) ==
  [w \in Worker |-> IF w <= Cardinality(pending)
                    THEN [at |-> "idle", seg |-> 0, tries |-> 0] ELSE Idle]

Start ==
  /\ MayStart /\ Spend("starts")
  /\ LET pending == PendingOf(plan')
         known == IF journals[plan'.sid].hash = plan'.hash
                  THEN journals[plan'.sid].done ELSE {}
     IN  /\ run' = [InitRun EXCEPT !.no = run.no + 1, !.phase = "work",
                                   !.plan = plan', !.journal = known,
                                   !.base = Segments - Cardinality(pending),
                                   !.pending = pending]
         /\ worker' = Launched(pending)
  /\ status' = "running"
  /\ lost' = {}
  /\ UNCHANGED <<url, res, closed, saved, staged, journals, target, late, doneCh,
                 lastDone, op, got>>

\* prepareRun fails: the new plan stays, the run is never published.
StartFails ==
  /\ MayStart /\ Spend("faults")
  /\ UNCHANGED <<url, res, closed, saved, disk, run, worker, late, doneCh, lastDone,
                 calls>>

\* Pause: the task's status first, then the run is cancelled and waited for.
PauseBegins ==
  /\ Free /\ status = "running" /\ Spend("pauses")
  /\ status' = "idle"
  /\ IF Active
     THEN /\ run' = [run EXCEPT !.cancelled = TRUE]
          /\ op' = [kind |-> "pause", run |-> run.no]
     ELSE UNCHANGED <<run, op>>
  /\ UNCHANGED <<task, saved, disk, worker, late, doneCh, lastDone, got>>

\* run.done is closed when the supervisor has sent its result or has exited.
RunGone(no) ==
  /\ Active => run.no # no
  /\ \A r \in late : r.run # no

PauseEnds ==
  /\ op.kind = "pause" /\ RunGone(op.run)
  /\ op' = [kind |-> "none", run |-> 0]
  /\ UNCHANGED <<task, saved, disk, run, worker, late, doneCh, lastDone, status, got,
                 budget>>

\* Patch with another URL drops the plan and its staging folder, unless a run
\* is active: that of a task which is done, or whose result is still on its way
\* to the watcher, is dropped too.
Patch ==
  /\ Free /\ ~Active /\ status # "deleted" /\ Spend("patches")
  /\ \E v \in Version \ {url} : url' = v
  /\ IF plan # Nil THEN RemoveStaging(plan.sid) ELSE UNCHANGED <<staged, journals>>
  /\ plan' = Nil /\ res' = FALSE
  /\ UNCHANGED <<closed, nextSid, saved, lost, target, run, worker, late, doneCh,
                 lastDone, calls>>

\* Close, on deletion: the run is waited for before its folder is removed.
CloseBegins ==
  /\ Free /\ ~closed /\ Spend("closes")
  /\ closed' = TRUE /\ status' = "deleted"
  /\ run' = [run EXCEPT !.cancelled = Active]
  /\ op' = [kind |-> "close", run |-> IF Active THEN run.no ELSE 0]
  /\ UNCHANGED <<url, res, plan, nextSid, saved, disk, worker, late, doneCh, lastDone,
                 got>>

CloseEnds ==
  /\ op.kind = "close" /\ RunGone(op.run)
  /\ op' = [kind |-> "none", run |-> 0]
  /\ IF plan # Nil THEN RemoveStaging(plan.sid) ELSE UNCHANGED <<staged, journals>>
  /\ UNCHANGED <<task, saved, lost, target, run, worker, late, doneCh, lastDone, status,
                 got, budget>>

-----------------------------------------------------------------------------
(* The workers.  The producer is the set "pending": it hands out the next  *)
(* index in plan order until it has none or the run is cancelled.          *)

Working(w, at) == run.phase = "work" /\ worker[w].at = at
Goes(w, at) == worker' = [worker EXCEPT ![w].at = at]
Rest(w) == worker' = [worker EXCEPT ![w] = [at |-> "idle", seg |-> 0, tries |-> 0]]
Leaves(w) == worker' = [worker EXCEPT ![w] = Idle]

runUnchanged == UNCHANGED <<task, saved, late, doneCh, lastDone, calls>>

\* After a cancellation the select may still pick the queue.
Take(w) ==
  /\ Working(w, "idle")
  /\ \E s \in run.pending :
       /\ \A r \in run.pending : s <= r
       /\ worker' = [worker EXCEPT ![w] = [at |-> "fetch", seg |-> s, tries |-> 0]]
       /\ run' = [run EXCEPT !.pending = @ \ {s}]
  /\ runUnchanged /\ UNCHANGED <<disk, budget>>

Quit(w) ==
  /\ Working(w, "idle") /\ (run.cancelled \/ run.pending = {})
  /\ Leaves(w)
  /\ runUnchanged /\ UNCHANGED <<disk, run, budget>>

\* fetchSegmentData and decryption succeed, a cancellation that comes late
\* included.
Fetched(w) ==
  /\ Working(w, "fetch")
  /\ Goes(w, "put")
  /\ runUnchanged /\ UNCHANGED <<disk, run, budget>>

\* A request or its key fails and is tried again.
Retries(w) ==
  /\ Working(w, "fetch") /\ worker[w].tries < MaxRetries /\ ~run.cancelled
  /\ Spend("faults")
  /\ worker' = [worker EXCEPT ![w].tries = @ + 1]
  /\ runUnchanged /\ UNCHANGED <<disk, run>>

\* It fails for good: the last attempt, a bad key, padding or length.
FetchFails(w) ==
  /\ Working(w, "fetch") /\ ~run.cancelled
  /\ Spend("faults")
  /\ run' = [run EXCEPT !.fails = @ + 1]
  /\ Rest(w)
  /\ runUnchanged /\ UNCHANGED disk

FetchCancelled(w) ==
  /\ Working(w, "fetch") /\ run.cancelled
  /\ Leaves(w)
  /\ runUnchanged /\ UNCHANGED <<disk, run, budget>>

\* storeSegment: the file is written aside and renamed, then the journal.
Put(w) ==
  /\ Working(w, "put")
  /\ staged' = [staged EXCEPT ![run.plan.sid][worker[w].seg] = run.plan.hash]
  /\ lost' = lost \ {<<run.plan.sid, worker[w].seg>>}
  /\ Goes(w, "journal")
  /\ runUnchanged /\ UNCHANGED <<journals, target, run, budget>>

PutFails(w) ==
  /\ Working(w, "put") /\ Spend("faults")
  /\ run' = [run EXCEPT !.fails = @ + 1]
  /\ Rest(w)
  /\ runUnchanged /\ UNCHANGED disk

\* saveJournal writes the whole map, so a failure is made good by the next one.
SaveJournal(w) ==
  /\ Working(w, "journal")
  /\ LET done == run.journal \cup {worker[w].seg}
     IN  /\ journals' = [journals EXCEPT ![run.plan.sid] =
                           [hash |-> run.plan.hash, done |-> done]]
         /\ run' = [run EXCEPT !.journal = done, !.count = @ + 1]
  /\ Rest(w)
  /\ runUnchanged /\ UNCHANGED <<staged, lost, target, budget>>

JournalFails(w) ==
  /\ Working(w, "journal") /\ Spend("faults")
  /\ run' = [run EXCEPT !.journal = @ \cup {worker[w].seg}, !.fails = @ + 1]
  /\ Rest(w)
  /\ runUnchanged /\ UNCHANGED disk

WorkerStep(w) ==
  \/ Take(w) \/ Quit(w) \/ Fetched(w) \/ Retries(w) \/ FetchFails(w)
  \/ FetchCancelled(w) \/ Put(w) \/ PutFails(w) \/ SaveJournal(w) \/ JournalFails(w)

-----------------------------------------------------------------------------
(* The supervisor: supervise and merge.                                    *)

Supervising(phase) == run.phase = phase
Turns(phase) == run' = [run EXCEPT !.phase = phase]
Reports(ok) == run' = [run EXCEPT !.phase = "report", !.ok = ok]

supUnchanged == UNCHANGED <<task, saved, worker, doneCh, calls>>

\* Mutant: the producer does not look at the context, and blocks once the
\* workers have left.
JoinsProducer ==
  /\ Supervising("work") /\ \A w \in Worker : worker[w].at = "gone"
  /\ run.pending = {}
  /\ CASE run.cancelled -> ClearActiveRun
       [] ~run.cancelled /\ run.fails > 0 -> Reports(FALSE) /\ UNCHANGED lastDone
       [] OTHER -> Turns("merge") /\ UNCHANGED lastDone
  /\ supUnchanged /\ UNCHANGED <<disk, late, budget>>

\* wg.Wait has returned.
Joins ==
  /\ Supervising("work") /\ \A w \in Worker : worker[w].at = "gone"
  /\ CASE run.cancelled -> ClearActiveRun
       [] ~run.cancelled /\ run.fails > 0 -> Reports(FALSE) /\ UNCHANGED lastDone
       [] OTHER -> Turns("merge") /\ UNCHANGED lastDone
  /\ supUnchanged /\ UNCHANGED <<disk, late, budget>>

\* Mutant: a segment that cannot be read is skipped.
NothingMissing == FALSE

MissingSegments == \E s \in Seg : staged[run.plan.sid][s] = Nil

\* The segments are read in plan order and written to a part file.
MergeReads ==
  /\ Supervising("merge")
  /\ IF MissingSegments THEN Reports(FALSE)
     ELSE run' = [run EXCEPT !.phase = "remove", !.out = staged[run.plan.sid]]
  /\ supUnchanged /\ UNCHANGED <<disk, late, lastDone, budget>>

\* Creating, writing or closing the part file, or removing the target, fails.
MergeFails ==
  /\ run.phase \in {"merge", "remove"} /\ Spend("faults")
  /\ Reports(FALSE)
  /\ supUnchanged /\ UNCHANGED <<disk, late, lastDone>>

MergeRemoves ==
  /\ Supervising("remove")
  /\ target' = Nil
  /\ Turns("rename")
  /\ supUnchanged /\ UNCHANGED <<staged, journals, lost, late, lastDone, budget>>

MergeRenames ==
  /\ Supervising("rename")
  /\ target' = run.out
  /\ Turns("merged")
  /\ supUnchanged /\ UNCHANGED <<staged, journals, lost, late, lastDone, budget>>

\* Mutant: the error of the rename is dropped.
RenameIgnored ==
  /\ Supervising("rename") /\ Spend("faults")
  /\ Reports(TRUE)
  /\ supUnchanged /\ UNCHANGED <<disk, late, lastDone>>

\* The old target is gone by now.
RenameFails ==
  /\ Supervising("rename") /\ Spend("faults")
  /\ Reports(FALSE)
  /\ supUnchanged /\ UNCHANGED <<disk, late, lastDone>>

\* Paused in the meantime: the staging folder stays for the next run.
Merged ==
  /\ Supervising("merged")
  /\ IF run.cancelled
     THEN ClearActiveRun /\ UNCHANGED <<staged, journals>>
     ELSE RemoveStaging(run.plan.sid) /\ Reports(TRUE) /\ UNCHANGED lastDone
  /\ supUnchanged /\ UNCHANGED <<lost, target, late, budget>>

\* clearActiveRun comes first, the send after it: a new run may begin between.
Detaches ==
  /\ Supervising("report")
  /\ ClearActiveRun
  /\ late' = late \cup {[run |-> run.no, ok |-> run.ok, hash |-> run.plan.hash]}
  /\ supUnchanged /\ UNCHANGED <<disk, budget>>

\* The send does not block: with a result in the channel, this one is dropped.
Sends ==
  /\ \E r \in late :
       /\ late' = late \ {r}
       /\ doneCh' = IF doneCh = <<>> THEN <<r>> ELSE doneCh
  /\ UNCHANGED <<task, saved, disk, run, worker, lastDone, calls, budget>>

Supervise ==
  \/ Joins \/ MergeReads \/ MergeFails \/ MergeRemoves \/ MergeRenames \/ RenameFails
  \/ Merged \/ Detaches \/ Sends

\* The engine's watcher.  It discards a result that arrives while the task is paused,
\* and a success once a Patch has dropped the resource: the task stays running then.
Discarded == status # "running" \/ (Head(doneCh).ok /\ ~res)

WatcherTakes ==
  /\ doneCh # <<>>
  /\ doneCh' = <<>>
  /\ IF Discarded THEN UNCHANGED <<status, got>>
     ELSE /\ got' = Head(doneCh)
          /\ status' = IF Head(doneCh).ok THEN "done" ELSE "idle"
  /\ UNCHANGED <<task, saved, disk, run, worker, late, lastDone, op, budget>>

\* A task restored from its records is a paused one (Setup).
Restarts(r) ==
  /\ saved' = r /\ plan' = r.plan /\ url' = r.url /\ res' = r.res
  /\ run' = [InitRun EXCEPT !.no = run.no]
  /\ worker' = [w \in Worker |-> Idle]
  /\ late' = {} /\ doneCh' = <<>> /\ lastDone' = 0
  /\ op' = [kind |-> "none", run |-> 0]
  /\ status' = "idle" /\ got' = Nil
  /\ UNCHANGED <<closed, nextSid, disk>>

Snapshot == [plan |-> plan, url |-> url, res |-> res]

\* The Patch came after the watcher's look at the resource: markTaskDone calls it on nil
\* and the process dies, with the records that Patch has written.
WatcherPanics ==
  /\ doneCh # <<>> /\ status = "running" /\ Head(doneCh).ok /\ ~res
  /\ Restarts(Snapshot)
  /\ UNCHANGED budget

-----------------------------------------------------------------------------
(* The records, the death of the process, and what others do to the disk.  *)

\* saveTask, after Start, Pause and Patch and by the periodic checkpoint.  It
\* matters only if a death follows.
Save ==
  /\ budget.deaths > 0 /\ status # "deleted" /\ saved # Snapshot
  /\ saved' = Snapshot
  /\ UNCHANGED <<task, disk, run, worker, late, doneCh, lastDone, calls, budget>>

\* The process dies, maybe between the two writes of saveTask.
Die ==
  /\ Spend("deaths") /\ status \in {"idle", "running"} /\ ~closed
  /\ \E r \in {saved, [saved EXCEPT !.plan = plan]} : Restarts(r)

\* A staged file disappears: the folder is beside the user's files.
Vanishes ==
  /\ plan # Nil /\ Spend("vanish")
  /\ \E s \in Seg :
       /\ staged[plan.sid][s] # Nil
       /\ staged' = [staged EXCEPT ![plan.sid][s] = Nil]
       /\ lost' = lost \cup {<<plan.sid, s>>}
  /\ UNCHANGED <<task, saved, journals, target, run, worker, late, doneCh, lastDone,
                 calls>>

Calls ==
  \/ Resolve \/ Start \/ StartFails \/ PauseBegins \/ Patch \/ CloseBegins

Returns == PauseEnds \/ CloseEnds

Next ==
  \/ Calls \/ Returns
  \/ \E w \in Worker : WorkerStep(w)
  \/ Supervise
  \/ WatcherTakes \/ WatcherPanics
  \/ Save \/ Die \/ Vanishes

Spec == Init /\ [][Next]_vars

\* The goroutines run when they can.  Nothing makes the engine call, a request
\* fail or the process die.
WorkerGoesOn(w) ==
  Take(w) \/ Quit(w) \/ Fetched(w) \/ FetchCancelled(w) \/ Put(w) \/ SaveJournal(w)

SupervisorGoesOn ==
  Joins \/ MergeReads \/ MergeRemoves \/ MergeRenames \/ Merged \/ Detaches

Fairness ==
  /\ \A w \in Worker : WF_vars(WorkerGoesOn(w))
  /\ WF_vars(SupervisorGoesOn)
  /\ WF_vars(Sends) /\ WF_vars(WatcherTakes) /\ WF_vars(Returns)

FairSpec == Spec /\ Fairness

-----------------------------------------------------------------------------
(* Properties.                                                             *)

\* The output file is absent or one playlist, whole and in order: merge never
\* lets anybody see a part of it, whatever failed before (merge, storeSegment).
TargetIsWhole ==
  target # Nil => \E v \in Version : target = [s \in Seg |-> v]

\* A task that is reported as done has its output, of the plan its last run had; this is
\* the plan the fetcher holds, unless a Patch has dropped it since.  It is so although
\* runs were paused, failed, patched or killed before (supervise, prepareRun,
\* dropPlanLocked).
Whole(v) == [s \in Seg |-> v]
OutputOf(r) == target = Whole(r.hash) /\ (plan # Nil => plan.hash = r.hash)

DoneMeansWhole == status = "done" => got # Nil /\ OutputOf(got)

\* No worker requests a segment that the journal of the plan already proves:
\* a segment finished before a pause, an error or a death stays finished
\* (loadJournal, prepareRun).
NoSegmentIsFetchedAgain ==
  \A w \in Worker : Working(w, "fetch") => worker[w].seg \notin Finished(run.plan)

\* Progress counts segments that are on disk and no other, each of them once
\* (hlsRun.downloaded, statsSnapshot).
ProgressIsOnDisk ==
  run.phase = "work" =>
    /\ SegmentsDone + run.fails <= Segments
    /\ SegmentsDone <= Cardinality({s \in Seg : \/ staged[run.plan.sid][s] # Nil
                                                \/ <<run.plan.sid, s>> \in lost})

\* Nothing writes into the staging folder once Close has removed it: workers,
\* journal and merge are gone by then (Close).
ClosedLeavesNothing ==
  closed /\ Free /\ plan # Nil =>
    staged[plan.sid] = EmptyFolder /\ journals[plan.sid] = EmptyJournal

\* The output file is absent or one playlist, whole and in order, and a task that is done
\* has the one its last run was for, although runs were paused, failed, patched or killed
\* before (merge, supervise, prepareRun).
OutputIsWhole == TargetIsWhole /\ DoneMeansWhole

\* What has been fetched stays fetched, and nothing else counts: no worker requests a
\* segment the journal proves, progress counts what is on disk, a closed task leaves no
\* staging folder (loadJournal, statsSnapshot, Close).
StagingIsKept == NoSegmentIsFetchedAgain /\ ProgressIsOnDisk /\ ClosedLeavesNothing

\* Every run ends, and so does every Pause and Close, which wait for one.
RunsEnd == (Active ~> ~Active) /\ (~Free ~> Free)

-----------------------------------------------------------------------------

\* What makes the properties inductive.

Busy(w) == worker[w].at \in {"fetch", "put", "journal"}

\* The segments of the run that nobody has finished or given up.
Due == run.pending \cup {worker[w].seg : w \in {v \in Worker : Busy(v)}}

\* No two workers are at the same segment, and none is at one that waits.  There are no
\* workers but those of a run that fetches.
WorkIsDealt ==
  /\ \A w \in Worker : Busy(w) => worker[w].seg \in Seg \ run.pending
  /\ \A v, w \in Worker : v # w /\ Busy(v) /\ Busy(w) => worker[v].seg # worker[w].seg
  /\ run.phase # "work" => \A w \in Worker : worker[w].at = "gone"

OnDisk == {s \in Seg : staged[run.plan.sid][s] # Nil \/ <<run.plan.sid, s>> \in lost}

\* What is counted is no longer due; what is counted as done has been on disk.
CountsAddUp ==
  /\ run.base + run.count + run.fails <= Cardinality(Seg \ Due)
  /\ run.phase = "work" => run.base + run.count <= Cardinality(OnDisk \ Due)
  /\ \A w \in Worker : worker[w].at = "journal" => worker[w].seg \in OnDisk

\* A run has the plan of the fetcher, which no call changes before it has ended.
RunHasPlan == Active => res /\ plan # Nil /\ run.plan = plan

\* A staging folder belongs to one plan for ever, whatever is restored, and holds nothing
\* but its segments.
Plans == {plan, saved.plan} \ {Nil}

FoldersAreOwn ==
  /\ \A p, q \in Plans : p.sid = q.sid => p.hash = q.hash
  /\ \A p \in Plans : p.sid < nextSid
  /\ \A p \in Plans, s \in Seg : staged[p.sid][s] \in {p.hash, Nil}
  /\ \A i \in Sid : i >= nextSid => staged[i] = EmptyFolder

\* The run knows what the journal on disk says, and nobody fetches what both know.
JournalIsKnown ==
  run.phase = "work" =>
    /\ journals[run.plan.sid].hash = run.plan.hash
         => journals[run.plan.sid].done \subseteq run.journal
    /\ \A s \in run.pending \cup
               {worker[w].seg : w \in {v \in Worker : worker[v].at \in {"fetch", "put"}}} :
         staged[run.plan.sid][s] = Nil \/ s \notin run.journal

\* The merge has the whole playlist of the plan, in its part file and then in the target.
MergeIsWhole ==
  /\ run.phase \in {"remove", "rename"} => run.out = Whole(run.plan.hash)
  /\ run.phase = "merged" \/ (run.phase = "report" /\ run.ok)
       => target = Whole(run.plan.hash)

\* Once Close has begun, no run begins, and it waits for the one there is.
ClosedIsOver ==
  /\ op.kind = "close" => closed
  /\ closed =>
       /\ status = "deleted" /\ op.kind # "pause"
       /\ op.kind = "close" => (Active => run.no = op.run)
       /\ Free => ~Active

\* With a prompt watcher a result is of the last run, and the output is still its.
ResultsAreFresh ==
  budget.prompt =>
    /\ late # {} \/ doneCh # <<>> \/ status = "done" => ~Active
    /\ status = "running" => \A r \in late : r.ok => OutputOf(r)
    /\ status = "running" /\ doneCh # <<>> => (Head(doneCh).ok => OutputOf(Head(doneCh)))

IInv ==
  /\ TypeOK
  /\ WorkIsDealt
  /\ CountsAddUp
  /\ RunHasPlan
  /\ FoldersAreOwn
  /\ JournalIsKnown
  /\ MergeIsWhole
  /\ ClosedIsOver
  /\ ResultsAreFresh
  /\ TargetIsWhole
  /\ budget.prompt => DoneMeansWhole
  /\ ClosedLeavesNothing
=============================================================================
