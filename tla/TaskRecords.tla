----------------------------- MODULE TaskRecords -----------------------------
(***************************************************************************)
(* The durable records of one task (pkg/download/downloader.go, storage.go *)
(* and the snapshots of the HTTP FetcherManager).                          *)
(*                                                                         *)
(* A task is three records in three buckets (task, save, task_stats) and a *)
(* file.  They are written one by one: by the handlers that hold task.lock *)
(* (start, pause, patch, an error), by the watcher when the download is    *)
(* done, and by the tick loop, which saves after it let the lock go.  The  *)
(* process may die between any two writes, and Setup rebuilds the task     *)
(* from what it finds.                                                     *)
(*                                                                         *)
(* The fetcher is reduced to the number of leading bytes it has and counts *)
(* on; a byte of the file carries the source it came from, 0 for none.     *)
(***************************************************************************)
EXTENDS Integers, FiniteSets

CONSTANTS
  Len_,     \* bytes of the resource
  Setups    \* [known, cleans, prompt, apart, starts, pauses, patches, ticks, deletes,
            \*  crashes, faults, recovers]; see the README

VARIABLES
  setup,
  mem,      \* the task: [listed, status, gen, url, res, progress]
  fetch,    \* its fetcher: [pos, run]
  file,     \* [there, cells]
  db,       \* [task: {} or a record, save, stats: None or a position]
  pending,  \* handlers that wait for task.lock: [kind, gen]
  holder,   \* the one that has it: [kind, pc, gen]
  tick,     \* the save of the tick loop: [pc, save, rec]
  watch,    \* the watcher: [pc, rec]
  del,      \* doDelete: [pc, force]
  told      \* what listeners were last told of the end: "none", "done" or "error"

vars == <<setup, mem, fetch, file, db, pending, holder, tick, watch, del, told>>

None == -1
Byte == 1 .. Len_
Source == 1 .. 2
Status == {"running", "pause", "done", "error"}

NoFile == [there |-> FALSE, cells |-> [b \in Byte |-> 0]]
NoFetcher == [pos |-> 0, run |-> "none"]
Free == [kind |-> "none", pc |-> "none", gen |-> 0]

\* What a record of bucketTask keeps.
Rec == [status |-> mem.status, url |-> mem.url, res |-> mem.res]
NoRec == [status |-> "pause", url |-> 1, res |-> FALSE]
Quiet == [pc |-> "none", rec |-> NoRec]

\* What may still happen, and how the process is: see the README.
Setup == [known : BOOLEAN, cleans : BOOLEAN, prompt : BOOLEAN, apart : BOOLEAN,
          starts : Nat, pauses : Nat, patches : Nat, ticks : Nat, deletes : Nat,
          crashes : Nat, faults : Nat, recovers : Nat]

ASSUME LenAssumption == Len_ \in Nat
ASSUME SetupsAssumption == Setups \subseteq Setup

Record == [status : Status, url : Source, res : BOOLEAN]
Position == 0 .. Len_
Task == [listed : BOOLEAN, status : Status, gen : Nat, url : Source, res : BOOLEAN,
         progress : Position]
Fetcher == [pos : Position, run : {"none", "idle", "run", "done", "failed", "over"}]
Target == [there : BOOLEAN, cells : [Byte -> {0} \cup Source]]
Buckets ==
  [task : SUBSET Record, save : {None} \cup Position, stats : {None} \cup Position]
Waiting == [kind : {"start", "pause", "error"}, gen : Nat]
Holder == [kind : {"none", "start", "pause", "patch", "error", "failure"}, gen : Nat,
           pc : {"none", "resolve", "start", "pause", "stats", "save", "task", "ask", "remove",
                 "fresh", "erase", "put"}]
Saving == [pc : {"none", "store", "save", "task"}, save : Position, rec : Record]
Watching == [pc : {"none", "wait", "mark", "stats", "put", "error", "errs"}, rec : Record]
Deletion ==
  [pc : {"none", "task", "save", "stats", "close", "file", "gone"}, force : BOOLEAN]

TypeOK ==
  /\ mem \in Task /\ fetch \in Fetcher /\ file \in Target
  /\ db \in Buckets /\ Cardinality(db.task) <= 1
  /\ pending \subseteq Waiting /\ \A p \in pending : p.gen <= mem.gen
  /\ holder \in Holder /\ tick \in Saving /\ watch \in Watching /\ del \in Deletion
  /\ told \in {"none", "done", "error"}

Spend(what) == setup[what] > 0 /\ setup' = [setup EXCEPT ![what] = @ - 1]

\* doCreate has stored the task and called doStart.
Init ==
  /\ setup \in Setups
  /\ mem = [listed |-> TRUE, status |-> "running", gen |-> 1, url |-> 1, res |-> setup.known,
            progress |-> 0]
  /\ fetch = [NoFetcher EXCEPT !.run = "idle"]
  /\ file = NoFile
  /\ db = [task |-> {[status |-> "pause", url |-> 1, res |-> setup.known]},
           save |-> None, stats |-> None]
  /\ pending = {[kind |-> "start", gen |-> 1]}
  /\ holder = Free /\ tick = [pc |-> "none", save |-> 0, rec |-> NoRec]
  /\ watch = Quiet /\ del = [pc |-> "none", force |-> FALSE]
  /\ told = "none"

-----------------------------------------------------------------------------
(* Storage: one bucket, one transaction.                                   *)

Put(bucket, v) == db' = [db EXCEPT ![bucket] = v]
Erased(d, bucket) == [d EXCEPT ![bucket] = IF bucket = "task" THEN {} ELSE None]

\* Mutant: what is not stored is read like what is.
GetAnyway(bucket, default) == db[bucket]

Get(bucket, default) == IF db[bucket] = None THEN default ELSE db[bucket]

-----------------------------------------------------------------------------
(* Restoring a fetcher, and the fetcher itself.                            *)

\* restoreFetcher: the snapshot of bucketSave, which it does not consume.
Restored ==
  IF fetch.run # "none" THEN fetch
  ELSE [pos |-> Get("save", 0), run |-> "idle"]

\* Start of the HTTP fetcher: a target that is not there is created; what the snapshot
\* counts is not asked for again.
Opened == [file EXCEPT !.there = TRUE]

FetcherWrites ==
  /\ fetch.run = "run" /\ fetch.pos < Len_
  /\ file' = [file EXCEPT !.cells[fetch.pos + 1] = mem.url]
  /\ fetch' = [fetch EXCEPT !.pos = @ + 1]
  /\ UNCHANGED <<setup, mem, db, pending, holder, tick, watch, del, told>>

FetcherEnds ==
  /\ fetch.run = "run"
  /\ \/ fetch.pos = Len_ /\ fetch' = [fetch EXCEPT !.run = "done"] /\ UNCHANGED setup
     \/ fetch.pos < Len_ /\ Spend("faults") /\ fetch' = [fetch EXCEPT !.run = "failed"]
  /\ UNCHANGED <<mem, file, db, pending, holder, tick, watch, del, told>>

-----------------------------------------------------------------------------
(* What clients ask for.                                                   *)

\* doStart: the status changes at once, the handler waits for task.lock.
Start ==
  /\ Spend("starts")
  /\ mem.listed /\ mem.status \notin {"running", "done"}
  /\ fetch' = Restored
  /\ mem' = [mem EXCEPT !.status = "running", !.gen = @ + 1]
  /\ pending' = pending \cup {[kind |-> "start", gen |-> mem.gen + 1]}
  /\ told' = "none"
  /\ UNCHANGED <<file, db, holder, tick, watch, del>>

\* preparePause.
Pause ==
  /\ Spend("pauses")
  /\ mem.listed /\ mem.status = "running"
  /\ mem' = [mem EXCEPT !.status = "pause", !.gen = @ + 1]
  /\ pending' = pending \cup {[kind |-> "pause", gen |-> mem.gen + 1]}
  /\ UNCHANGED <<fetch, file, db, holder, tick, watch, del, told>>

\* Patch: another URL of the same bytes, so nothing here but the save.
Patch ==
  /\ Spend("patches")
  /\ mem.listed /\ holder = Free
  /\ fetch' = Restored
  /\ holder' = [kind |-> "patch", pc |-> "save", gen |-> mem.gen]
  /\ UNCHANGED <<mem, file, db, pending, tick, watch, del, told>>

-----------------------------------------------------------------------------
(* The handlers, under task.lock.                                          *)

Holds(kind, pc) == holder.kind = kind /\ holder.pc = pc
Goes(pc) == holder' = [holder EXCEPT !.pc = pc]
Current(p) == mem.gen = p.gen

\* The generation is compared when the lock is there; a stale handler does nothing.
HandlerLocks ==
  \E p \in pending :
    /\ holder = Free /\ p.kind \in {"start", "pause"}
    /\ pending' = pending \ {p}
    /\ holder' = IF Current(p)
                 THEN [kind |-> p.kind, gen |-> p.gen,
                       pc |-> IF p.kind = "pause" THEN "pause"
                              ELSE IF mem.res THEN "start" ELSE "resolve"]
                 ELSE Free
    /\ UNCHANGED <<setup, mem, fetch, file, db, tick, watch, del, told>>

HandlerResolves ==
  /\ Holds("start", "resolve")
  /\ \/ mem' = [mem EXCEPT !.res = TRUE] /\ Goes("start") /\ UNCHANGED <<setup, pending>>
     \/ /\ Spend("faults")
        /\ holder' = Free
        /\ pending' = IF Current(holder)
                      THEN pending \cup {[kind |-> "error", gen |-> holder.gen]} ELSE pending
        /\ UNCHANGED mem
  /\ UNCHANGED <<fetch, file, db, tick, watch, del, told>>

\* Start of a fetcher that has ended, and has not been paused since, is an error.
Ended == fetch.run \in {"done", "over"}

HandlerStarts ==
  /\ Holds("start", "start")
  /\ IF Current(holder) /\ ~Ended
     THEN file' = Opened /\ fetch' = [fetch EXCEPT !.run = "run"] /\ Goes("stats")
     ELSE holder' = Free /\ UNCHANGED <<file, fetch>>
  /\ pending' = IF Current(holder) /\ Ended
                THEN pending \cup {[kind |-> "error", gen |-> holder.gen]} ELSE pending
  /\ UNCHANGED <<setup, mem, db, tick, watch, del, told>>

HandlerPauses ==
  /\ Holds("pause", "pause")
  /\ fetch' = [fetch EXCEPT !.run = "idle"]
  /\ Goes("stats")
  /\ UNCHANGED <<setup, mem, file, db, pending, tick, watch, del, told>>

\* captureTaskStats with force.
HandlerStats ==
  /\ holder.pc = "stats"
  /\ Put("stats", fetch.pos)
  /\ Goes(IF holder.kind \in {"error", "failure"} THEN "put" ELSE "save")
  /\ UNCHANGED <<setup, mem, fetch, file, pending, tick, watch, del, told>>

\* saveTask: Store and bucketSave first ...
HandlerSaves ==
  /\ holder.pc = "save"
  /\ Put("save", fetch.pos)
  /\ Goes("task")
  /\ UNCHANGED <<setup, mem, fetch, file, pending, tick, watch, del, told>>

\* ... then bucketTask.  A start handler leaves a watcher behind, unless there is one.
HandlerEnds ==
  /\ holder.pc = "task"
  /\ Put("task", {Rec})
  /\ holder' = Free
  /\ watch' = IF holder.kind = "start" /\ watch.pc = "none" THEN [watch EXCEPT !.pc = "wait"]
              ELSE watch
  /\ UNCHANGED <<setup, mem, fetch, file, pending, tick, del, told>>

-----------------------------------------------------------------------------
(* handleOnError, for the watcher ("error") and a start handler            *)
(* ("failure").                                                            *)

\* markTaskError.
Marks == mem.status = "running"

ErrorBegins(kind) ==
  /\ holder = Free
  /\ IF Marks
     THEN /\ mem' = [mem EXCEPT !.status = "error", !.gen = @ + 1]
          /\ holder' = [kind |-> kind, pc |-> "ask", gen |-> mem.gen + 1]
     ELSE UNCHANGED <<mem, holder>>

WatcherErrs ==
  /\ watch.pc = "error"
  /\ ErrorBegins("error")
  /\ watch' = IF Marks THEN [watch EXCEPT !.pc = "errs"] ELSE Quiet
  /\ UNCHANGED <<setup, fetch, file, db, pending, tick, del, told>>

HandlerErrs ==
  \E p \in pending :
    /\ p.kind = "error"
    /\ ErrorBegins("failure")
    /\ pending' = pending \ {p}
    /\ UNCHANGED <<setup, fetch, file, db, tick, watch, del, told>>

\* An extension may replace the source of a failed download and continue the task.
ExtensionAsked ==
  /\ holder.pc = "ask"
  /\ \/ Goes("stats") /\ UNCHANGED <<setup, mem, pending>>
     \/ /\ Spend("recovers") /\ holder.kind = "error" /\ mem.url = 1
        /\ mem' = [mem EXCEPT !.url = 2, !.status = "running", !.gen = @ + 1]
        /\ pending' = pending \cup {[kind |-> "start", gen |-> mem.gen + 1]}
        /\ Goes("remove")
  /\ UNCHANGED <<fetch, file, db, tick, watch, del, told>>

\* resetTaskFetcher: the target goes first ...
ResetRemoves ==
  /\ holder.pc = "remove"
  /\ file' = NoFile
  /\ Goes("fresh")
  /\ UNCHANGED <<setup, mem, fetch, db, pending, tick, watch, del, told>>

\* ... then the fetcher and the resource ...
Fresh == [mem |-> [mem EXCEPT !.res = FALSE, !.progress = 0],
          fetch |-> [NoFetcher EXCEPT !.run = "idle"]]

ResetRenews ==
  /\ holder.pc = "fresh"
  /\ mem' = Fresh.mem /\ fetch' = Fresh.fetch
  /\ Goes("erase")
  /\ UNCHANGED <<setup, file, db, pending, tick, watch, del, told>>

\* ... then what is stored of them.
SaveErased(d) == Erased(Erased(d, "stats"), "save")

ResetErases ==
  /\ holder.pc = "erase"
  /\ db' = SaveErased(db)
  /\ Goes("stats")
  /\ UNCHANGED <<setup, mem, fetch, file, pending, tick, watch, del, told>>

\* A task that is still failed is stored and announced; the watcher of one that runs again
\* waits for the new fetcher.
ErrorEnds ==
  /\ holder.pc = "put"
  /\ IF mem.status = "error"
     THEN Put("task", {Rec}) /\ told' = "error"
     ELSE UNCHANGED <<db, told>>
  /\ holder' = Free
  /\ watch' = IF holder.kind = "failure" THEN watch
              ELSE IF mem.status = "running" THEN [watch EXCEPT !.pc = "wait"] ELSE Quiet
  /\ UNCHANGED <<setup, mem, fetch, file, pending, tick, del>>

-----------------------------------------------------------------------------
(* The watcher of a download that ends.                                    *)

Still == mem.listed

\* A result is taken once.
WatcherHears ==
  /\ watch.pc = "wait"
  /\ \/ /\ fetch.run = "done"
        /\ fetch' = [fetch EXCEPT !.run = "over"]
        /\ watch' = [watch EXCEPT !.pc = IF Still THEN "mark" ELSE "none"]
     \/ /\ fetch.run = "failed"
        /\ fetch' = [fetch EXCEPT !.run = "idle"]
        /\ watch' = [watch EXCEPT !.pc = IF mem.status = "pause" THEN "none" ELSE "error"]
  /\ UNCHANGED <<setup, mem, file, db, pending, holder, tick, del, told>>

\* markTaskDone.
WatcherMarks ==
  /\ watch.pc = "mark" /\ holder = Free
  /\ IF mem.status = "running"
     THEN /\ mem' = [mem EXCEPT !.status = "done", !.gen = @ + 1, !.progress = Len_]
          /\ watch' = [watch EXCEPT !.pc = "stats"]
     ELSE watch' = Quiet /\ UNCHANGED mem
  /\ UNCHANGED <<setup, fetch, file, db, pending, holder, tick, del, told>>

WatcherStats ==
  /\ watch.pc = "stats"
  /\ Put("stats", fetch.pos)
  /\ watch' = [pc |-> "put", rec |-> Rec]
  /\ UNCHANGED <<setup, mem, fetch, file, pending, holder, tick, del, told>>

\* The clone is written, and EventKeyDone follows.
WatcherPuts ==
  /\ watch.pc = "put"
  /\ Put("task", {watch.rec})
  /\ watch' = Quiet
  /\ told' = "done"
  /\ UNCHANGED <<setup, mem, fetch, file, pending, holder, tick, del>>

-----------------------------------------------------------------------------
(* The tick loop.                                                          *)

\* One look under task.lock; only progress is worth a checkpoint.
TickLooks ==
  /\ tick.pc = "none" /\ Spend("ticks")
  /\ mem.listed /\ holder = Free /\ mem.status = "running" /\ fetch.run # "none"
  /\ mem' = [mem EXCEPT !.progress = fetch.pos]
  /\ Put("stats", fetch.pos)
  /\ tick' = [tick EXCEPT !.pc = IF fetch.pos # mem.progress THEN "store" ELSE "none"]
  /\ UNCHANGED <<fetch, file, pending, holder, watch, del, told>>

\* saveTask without the lock: what is stored was read before.
TickStores ==
  /\ tick.pc = "store"
  /\ tick' = [tick EXCEPT !.pc = "save", !.save = fetch.pos]
  /\ UNCHANGED <<setup, mem, fetch, file, db, pending, holder, watch, del, told>>

TickSaves ==
  /\ tick.pc = "save"
  /\ Put("save", tick.save)
  /\ tick' = [tick EXCEPT !.pc = "task", !.rec = Rec]
  /\ UNCHANGED <<setup, mem, fetch, file, pending, holder, watch, del, told>>

TickEnds ==
  /\ tick.pc = "task"
  /\ Put("task", {tick.rec})
  /\ tick' = [pc |-> "none", save |-> 0, rec |-> NoRec]
  /\ UNCHANGED <<setup, mem, fetch, file, pending, holder, watch, del, told>>

-----------------------------------------------------------------------------
(* Delete.                                                                 *)

\* Mutant: the target before the records.
FileFirst == <<"file", "task", "save", "stats", "close">>

\* doDelete: the records one by one, the fetcher, the target.
DeleteOrder == <<"task", "save", "stats", "close", "file">>

\* No handler is under way.
Settled == pending = {} /\ holder = Free /\ tick.pc = "none" /\ watch.pc \in {"none", "wait"}

\* The task leaves d.tasks first.
DeleteBegins ==
  /\ Spend("deletes")
  /\ mem.listed /\ del.pc = "none" /\ (setup.prompt => Settled)
  /\ mem' = [mem EXCEPT !.listed = FALSE]
  /\ \E force \in BOOLEAN : del' = [pc |-> DeleteOrder[1], force |-> force]
  /\ UNCHANGED <<fetch, file, db, pending, holder, tick, watch, told>>

DeleteGoesOn ==
  LET i == CHOOSE n \in 1 .. 5 : DeleteOrder[n] = del.pc
      Is(pc) == del.pc = pc
  IN  /\ del.pc \notin {"none", "gone"}
      /\ del' = [del EXCEPT !.pc = IF i = 5 THEN "gone" ELSE DeleteOrder[i + 1]]
      /\ db' = IF del.pc \in DOMAIN db THEN Erased(db, del.pc) ELSE db
      /\ fetch' = IF Is("close") /\ fetch.run = "run" THEN [fetch EXCEPT !.run = "idle"]
                  ELSE fetch
      /\ file' = IF Is("file") /\ del.force /\ mem.res THEN NoFile ELSE file
      /\ UNCHANGED <<setup, mem, pending, holder, tick, watch, told>>

-----------------------------------------------------------------------------
(* The death of the process, and Setup.                                    *)

Reloaded(status) == IF status \in {"done", "error"} THEN status ELSE "pause"

\* Records and file of a task whose source is replaced disagree: the target is gone and
\* its snapshot is not, or the new snapshot stands beside the old task.
HalfReplaced ==
  \/ holder.pc \in {"fresh", "erase"}
  \/ /\ holder.pc = "task" \/ tick.pc = "task"
     /\ \E r \in db.task : r.url # mem.url

\* cleanupNonExistingTasks looks for the target of every task with a resource.
FileIsMissing(r) == setup.cleans /\ r.res /\ ~file.there

Crash ==
  /\ Spend("crashes")
  /\ setup.apart => ~HalfReplaced
  /\ \/ /\ db.task = {}
        /\ mem' = [mem EXCEPT !.listed = FALSE]
        /\ del' = [del EXCEPT !.pc = "gone"]
     \/ \E r \in db.task :
          /\ mem' = [mem EXCEPT !.listed = ~FileIsMissing(r), !.status = Reloaded(r.status),
                                !.url = r.url, !.res = r.res, !.progress = 0]
          /\ del' = [pc |-> IF FileIsMissing(r) THEN DeleteOrder[1] ELSE "none", force |-> FALSE]
  /\ fetch' = NoFetcher
  /\ pending' = {} /\ holder' = Free /\ watch' = Quiet
  /\ tick' = [pc |-> "none", save |-> 0, rec |-> NoRec]
  /\ UNCHANGED <<file, db, told>>

Handler ==
  \/ HandlerLocks \/ HandlerResolves \/ HandlerStarts \/ HandlerPauses \/ HandlerStats
  \/ HandlerSaves \/ HandlerEnds \/ HandlerErrs
Error == ExtensionAsked \/ ResetRemoves \/ ResetRenews \/ ResetErases \/ ErrorEnds
Watcher == WatcherErrs \/ WatcherHears \/ WatcherMarks \/ WatcherStats \/ WatcherPuts
Tick == TickStores \/ TickSaves \/ TickEnds

\* A prompt tick loop is not overtaken while it saves, but the process may die.
Overtakes == setup.prompt => tick.pc = "none"

Next ==
  \/ Overtakes /\ (\/ FetcherWrites \/ FetcherEnds \/ Start \/ Pause \/ Patch \/ Handler
                   \/ Error \/ Watcher \/ TickLooks \/ DeleteBegins \/ DeleteGoesOn)
  \/ Tick
  \/ Crash

Spec == Init /\ [][Next]_vars

-----------------------------------------------------------------------------

\* A fetcher counts on bytes only if the file has them, all of the task's source: after
\* any sequence of pauses, deaths and fresh sources (restoreFetcher, resetTaskFetcher,
\* saveTask).
CountedBytesAreThere ==
  mem.listed /\ fetch.run \in {"run", "done", "over"} =>
    /\ file.there
    /\ \A b \in 1 .. fetch.pos : file.cells[b] = mem.url

\* A task that is done has its whole file, in memory and in its record (markTaskDone,
\* saveTask, Setup).
DoneIsWhole ==
  mem.listed /\ (mem.status = "done" \/ \E r \in db.task : r.status = "done") =>
    \A b \in Byte : file.cells[b] = file.cells[1] /\ file.cells[b] # 0

\* What listeners were told of the end of a task is what a restart finds, whoever saved
\* last (watch, handleOnError, saveTask of the tick loop).
EndIsStored ==
  mem.listed /\ told # "none" => \E r \in db.task : r.status = told

\* When nobody is at work the record says of the task what Setup would have to know, and
\* the snapshot counts no byte the file does not have.
RecordFollowsTask ==
  Settled /\ mem.listed /\ del.pc = "none" =>
    \E r \in db.task :
      /\ Reloaded(r.status) = Reloaded(mem.status) /\ r.url = mem.url /\ r.res = mem.res
      /\ \A b \in Byte : b <= db.save => file.cells[b] = r.url

\* A task that was deleted has no record (doDelete, watch).
DeletedIsGone == del.pc = "gone" => db.task = {}

\* After any sequence of starts, pauses, failures, replaced sources, deletions and deaths
\* of the process the records say what is true of the file, and what listeners were told
\* is what a restart finds (saveTask, watch, resetTaskFetcher, doDelete, Setup).
RecordsAreTrue ==
  /\ CountedBytesAreThere /\ DoneIsWhole /\ RecordFollowsTask /\ EndIsStored /\ DeletedIsGone
=============================================================================
