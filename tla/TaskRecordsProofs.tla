-------------------------- MODULE TaskRecordsProofs --------------------------
(***************************************************************************)
(* Proofs about TaskRecords, for a resource of any length and any number   *)
(* of calls, faults and deaths of the process.                             *)
(***************************************************************************)
EXTENDS TaskRecords, FiniteSetTheorems, TLAPS

USE LenAssumption, SetupsAssumption

-----------------------------------------------------------------------------
(* The invariants a prompt tick loop is enough for.                        *)

TypeInv == setup \in Setup /\ TypeOK /\ \A r, q \in db.task : r = q

\* What each holder of task.lock does, and the watcher that handles an error has the lock.
LockIsHeld ==
  /\ holder.kind = "none" <=> holder.pc = "none"
  /\ holder.kind = "none" => holder = Free
  /\ holder.kind = "start" => holder.pc \in {"resolve", "start", "stats", "save", "task"}
  /\ holder.kind = "pause" => holder.pc \in {"pause", "stats", "save", "task"}
  /\ holder.kind = "patch" => holder.pc \in {"save", "task"}
  /\ holder.kind = "failure" => holder.pc \in {"ask", "stats", "put"}
  /\ holder.kind = "error" => holder.pc \in {"ask", "remove", "fresh", "erase", "stats", "put"}
  /\ holder.kind = "error" <=> watch.pc = "errs"
  /\ holder.gen <= mem.gen

\* The tick loop saves what the task and its fetcher still are.
TickIsPrompt ==
  /\ tick.pc # "none" =>
       holder = Free /\ mem.listed /\ mem.status = "running" /\ fetch.run # "none"
  /\ tick.pc \in {"save", "task"} => tick.save = fetch.pos
  /\ tick.pc = "task" => tick.rec = Rec /\ db.save = fetch.pos

\* The task is what listeners were told, and so is its record.
EndIsKept ==
  /\ told # "none" => mem.status = told /\ \A r \in db.task : r.status = told
  /\ watch.pc \in {"stats", "put"} => mem.status = "done"
  /\ watch.pc = "put" => watch.rec.status = "done"
  /\ holder.kind = "error" => mem.status # "done"
  /\ holder.kind = "error" /\ holder.pc = "ask" => told = "none"

ListedIsStored == mem.listed => del.pc = "none" /\ db.task # {}

PromptInv ==
  setup.prompt => LockIsHeld /\ TickIsPrompt /\ EndIsKept /\ ListedIsStored

-----------------------------------------------------------------------------
(* The invariants of the other properties.                                 *)

\* A pending handler has the generation of the task.
Owed == \E p \in pending : p.gen = mem.gen

\* A handler begins to wait.
Adds(kind, gen) ==
  /\ \A p \in pending : p \in pending'
  /\ \A p \in pending' : p \in pending \/ (p.kind = kind /\ p.gen = gen)
  /\ \E p \in pending' : p.kind = kind /\ p.gen = gen

LEMMA Adding ==
  ASSUME NEW kind, NEW gen, pending' = pending \cup {[kind |-> kind, gen |-> gen]}
  PROVE  Adds(kind, gen)
<1>1. PICK r : r = [kind |-> kind, gen |-> gen]
  OBVIOUS
<1>2. r.kind = kind /\ r.gen = gen
  BY <1>1
<1>3. pending' = pending \cup {r}
  BY <1>1
<1> QED BY <1>2, <1>3 DEF Adds

\* What the newest generation stands for, and that whoever was overtaken is followed.
NewestActs ==
  /\ \A p \in pending : p.gen = mem.gen /\ p.kind \in {"start", "error"} => mem.status = "running"
  /\ holder.kind = "start" /\ holder.gen = mem.gen => mem.status = "running"
  /\ holder.kind \in {"error", "failure"} /\ holder.gen = mem.gen => mem.status = "error"
  /\ holder # Free => holder.gen = mem.gen \/ Owed

\* A download that ran has its resource, one that is over all its bytes.
WatcherKnows ==
  /\ holder.pc = "start" \/ fetch.run \in {"run", "done", "failed", "over"} => mem.res
  /\ fetch.run \in {"done", "over"} => fetch.pos = Len_
  /\ watch.pc \in {"mark", "stats", "put"} => mem.listed /\ mem.res /\ fetch.pos = Len_
  /\ watch.pc = "put" => watch.rec = Rec

\* Nobody but its download is at work on a task that is deleted.
DeletedIsQuiet ==
  /\ mem.listed <=> del.pc = "none"
  /\ del.pc \in {"none", "task"} <=> db.task # {}
  /\ ~mem.listed =>
       /\ pending = {} /\ holder = Free /\ tick.pc = "none" /\ watch.pc \in {"none", "wait"}
       /\ fetch.run # "failed" /\ (setup.faults = 0 \/ fetch.run = "none")

\* A task that Setup rebuilt is as its records.
RestartIsClean ==
  fetch.run = "none" =>
    /\ fetch.pos = 0 /\ holder = Free /\ pending = {} /\ watch = Quiet
    /\ mem.listed => mem.status # "running"
    /\ \A r \in db.task : r.url = mem.url

Has(n, url) == \A b \in Byte : b <= n => file.cells[b] = url

\* The source was replaced and its old target, or the old snapshot, may still be there.
Removing == holder.pc \in {"remove", "fresh"}
Replacing == holder.pc \in {"remove", "fresh", "erase"}

BytesAreThere ==
  \A r \in db.task :
    /\ Removing \/ Has(fetch.pos, mem.url)
    /\ Replacing \/ Has(db.save, mem.url)
    /\ \/ r.url = mem.url
       \/ /\ r.url = 1 /\ mem.url = 2
          /\ \/ db.save = None \/ holder.pc \in {"fresh", "erase", "task"} \/ tick.pc = "task"
             \/ holder.pc = "remove" /\ Has(db.save, 1)
    /\ Replacing => mem.url = 2 /\ mem.status = "running"
    /\ holder.pc = "remove" => r.url = 1
    /\ del.pc = "task" => r.url = mem.url
    /\ fetch.run \in {"run", "done", "failed", "over"} => file.there

DoneHasBytes ==
  \A r \in db.task :
    /\ mem.status = "done" => Has(Len_, mem.url)
    /\ r.status = "done" => mem.status = "done" /\ r.url = mem.url

\* Whoever made the task differ from its record is still to write it.
Matches(r) ==
  Reloaded(r.status) = Reloaded(mem.status) /\ r.url = mem.url /\ r.res = mem.res
DebtIsOwed ==
  \A r \in db.task : Matches(r) \/ Owed \/ holder # Free \/ watch.pc \in {"stats", "put"}

\* No extension replaces the source ...
OneSource ==
  /\ setup.recovers = 0 /\ mem.url = 1 /\ ~Replacing
  /\ \A r \in db.task : r.url = 1

\* ... or nobody pauses: then a download that runs or has failed is of the newest
\* generation, and so is a start that failed.
AtStart == holder.kind = "start" /\ holder.pc \in {"resolve", "start"} /\ holder.gen = mem.gen
Running == fetch.run \in {"run", "failed"} \/ watch.pc = "error"
StartFailed(p) ==
  /\ mem.status \in {"running", "done"}
  /\ mem.status = "running" => p.gen = mem.gen
  /\ ~Running /\ ~AtStart /\ watch.pc # "errs"
  /\ \A q \in pending : q.gen = mem.gen => q.kind = "error"
NoPauses ==
  /\ setup.pauses = 0 /\ holder.kind # "pause"
  /\ \A p \in pending : p.kind # "pause"
  /\ \A p \in pending : p.kind = "error" => StartFailed(p)
  /\ Running => mem.status \in {"running", "done"} /\ ~Owed /\ ~AtStart
  /\ watch.pc \in {"error", "errs"} => fetch.run = "idle"
  /\ holder.kind = "start" => \A p \in pending : p.gen # holder.gen

OneAtATime ==
  /\ setup.prompt /\ setup.apart
  /\ OneSource \/ NoPauses
  /\ setup.deletes = 0 \/ (setup.faults = 0 /\ fetch.run # "failed")

RegularInv ==
  /\ OneAtATime /\ NewestActs /\ WatcherKnows /\ DeletedIsQuiet /\ RestartIsClean
  /\ BytesAreThere /\ DoneHasBytes /\ DebtIsOwed

-----------------------------------------------------------------------------
(* Types.                                                                  *)

\* What a setup says of the process stays; what may still happen becomes less.
SetupShrinks ==
  /\ setup' \in Setup /\ setup'.prompt = setup.prompt /\ setup'.apart = setup.apart
  /\ setup'.deletes <= setup.deletes /\ setup'.faults <= setup.faults
  /\ setup'.recovers <= setup.recovers /\ setup'.pauses <= setup.pauses

LEMMA Spending ==
  ASSUME setup \in Setup,
         NEW what \in {"starts", "pauses", "patches", "ticks", "deletes", "crashes", "faults",
                       "recovers"},
         Spend(what)
  PROVE  SetupShrinks
<1>1. CASE what = "starts"
  BY <1>1 DEF Spend, Setup, SetupShrinks
<1>2. CASE what = "pauses"
  BY <1>2 DEF Spend, Setup, SetupShrinks
<1>3. CASE what = "patches"
  BY <1>3 DEF Spend, Setup, SetupShrinks
<1>4. CASE what = "ticks"
  BY <1>4 DEF Spend, Setup, SetupShrinks
<1>5. CASE what = "deletes"
  BY <1>5 DEF Spend, Setup, SetupShrinks
<1>6. CASE what = "crashes"
  BY <1>6 DEF Spend, Setup, SetupShrinks
<1>7. CASE what = "faults"
  BY <1>7 DEF Spend, Setup, SetupShrinks
<1>8. CASE what = "recovers"
  BY <1>8 DEF Spend, Setup, SetupShrinks
<1> QED BY <1>1, <1>2, <1>3, <1>4, <1>5, <1>6, <1>7, <1>8

LEMMA SetupStep ==
  ASSUME setup \in Setup, [Next]_vars
  PROVE  SetupShrinks
<1>0. UNCHANGED setup => SetupShrinks
  BY DEF SetupShrinks, Setup
<1>1. CASE FetcherEnds
  BY <1>1, Spending, <1>0 DEF FetcherEnds
<1>2. CASE Start
  BY <1>2, Spending DEF Start
<1>3. CASE Pause
  BY <1>3, Spending DEF Pause
<1>4. CASE Patch
  BY <1>4, Spending DEF Patch
<1>5. CASE HandlerResolves
  BY <1>5, Spending, <1>0 DEF HandlerResolves
<1>6. CASE ExtensionAsked
  BY <1>6, Spending, <1>0 DEF ExtensionAsked
<1>7. CASE TickLooks
  BY <1>7, Spending DEF TickLooks
<1>8. CASE DeleteBegins
  BY <1>8, Spending DEF DeleteBegins
<1>9. CASE Crash
  BY <1>9, Spending DEF Crash
<1>10. CASE \/ FetcherWrites \/ HandlerLocks \/ HandlerStarts \/ HandlerPauses \/ HandlerStats
            \/ HandlerSaves \/ HandlerEnds \/ HandlerErrs \/ ResetRemoves \/ ResetRenews
            \/ ResetErases \/ ErrorEnds \/ WatcherErrs \/ WatcherHears \/ WatcherMarks
            \/ WatcherStats \/ WatcherPuts \/ DeleteGoesOn \/ TickStores \/ TickSaves \/ TickEnds
  BY <1>10, <1>0 DEF FetcherWrites, HandlerLocks, HandlerStarts, HandlerPauses, HandlerStats,
     HandlerSaves, HandlerEnds, HandlerErrs, ResetRemoves, ResetRenews, ResetErases, ErrorEnds,
     WatcherErrs, WatcherHears, WatcherMarks, WatcherStats, WatcherPuts, DeleteGoesOn,
     TickStores, TickSaves, TickEnds
<1>11. CASE UNCHANGED vars
  BY <1>11, <1>0 DEF vars
<1> QED BY <1>1, <1>2, <1>3, <1>4, <1>5, <1>6, <1>7, <1>8, <1>9, <1>10, <1>11 DEF Next, Handler, Error,
   Watcher, Tick

LEMMA Kinds ==
  /\ {"running", "pause", "done", "error"} \subseteq Status /\ {1, 2} \subseteq Source
  /\ 0 \in Position /\ Len_ \in Position
  BY DEF Status, Source, Position

\* Setup rebuilds the task from its record, or there is none.
CrashOf(r) ==
  /\ r \in db.task
  /\ mem' = [mem EXCEPT !.listed = ~FileIsMissing(r), !.status = Reloaded(r.status),
                        !.url = r.url, !.res = r.res, !.progress = 0]
  /\ del' = [pc |-> IF FileIsMissing(r) THEN "task" ELSE "none", force |-> FALSE]

LEMMA CrashEffect ==
  ASSUME Crash
  PROVE  /\ fetch' = NoFetcher /\ pending' = {} /\ holder' = Free /\ watch' = Quiet
         /\ tick' = [pc |-> "none", save |-> 0, rec |-> NoRec]
         /\ UNCHANGED <<file, db, told>>
         /\ setup.apart => ~HalfReplaced
         /\ \/ /\ db.task = {} /\ mem' = [mem EXCEPT !.listed = FALSE]
               /\ del' = [del EXCEPT !.pc = "gone"]
            \/ \E r \in db.task : CrashOf(r)
<1>1. DeleteOrder[1] = "task"
  BY DEF DeleteOrder
<1> QED BY <1>1 DEF Crash, CrashOf

LEMMA TaskStep ==
  ASSUME mem \in Task, fetch \in Fetcher, db \in Buckets, [Next]_vars
  PROVE  mem' \in Task /\ mem.gen <= mem'.gen
<1>a. mem.gen \in Nat /\ mem.gen + 1 \in Nat /\ mem.gen <= mem.gen + 1
  BY DEF Task
<1>b. \A m : \A s \in Status :
        m = [mem EXCEPT !.status = s, !.gen = mem.gen + 1] => m \in Task /\ m.gen = mem.gen + 1
  BY <1>a DEF Task
<1>c. \A m : m = [mem EXCEPT !.url = 2, !.status = "running", !.gen = mem.gen + 1]
             => m \in Task /\ m.gen = mem.gen + 1
  BY <1>a, Kinds DEF Task
<1>d. \A m : \A s \in Status, g \in Nat, n \in Position :
        m = [mem EXCEPT !.status = s, !.gen = g, !.progress = n] => m \in Task /\ m.gen = g
  BY DEF Task
<1>e. \A m : m = [mem EXCEPT !.res = FALSE, !.progress = 0] => m \in Task /\ m.gen = mem.gen
  BY Kinds DEF Task
<1>f. \A m : \/ m = [mem EXCEPT !.res = TRUE] \/ m = [mem EXCEPT !.listed = FALSE]
             \/ m = [mem EXCEPT !.progress = fetch.pos]
             => m \in Task /\ m.gen = mem.gen
  BY DEF Task, Fetcher
<1>g. \A r \in db.task, l \in BOOLEAN :
        [mem EXCEPT !.listed = l, !.status = Reloaded(r.status), !.url = r.url, !.res = r.res,
                    !.progress = 0] \in Task
  BY Kinds DEF Task, Buckets, Record, Reloaded
<1>0. UNCHANGED mem => mem' \in Task /\ mem.gen <= mem'.gen
  BY DEF Task
<1>1. CASE Pause
  BY <1>1, Kinds, <1>a, <1>b DEF Pause
<1>2. CASE TickLooks
  BY <1>2, Kinds, <1>a, <1>f DEF TickLooks
<1>3. CASE DeleteBegins
  BY <1>3, Kinds, <1>a, <1>f DEF DeleteBegins
<1>4. CASE Start
  <2>1. UNCHANGED mem \/ mem' = [mem EXCEPT !.status = "running", !.gen = mem.gen + 1]
    BY <1>4 DEF Start
  <2> QED BY Kinds, <1>a, <1>0, <1>b, <2>1
<1>5. CASE HandlerResolves
  <2>1. UNCHANGED mem \/ mem' = [mem EXCEPT !.res = TRUE]
    BY <1>5 DEF HandlerResolves
  <2> QED BY Kinds, <1>a, <1>0, <1>f, <2>1
<1>6. CASE ExtensionAsked
  <2>1. UNCHANGED mem \/ mem' = [mem EXCEPT !.url = 2, !.status = "running", !.gen = mem.gen + 1]
    BY <1>6 DEF ExtensionAsked
  <2> QED BY Kinds, <1>a, <1>0, <1>c, <2>1
<1>7. CASE ResetRenews
  <2>1. UNCHANGED mem \/ mem' = [mem EXCEPT !.res = FALSE, !.progress = 0]
    BY <1>7 DEF ResetRenews, Fresh
  <2> QED BY Kinds, <1>a, <1>0, <1>e, <2>1
<1>8. CASE HandlerErrs
  <2>1. UNCHANGED mem \/ mem' = [mem EXCEPT !.status = "error", !.gen = mem.gen + 1]
    BY <1>8 DEF HandlerErrs, ErrorBegins
  <2> QED BY Kinds, <1>a, <1>0, <1>b, <2>1
<1>9. CASE WatcherErrs
  <2>1. UNCHANGED mem \/ mem' = [mem EXCEPT !.status = "error", !.gen = mem.gen + 1]
    BY <1>9 DEF WatcherErrs, ErrorBegins
  <2> QED BY Kinds, <1>a, <1>0, <1>b, <2>1
<1>10. CASE WatcherMarks
  <2>1. UNCHANGED mem \/ mem' = [mem EXCEPT !.status = "done", !.gen = mem.gen + 1, !.progress = Len_]
    BY <1>10 DEF WatcherMarks
  <2> QED BY Kinds, <1>a, <1>0, <1>d, <2>1
<1>11. CASE Crash
  <2>1. CASE db.task = {} /\ mem' = [mem EXCEPT !.listed = FALSE]
    BY <1>f, <2>1 DEF Task
  <2>2. ASSUME NEW r \in db.task, CrashOf(r)
        PROVE  mem' \in Task /\ mem.gen <= mem'.gen
    <3>1. mem' \in Task
      BY <1>g, <2>2 DEF CrashOf, FileIsMissing
    <3>2. mem'.gen = mem.gen
      BY <2>2 DEF CrashOf, Task
    <3> QED BY <1>a, <3>1, <3>2
  <2> QED BY <1>11, <2>1, <2>2, CrashEffect
<1>12. CASE \/ FetcherWrites \/ FetcherEnds \/ Patch \/ HandlerLocks \/ HandlerStarts
            \/ HandlerPauses \/ HandlerStats \/ HandlerSaves \/ HandlerEnds \/ ResetRemoves
            \/ ResetErases \/ ErrorEnds \/ WatcherHears \/ WatcherStats \/ WatcherPuts
            \/ DeleteGoesOn \/ TickStores \/ TickSaves \/ TickEnds
  BY <1>12, <1>0 DEF FetcherWrites, FetcherEnds, Patch, HandlerLocks, HandlerStarts,
     HandlerPauses, HandlerStats, HandlerSaves, HandlerEnds, ResetRemoves, ResetErases,
     ErrorEnds, WatcherHears, WatcherStats, WatcherPuts, DeleteGoesOn, TickStores, TickSaves,
     TickEnds
<1>13. CASE UNCHANGED vars
  BY <1>13, <1>0 DEF vars
<1> QED BY <1>1, <1>2, <1>3, <1>4, <1>5, <1>6, <1>7, <1>8, <1>9, <1>10, <1>11, <1>12, <1>13 DEF Next,
   Handler, Error, Watcher, Tick

LEMMA FetcherStep ==
  ASSUME fetch \in Fetcher, db \in Buckets, [Next]_vars
  PROVE  fetch' \in Fetcher
<1>1. CASE FetcherWrites
  BY <1>1 DEF FetcherWrites, Fetcher, Position
<1>2. CASE FetcherEnds
  BY <1>2 DEF FetcherEnds, Fetcher
<1>3. CASE Start
  BY <1>3 DEF Start, Fetcher, Restored, Get, Buckets, None, Position
<1>4. CASE Patch
  BY <1>4 DEF Patch, Fetcher, Restored, Get, Buckets, None, Position
<1>5. CASE HandlerStarts
  BY <1>5 DEF HandlerStarts, Fetcher
<1>6. CASE HandlerPauses
  BY <1>6 DEF HandlerPauses, Fetcher
<1>7. CASE ResetRenews
  BY <1>7 DEF ResetRenews, Fetcher, Fresh, NoFetcher, Position
<1>8. CASE WatcherHears
  BY <1>8 DEF WatcherHears, Fetcher
<1>9. CASE DeleteGoesOn
  BY <1>9 DEF DeleteGoesOn, Fetcher
<1>10. CASE Crash
  BY <1>10, CrashEffect, Kinds DEF Crash, Fetcher, NoFetcher
<1>11. CASE \/ Pause \/ HandlerLocks \/ HandlerResolves \/ HandlerStats \/ HandlerSaves
            \/ HandlerEnds \/ HandlerErrs \/ ExtensionAsked \/ ResetRemoves \/ ResetErases
            \/ ErrorEnds \/ WatcherErrs \/ WatcherMarks \/ WatcherStats \/ WatcherPuts
            \/ TickLooks \/ DeleteBegins \/ TickStores \/ TickSaves \/ TickEnds
  BY <1>11 DEF Pause, HandlerLocks, HandlerResolves, HandlerStats, HandlerSaves, HandlerEnds,
     HandlerErrs, ExtensionAsked, ResetRemoves, ResetErases, ErrorEnds, WatcherErrs,
     WatcherMarks, WatcherStats, WatcherPuts, TickLooks, DeleteBegins, TickStores, TickSaves,
     TickEnds
<1>12. CASE UNCHANGED vars
  BY <1>12 DEF vars
<1> QED BY <1>1, <1>2, <1>3, <1>4, <1>5, <1>6, <1>7, <1>8, <1>9, <1>10, <1>11, <1>12 DEF Next, Handler,
   Error, Watcher, Tick

LEMMA TargetStep ==
  ASSUME file \in Target, mem \in Task, fetch \in Fetcher, [Next]_vars
  PROVE  file' \in Target
<1>1. CASE FetcherWrites
  BY <1>1 DEF FetcherWrites, Target, Fetcher, Position, Byte, Task
<1>2. CASE HandlerStarts
  BY <1>2 DEF HandlerStarts, Target, Opened
<1>3. CASE ResetRemoves
  BY <1>3 DEF ResetRemoves, Target, NoFile
<1>4. CASE DeleteGoesOn
  BY <1>4 DEF DeleteGoesOn, Target, NoFile
<1>5. CASE \/ FetcherEnds \/ Start \/ Pause \/ Patch \/ HandlerLocks \/ HandlerResolves
           \/ HandlerPauses \/ HandlerStats \/ HandlerSaves \/ HandlerEnds \/ HandlerErrs
           \/ ExtensionAsked \/ ResetRenews \/ ResetErases \/ ErrorEnds \/ WatcherErrs
           \/ WatcherHears \/ WatcherMarks \/ WatcherStats \/ WatcherPuts \/ TickLooks
           \/ DeleteBegins \/ TickStores \/ TickSaves \/ TickEnds \/ Crash
  BY <1>5 DEF FetcherEnds, Start, Pause, Patch, HandlerLocks, HandlerResolves, HandlerPauses,
     HandlerStats, HandlerSaves, HandlerEnds, HandlerErrs, ExtensionAsked, ResetRenews,
     ResetErases, ErrorEnds, WatcherErrs, WatcherHears, WatcherMarks, WatcherStats, WatcherPuts,
     TickLooks, DeleteBegins, TickStores, TickSaves, TickEnds, Crash
<1>6. CASE UNCHANGED vars
  BY <1>6 DEF vars
<1> QED BY <1>1, <1>2, <1>3, <1>4, <1>5, <1>6 DEF Next, Handler, Error, Watcher, Tick

LEMMA RecordOfTask == mem \in Task => Rec \in Record
  BY DEF Task, Rec, Record

BucketsOK == db \in Buckets /\ \A r, q \in db.task : r = q

LEMMA Putting ==
  ASSUME BucketsOK, NEW r \in Record, NEW n \in Position
  PROVE  /\ Put("task", {r}) => BucketsOK'
         /\ Put("save", n) => BucketsOK'
         /\ Put("stats", n) => BucketsOK'
  BY DEF Put, Buckets, BucketsOK

LEMMA BucketsStep ==
  ASSUME BucketsOK, mem \in Task, fetch \in Fetcher, tick \in Saving, watch \in Watching,
         [Next]_vars
  PROVE  BucketsOK'
<1>0. UNCHANGED db => BucketsOK'
  BY DEF BucketsOK
<1>a. /\ Rec \in Record /\ fetch.pos \in Position /\ tick.save \in Position /\ tick.rec \in Record
      /\ watch.rec \in Record
  BY RecordOfTask DEF Fetcher, Saving, Watching
<1>1. CASE HandlerStats
  BY <1>1, <1>a, Putting DEF HandlerStats
<1>2. CASE WatcherStats
  BY <1>2, <1>a, Putting DEF WatcherStats
<1>3. CASE TickLooks
  BY <1>3, <1>a, Putting DEF TickLooks
<1>4. CASE HandlerSaves
  BY <1>4, <1>a, Putting DEF HandlerSaves
<1>5. CASE TickSaves
  BY <1>5, <1>a, Putting DEF TickSaves
<1>6. CASE HandlerEnds
  BY <1>6, <1>a, Putting DEF HandlerEnds
<1>7. CASE ErrorEnds
  BY <1>7, <1>a, <1>0, Putting DEF ErrorEnds
<1>8. CASE WatcherPuts
  BY <1>8, <1>a, Putting DEF WatcherPuts
<1>9. CASE TickEnds
  BY <1>9, <1>a, Putting DEF TickEnds
<1>10. CASE ResetErases
  BY <1>10 DEF ResetErases, SaveErased, Erased, Buckets, BucketsOK
<1>11. CASE DeleteGoesOn
  BY <1>11 DEF DeleteGoesOn, Erased, Buckets, BucketsOK
<1>12. CASE \/ FetcherWrites \/ FetcherEnds \/ Start \/ Pause \/ Patch \/ HandlerLocks
            \/ HandlerResolves \/ HandlerStarts \/ HandlerPauses \/ HandlerErrs \/ ExtensionAsked
            \/ ResetRemoves \/ ResetRenews \/ WatcherErrs \/ WatcherHears \/ WatcherMarks
            \/ DeleteBegins \/ TickStores \/ Crash
  BY <1>12, <1>0 DEF FetcherWrites, FetcherEnds, Start, Pause, Patch, HandlerLocks,
     HandlerResolves, HandlerStarts, HandlerPauses, HandlerErrs, ExtensionAsked, ResetRemoves,
     ResetRenews, WatcherErrs, WatcherHears, WatcherMarks, DeleteBegins, TickStores, Crash
<1>13. CASE UNCHANGED vars
  BY <1>13, <1>0 DEF vars
<1> QED BY <1>1, <1>2, <1>3, <1>4, <1>5, <1>6, <1>7, <1>8, <1>9, <1>10, <1>11, <1>12, <1>13 DEF Next,
   Handler, Error, Watcher, Tick

WaitingOK == pending \subseteq Waiting /\ \A p \in pending : p.gen <= mem.gen

LEMMA WaitingStep ==
  ASSUME WaitingOK, mem \in Task, fetch \in Fetcher, db \in Buckets, holder \in Holder, [Next]_vars
  PROVE  WaitingOK'
<1>a. mem'.gen \in Nat /\ mem.gen \in Nat /\ mem.gen <= mem'.gen
  BY TaskStep DEF Task
<1>b. ASSUME NEW P \in SUBSET pending
      PROVE  P \subseteq Waiting /\ \A p \in P : p.gen <= mem'.gen
  BY <1>a DEF WaitingOK, Waiting
<1>c. ASSUME NEW k \in {"start", "pause", "error"}, NEW g \in Nat, g <= mem'.gen,
             pending' = pending \cup {[kind |-> k, gen |-> g]}
      PROVE  WaitingOK'
  <2>1. [kind |-> k, gen |-> g] \in Waiting
    BY DEF Waiting
  <2>2. pending \subseteq Waiting /\ \A p \in pending : p.gen <= mem'.gen
    BY <1>b
  <2> QED BY <1>c, <2>1, <2>2 DEF WaitingOK
<1>0. UNCHANGED pending => WaitingOK'
  BY <1>b DEF WaitingOK
<1>d. mem.gen + 1 \in Nat
  BY <1>a
<1>1. CASE Start
  <2>1. mem'.gen = mem.gen + 1
    BY <1>1 DEF Start, Task
  <2> QED BY <1>1, <1>a, <1>c, <1>d, <2>1 DEF Start
<1>2. CASE Pause
  <2>1. mem'.gen = mem.gen + 1
    BY <1>2 DEF Pause, Task
  <2> QED BY <1>2, <1>a, <1>c, <1>d, <2>1 DEF Pause
<1>3. CASE ExtensionAsked
  <2>1. UNCHANGED pending \/ (mem'.gen = mem.gen + 1
                               /\ pending' = pending \cup {[kind |-> "start", gen |-> mem.gen + 1]})
    BY <1>3 DEF ExtensionAsked, Task
  <2> QED BY <1>0, <1>a, <1>c, <1>d, <2>1
<1>4. CASE HandlerResolves
  <2>1. holder.gen \in Nat /\ (mem.gen = holder.gen => holder.gen <= mem'.gen)
    BY <1>a DEF Holder
  <2>2. UNCHANGED pending \/ (mem.gen = holder.gen
                               /\ pending' = pending \cup {[kind |-> "error", gen |-> holder.gen]})
    BY <1>4 DEF HandlerResolves, Current
  <2> QED BY <1>0, <1>c, <2>1, <2>2
<1>5. CASE \/ HandlerLocks \/ HandlerErrs
  <2>1. pending' \in SUBSET pending
    BY <1>5 DEF HandlerLocks, HandlerErrs
  <2> QED BY <1>b, <2>1 DEF WaitingOK
<1>6. CASE Crash
  BY <1>6 DEF Crash, WaitingOK
<1>7. CASE \/ FetcherWrites \/ FetcherEnds \/ Patch \/ HandlerPauses
           \/ HandlerStats \/ HandlerSaves \/ HandlerEnds \/ ResetRemoves \/ ResetRenews
           \/ ResetErases \/ ErrorEnds \/ WatcherErrs \/ WatcherHears \/ WatcherMarks
           \/ WatcherStats \/ WatcherPuts \/ TickLooks \/ DeleteBegins \/ DeleteGoesOn
           \/ TickStores \/ TickSaves \/ TickEnds
  BY <1>7, <1>0 DEF FetcherWrites, FetcherEnds, Patch, HandlerPauses,
     HandlerStats, HandlerSaves, HandlerEnds, ResetRemoves, ResetRenews, ResetErases, ErrorEnds,
     WatcherErrs, WatcherHears, WatcherMarks, WatcherStats, WatcherPuts, TickLooks, DeleteBegins,
     DeleteGoesOn, TickStores, TickSaves, TickEnds
<1>8. CASE UNCHANGED vars
  BY <1>8, <1>0 DEF vars
<1>9. CASE HandlerStarts
  <2>1. holder.gen \in Nat /\ (mem.gen = holder.gen => holder.gen <= mem'.gen)
    BY <1>a DEF Holder
  <2>2. UNCHANGED pending \/ (mem.gen = holder.gen
                               /\ pending' = pending \cup {[kind |-> "error", gen |-> holder.gen]})
    BY <1>9 DEF HandlerStarts, Current
  <2> QED BY <1>0, <1>c, <2>1, <2>2
<1> QED BY <1>1, <1>2, <1>3, <1>4, <1>5, <1>6, <1>7, <1>8, <1>9 DEF Next, Handler, Error, Watcher, Tick

LEMMA HolderStep ==
  ASSUME holder \in Holder, pending \subseteq Waiting, mem \in Task, [Next]_vars
  PROVE  holder' \in Holder
<1>1. CASE Patch
  BY <1>1 DEF Patch, Holder, Task
<1>2. CASE HandlerLocks
  BY <1>2 DEF HandlerLocks, Holder, Free, Waiting
<1>3. CASE HandlerResolves
  BY <1>3 DEF HandlerResolves, Holder, Free, Goes
<1>4. CASE HandlerStarts
  BY <1>4 DEF HandlerStarts, Holder, Free, Goes
<1>5. CASE HandlerPauses
  BY <1>5 DEF HandlerPauses, Holder, Goes
<1>6. CASE HandlerStats
  BY <1>6 DEF HandlerStats, Holder, Goes
<1>7. CASE HandlerSaves
  BY <1>7 DEF HandlerSaves, Holder, Goes
<1>8. CASE HandlerEnds
  BY <1>8 DEF HandlerEnds, Holder, Free
<1>9. CASE ErrorEnds
  BY <1>9 DEF ErrorEnds, Holder, Free
<1>10. CASE ResetRemoves
  BY <1>10 DEF ResetRemoves, Holder, Goes
<1>11. CASE ResetRenews
  BY <1>11 DEF ResetRenews, Holder, Goes
<1>12. CASE ResetErases
  BY <1>12 DEF ResetErases, Holder, Goes
<1>13. CASE ExtensionAsked
  BY <1>13 DEF ExtensionAsked, Holder, Goes
<1>14. CASE HandlerErrs
  BY <1>14 DEF HandlerErrs, Holder, ErrorBegins, Task
<1>15. CASE WatcherErrs
  BY <1>15 DEF WatcherErrs, Holder, ErrorBegins, Task
<1>16. CASE Crash
  BY <1>16 DEF Crash, Holder, Free
<1>17. CASE \/ FetcherWrites \/ FetcherEnds \/ Start \/ Pause \/ WatcherHears \/ WatcherMarks
            \/ WatcherStats \/ WatcherPuts \/ TickLooks \/ DeleteBegins \/ DeleteGoesOn
            \/ TickStores \/ TickSaves \/ TickEnds
  BY <1>17 DEF FetcherWrites, FetcherEnds, Start, Pause, WatcherHears, WatcherMarks,
     WatcherStats, WatcherPuts, TickLooks, DeleteBegins, DeleteGoesOn, TickStores, TickSaves,
     TickEnds
<1>18. CASE UNCHANGED vars
  BY <1>18 DEF vars
<1> QED BY <1>1, <1>2, <1>3, <1>4, <1>5, <1>6, <1>7, <1>8, <1>9, <1>10, <1>11, <1>12, <1>13, <1>14,
   <1>15, <1>16, <1>17, <1>18 DEF Next, Handler, Error, Watcher, Tick

LEMMA SavingStep ==
  ASSUME tick \in Saving, mem \in Task, fetch \in Fetcher, [Next]_vars
  PROVE  tick' \in Saving
<1>0. NoRec \in Record /\ 0 \in Position
  BY Kinds DEF NoRec, Record
<1>1. CASE TickLooks
  BY <1>1 DEF TickLooks, Saving
<1>2. CASE TickStores
  BY <1>2 DEF TickStores, Saving, Fetcher
<1>3. CASE TickSaves
  BY <1>3, RecordOfTask DEF TickSaves, Saving
<1>4. CASE TickEnds
  BY <1>4, <1>0 DEF TickEnds, Saving
<1>5. CASE Crash
  BY <1>5, <1>0, CrashEffect DEF Crash, Saving
<1>6. CASE \/ FetcherWrites \/ FetcherEnds \/ Start \/ Pause \/ Patch \/ HandlerLocks
           \/ HandlerResolves \/ HandlerStarts \/ HandlerPauses \/ HandlerStats \/ HandlerSaves
           \/ HandlerEnds \/ HandlerErrs \/ ExtensionAsked \/ ResetRemoves \/ ResetRenews
           \/ ResetErases \/ ErrorEnds \/ WatcherErrs \/ WatcherHears \/ WatcherMarks
           \/ WatcherStats \/ WatcherPuts \/ DeleteBegins \/ DeleteGoesOn
  BY <1>6 DEF FetcherWrites, FetcherEnds, Start, Pause, Patch, HandlerLocks, HandlerResolves,
     HandlerStarts, HandlerPauses, HandlerStats, HandlerSaves, HandlerEnds, HandlerErrs,
     ExtensionAsked, ResetRemoves, ResetRenews, ResetErases, ErrorEnds, WatcherErrs,
     WatcherHears, WatcherMarks, WatcherStats, WatcherPuts, DeleteBegins, DeleteGoesOn
<1>7. CASE UNCHANGED vars
  BY <1>7 DEF vars
<1> QED BY <1>1, <1>2, <1>3, <1>4, <1>5, <1>6, <1>7 DEF Next, Handler, Error, Watcher, Tick

LEMMA WatchingStep ==
  ASSUME watch \in Watching, mem \in Task, [Next]_vars
  PROVE  watch' \in Watching
<1>0. Quiet \in Watching
  BY DEF Quiet, NoRec, Watching, Record, Status, Source
<1>1. CASE HandlerEnds
  BY <1>1 DEF HandlerEnds, Watching
<1>2. CASE ErrorEnds
  BY <1>2, <1>0 DEF ErrorEnds, Watching
<1>3. CASE WatcherErrs
  BY <1>3, <1>0 DEF WatcherErrs, Watching
<1>4. CASE WatcherHears
  BY <1>4 DEF WatcherHears, Watching
<1>5. CASE WatcherMarks
  BY <1>5, <1>0 DEF WatcherMarks, Watching
<1>6. CASE WatcherStats
  BY <1>6, RecordOfTask DEF WatcherStats, Watching
<1>7. CASE WatcherPuts
  BY <1>7, <1>0 DEF WatcherPuts, Watching
<1>8. CASE Crash
  BY <1>8, <1>0 DEF Crash, Watching
<1>9. CASE \/ FetcherWrites \/ FetcherEnds \/ Start \/ Pause \/ Patch \/ HandlerLocks
           \/ HandlerResolves \/ HandlerStarts \/ HandlerPauses \/ HandlerStats \/ HandlerSaves
           \/ HandlerErrs \/ ExtensionAsked \/ ResetRemoves \/ ResetRenews \/ ResetErases
           \/ TickLooks \/ DeleteBegins \/ DeleteGoesOn \/ TickStores \/ TickSaves \/ TickEnds
  BY <1>9 DEF FetcherWrites, FetcherEnds, Start, Pause, Patch, HandlerLocks, HandlerResolves,
     HandlerStarts, HandlerPauses, HandlerStats, HandlerSaves, HandlerErrs, ExtensionAsked,
     ResetRemoves, ResetRenews, ResetErases, TickLooks, DeleteBegins, DeleteGoesOn, TickStores,
     TickSaves, TickEnds
<1>10. CASE UNCHANGED vars
  BY <1>10 DEF vars
<1> QED BY <1>1, <1>2, <1>3, <1>4, <1>5, <1>6, <1>7, <1>8, <1>9, <1>10 DEF Next, Handler, Error, Watcher,
   Tick

LEMMA DeletionStep ==
  ASSUME del \in Deletion, [Next]_vars
  PROVE  del' \in Deletion
<1>1. CASE DeleteBegins
  BY <1>1 DEF DeleteBegins, Deletion, DeleteOrder
<1>2. CASE DeleteGoesOn
  BY <1>2 DEF DeleteGoesOn, Deletion, DeleteOrder
<1>3. CASE Crash
  <2>1. CASE del' = [del EXCEPT !.pc = "gone"]
    BY <2>1 DEF Deletion
  <2>2. ASSUME NEW r \in db.task, CrashOf(r)
        PROVE  del' \in Deletion
    BY <2>2 DEF Deletion, CrashOf
  <2> QED BY <1>3, <2>1, <2>2, CrashEffect
<1>4. CASE \/ FetcherWrites \/ FetcherEnds \/ Start \/ Pause \/ Patch \/ HandlerLocks
           \/ HandlerResolves \/ HandlerStarts \/ HandlerPauses \/ HandlerStats \/ HandlerSaves
           \/ HandlerEnds \/ HandlerErrs \/ ExtensionAsked \/ ResetRemoves \/ ResetRenews
           \/ ResetErases \/ ErrorEnds \/ WatcherErrs \/ WatcherHears \/ WatcherMarks
           \/ WatcherStats \/ WatcherPuts \/ TickLooks \/ TickStores \/ TickSaves \/ TickEnds
  BY <1>4 DEF FetcherWrites, FetcherEnds, Start, Pause, Patch, HandlerLocks, HandlerResolves,
     HandlerStarts, HandlerPauses, HandlerStats, HandlerSaves, HandlerEnds, HandlerErrs,
     ExtensionAsked, ResetRemoves, ResetRenews, ResetErases, ErrorEnds, WatcherErrs,
     WatcherHears, WatcherMarks, WatcherStats, WatcherPuts, TickLooks, TickStores, TickSaves,
     TickEnds
<1>5. CASE UNCHANGED vars
  BY <1>5 DEF vars
<1> QED BY <1>1, <1>2, <1>3, <1>4, <1>5 DEF Next, Handler, Error, Watcher, Tick

LEMMA ToldStep ==
  ASSUME told \in {"none", "done", "error"}, [Next]_vars
  PROVE  told' \in {"none", "done", "error"}
<1>1. CASE \/ Start \/ ErrorEnds \/ WatcherPuts
  BY <1>1 DEF Start, ErrorEnds, WatcherPuts
<1>2. CASE \/ FetcherWrites \/ FetcherEnds \/ Pause \/ Patch \/ HandlerLocks \/ HandlerResolves
           \/ HandlerStarts \/ HandlerPauses \/ HandlerStats \/ HandlerSaves \/ HandlerEnds
           \/ HandlerErrs \/ ExtensionAsked \/ ResetRemoves \/ ResetRenews \/ ResetErases
           \/ WatcherErrs \/ WatcherHears \/ WatcherMarks \/ WatcherStats \/ TickLooks
           \/ DeleteBegins \/ DeleteGoesOn \/ TickStores \/ TickSaves \/ TickEnds \/ Crash
  BY <1>2 DEF FetcherWrites, FetcherEnds, Pause, Patch, HandlerLocks, HandlerResolves,
     HandlerStarts, HandlerPauses, HandlerStats, HandlerSaves, HandlerEnds, HandlerErrs,
     ExtensionAsked, ResetRemoves, ResetRenews, ResetErases, WatcherErrs, WatcherHears,
     WatcherMarks, WatcherStats, TickLooks, DeleteBegins, DeleteGoesOn, TickStores, TickSaves,
     TickEnds, Crash
<1>3. CASE UNCHANGED vars
  BY <1>3 DEF vars
<1> QED BY <1>1, <1>2, <1>3 DEF Next, Handler, Error, Watcher, Tick


LEMMA TypeParts ==
  TypeInv <=> /\ setup \in Setup /\ mem \in Task /\ fetch \in Fetcher /\ file \in Target
              /\ BucketsOK /\ WaitingOK /\ holder \in Holder /\ tick \in Saving
              /\ watch \in Watching /\ del \in Deletion /\ told \in {"none", "done", "error"}
<1>1. ASSUME BucketsOK
      PROVE  Cardinality(db.task) <= 1
  <2>1. CASE db.task = {}
    BY <2>1, FS_EmptySet
  <2>2. CASE db.task # {}
    <3>1. PICK r \in db.task : db.task = {r}
      BY <1>1, <2>2 DEF BucketsOK
    <3>2. Cardinality(db.task) = 1
      BY <3>1, FS_Singleton
    <3> QED BY <3>2
  <2> QED BY <2>1, <2>2
<1> QED BY <1>1 DEF TypeInv, TypeOK, BucketsOK, WaitingOK

LEMMA TypeStep == TypeInv /\ [Next]_vars => TypeInv'
<1> SUFFICES ASSUME TypeInv, [Next]_vars
             PROVE  TypeInv'
  OBVIOUS
<1>1. /\ setup \in Setup /\ mem \in Task /\ fetch \in Fetcher /\ file \in Target
      /\ BucketsOK /\ WaitingOK /\ holder \in Holder /\ tick \in Saving
      /\ watch \in Watching /\ del \in Deletion /\ told \in {"none", "done", "error"}
  BY TypeParts
<1>2. db \in Buckets /\ pending \subseteq Waiting
  BY <1>1 DEF BucketsOK, WaitingOK
<1>3. setup' \in Setup
  BY <1>1, SetupStep DEF SetupShrinks
<1>4. mem' \in Task /\ fetch' \in Fetcher /\ file' \in Target /\ tick' \in Saving
  BY <1>1, <1>2, TaskStep, FetcherStep, TargetStep, SavingStep
<1>5. BucketsOK' /\ WaitingOK'
  BY <1>1, <1>2, BucketsStep, WaitingStep
<1>6. holder' \in Holder /\ watch' \in Watching /\ del' \in Deletion
  BY <1>1, <1>2, HolderStep, WatchingStep, DeletionStep
<1>7. told' \in {"none", "done", "error"}
  BY <1>1, ToldStep
<1>8. TypeParts'
  BY TypeParts, PTL
<1> QED BY <1>3, <1>4, <1>5, <1>6, <1>7, <1>8

LEMMA InitType == Init => TypeInv
<1> SUFFICES ASSUME Init
             PROVE  TypeInv
  OBVIOUS
<1> USE DEF Init
<1>1. setup \in Setup /\ setup.known \in BOOLEAN
  BY DEF Setup
<1>2. NoRec \in Record /\ [status |-> "pause", url |-> 1, res |-> setup.known] \in Record
  BY <1>1, Kinds DEF NoRec, Record
<1>3. mem \in Task
  BY <1>1, Kinds DEF Task
<1>4. fetch \in Fetcher
  BY Kinds DEF Fetcher, NoFetcher
<1>5. file \in Target
  BY DEF Target, NoFile
<1>6. BucketsOK
  BY <1>2 DEF BucketsOK, Buckets
<1>7. WaitingOK
  BY DEF WaitingOK, Waiting
<1>8. holder \in Holder /\ del \in Deletion /\ told \in {"none", "done", "error"}
  BY DEF Free, Holder, Deletion
<1>9. tick \in Saving /\ watch \in Watching
  BY <1>2, Kinds DEF Quiet, Saving, Watching
<1> QED BY <1>1, <1>3, <1>4, <1>5, <1>6, <1>7, <1>8, <1>9, TypeParts

-----------------------------------------------------------------------------
(* What each action does, field by field.                                  *)

LEMMA FetcherWritesEffect ==
  ASSUME TypeInv, FetcherWrites
  PROVE  /\ fetch.run = "run" /\ fetch.pos < Len_
         /\ fetch'.pos = fetch.pos + 1 /\ fetch'.run = "run"
         /\ file'.there = file.there
         /\ \A b \in Byte : file'.cells[b] = IF b = fetch.pos + 1 THEN mem.url ELSE file.cells[b]
         /\ UNCHANGED <<setup, mem, db, pending, holder, tick, watch, del, told>>
  BY DEF FetcherWrites, TypeInv, TypeOK, Fetcher, Target, Byte, Position

LEMMA FetcherEndsEffect ==
  ASSUME TypeInv, FetcherEnds
  PROVE  /\ fetch.run = "run" /\ fetch'.pos = fetch.pos
         /\ \/ fetch.pos = Len_ /\ fetch'.run = "done"
            \/ fetch'.run = "failed" /\ setup.faults > 0
         /\ UNCHANGED <<mem, file, db, pending, holder, tick, watch, del, told>>
  BY DEF FetcherEnds, Spend, TypeInv, TypeOK, Fetcher

LEMMA StartEffect ==
  ASSUME TypeInv, Start
  PROVE  /\ mem.listed /\ mem.status \notin {"running", "done"}
         /\ mem'.listed = mem.listed /\ mem'.status = "running" /\ mem'.gen = mem.gen + 1
         /\ mem'.url = mem.url /\ mem'.res = mem.res
         /\ \/ fetch.run # "none" /\ fetch' = fetch
            \/ /\ fetch.run = "none" /\ fetch'.run = "idle"
               /\ fetch'.pos = IF db.save = None THEN 0 ELSE db.save
         /\ Adds("start", mem.gen + 1)
         /\ told' = "none"
         /\ UNCHANGED <<file, db, holder, tick, watch, del>>
  BY Adding DEF Start, Restored, Get, TypeInv, TypeOK, Task

LEMMA PauseEffect ==
  ASSUME TypeInv, Pause
  PROVE  /\ setup.pauses > 0 /\ mem.listed /\ mem.status = "running"
         /\ mem'.listed = mem.listed /\ mem'.status = "pause" /\ mem'.gen = mem.gen + 1
         /\ mem'.url = mem.url /\ mem'.res = mem.res
         /\ Adds("pause", mem.gen + 1)
         /\ UNCHANGED <<fetch, file, db, holder, tick, watch, del, told>>
  BY Adding DEF Pause, Spend, TypeInv, TypeOK, Task

LEMMA PatchEffect ==
  ASSUME TypeInv, Patch
  PROVE  /\ mem.listed /\ holder = Free
         /\ \/ fetch.run # "none" /\ fetch' = fetch
            \/ /\ fetch.run = "none" /\ fetch'.run = "idle"
               /\ fetch'.pos = IF db.save = None THEN 0 ELSE db.save
         /\ holder' = [kind |-> "patch", pc |-> "save", gen |-> mem.gen]
         /\ UNCHANGED <<mem, file, db, pending, tick, watch, del, told>>
  BY DEF Patch, Restored, Get, TypeInv, TypeOK

LEMMA HandlerLocksEffect ==
  ASSUME TypeInv, HandlerLocks
  PROVE  /\ holder = Free
         /\ \E p \in pending :
              /\ p.kind \in {"start", "pause"} /\ pending' = pending \ {p}
              /\ \/ p.gen # mem.gen /\ holder' = Free
                 \/ /\ p.gen = mem.gen /\ holder'.kind = p.kind /\ holder'.gen = p.gen
                    /\ \/ p.kind = "pause" /\ holder'.pc = "pause"
                       \/ p.kind = "start" /\ mem.res /\ holder'.pc = "start"
                       \/ p.kind = "start" /\ ~mem.res /\ holder'.pc = "resolve"
         /\ UNCHANGED <<setup, mem, fetch, file, db, tick, watch, del, told>>
  BY DEF HandlerLocks, Current, TypeInv, TypeOK

LEMMA HandlerResolvesEffect ==
  ASSUME TypeInv, HandlerResolves
  PROVE  /\ holder.kind = "start" /\ holder.pc = "resolve"
         /\ mem'.listed = mem.listed /\ mem'.status = mem.status /\ mem'.gen = mem.gen
         /\ mem'.url = mem.url
         /\ \/ /\ mem'.res = TRUE /\ UNCHANGED pending
               /\ holder'.kind = "start" /\ holder'.gen = holder.gen /\ holder'.pc = "start"
            \/ /\ holder' = Free /\ UNCHANGED mem
               /\ mem.gen = holder.gen /\ Adds("error", holder.gen)
            \/ /\ holder' = Free /\ UNCHANGED mem
               /\ mem.gen # holder.gen /\ UNCHANGED pending
         /\ UNCHANGED <<fetch, file, db, tick, watch, del, told>>
  BY Adding DEF HandlerResolves, Holds, Goes, Current, TypeInv, TypeOK, Task, Holder

LEMMA HandlerStartsEffect ==
  ASSUME TypeInv, HandlerStarts
  PROVE  /\ holder.kind = "start" /\ holder.pc = "start"
         /\ \/ /\ mem.gen = holder.gen /\ file'.there /\ file'.cells = file.cells
               /\ fetch'.pos = fetch.pos /\ fetch'.run = "run" /\ UNCHANGED pending
               /\ holder'.kind = holder.kind /\ holder'.gen = holder.gen /\ holder'.pc = "stats"
            \/ /\ mem.gen = holder.gen /\ fetch.run \in {"done", "over"}
               /\ holder' = Free /\ Adds("error", holder.gen) /\ UNCHANGED <<file, fetch>>
            \/ mem.gen # holder.gen /\ holder' = Free /\ UNCHANGED <<file, fetch, pending>>
         /\ UNCHANGED <<setup, mem, db, tick, watch, del, told>>
  BY Adding DEF HandlerStarts, Ended, Holds, Goes, Current, Opened, TypeInv, TypeOK, Fetcher,
     Holder, Target

LEMMA HandlerPausesEffect ==
  ASSUME TypeInv, HandlerPauses
  PROVE  /\ holder.kind = "pause" /\ holder.pc = "pause"
         /\ fetch'.pos = fetch.pos /\ fetch'.run = "idle"
         /\ holder'.kind = holder.kind /\ holder'.gen = holder.gen /\ holder'.pc = "stats"
         /\ UNCHANGED <<setup, mem, file, db, pending, tick, watch, del, told>>
  BY DEF HandlerPauses, Holds, Goes, TypeInv, TypeOK, Fetcher, Holder

LEMMA HandlerStatsEffect ==
  ASSUME TypeInv, HandlerStats
  PROVE  /\ holder.pc = "stats"
         /\ db'.task = db.task /\ db'.save = db.save
         /\ holder'.kind = holder.kind /\ holder'.gen = holder.gen
         /\ holder'.pc = IF holder.kind \in {"error", "failure"} THEN "put" ELSE "save"
         /\ UNCHANGED <<setup, mem, fetch, file, pending, tick, watch, del, told>>
  BY DEF HandlerStats, Put, Goes, TypeInv, TypeOK, Buckets, Holder

LEMMA HandlerSavesEffect ==
  ASSUME TypeInv, HandlerSaves
  PROVE  /\ holder.pc = "save"
         /\ db'.save = fetch.pos /\ db'.task = db.task
         /\ holder'.kind = holder.kind /\ holder'.gen = holder.gen /\ holder'.pc = "task"
         /\ UNCHANGED <<setup, mem, fetch, file, pending, tick, watch, del, told>>
  BY DEF HandlerSaves, Put, Goes, TypeInv, TypeOK, Buckets, Holder

LEMMA HandlerEndsEffect ==
  ASSUME TypeInv, HandlerEnds
  PROVE  /\ holder.pc = "task"
         /\ db'.task = {Rec} /\ db'.save = db.save
         /\ holder' = Free
         /\ \/ /\ holder.kind = "start" /\ watch.pc = "none"
               /\ watch'.pc = "wait" /\ watch'.rec = watch.rec
            \/ watch' = watch
         /\ UNCHANGED <<setup, mem, fetch, file, pending, tick, del, told>>
  BY DEF HandlerEnds, Put, TypeInv, TypeOK, Buckets, Watching

LEMMA HandlerErrsEffect ==
  ASSUME TypeInv, HandlerErrs
  PROVE  /\ holder = Free
         /\ \E p \in pending : p.kind = "error" /\ pending' = pending \ {p}
         /\ \/ /\ mem.status = "running"
               /\ mem'.listed = mem.listed /\ mem'.status = "error" /\ mem'.gen = mem.gen + 1
               /\ mem'.url = mem.url /\ mem'.res = mem.res
               /\ holder' = [kind |-> "failure", pc |-> "ask", gen |-> mem.gen + 1]
            \/ mem.status # "running" /\ UNCHANGED <<mem, holder>>
         /\ UNCHANGED <<setup, fetch, file, db, tick, watch, del, told>>
  BY DEF HandlerErrs, ErrorBegins, Marks, TypeInv, TypeOK, Task

LEMMA WatcherErrsEffect ==
  ASSUME TypeInv, WatcherErrs
  PROVE  /\ watch.pc = "error" /\ holder = Free
         /\ \/ /\ mem.status = "running"
               /\ mem'.listed = mem.listed /\ mem'.status = "error" /\ mem'.gen = mem.gen + 1
               /\ mem'.url = mem.url /\ mem'.res = mem.res
               /\ holder' = [kind |-> "error", pc |-> "ask", gen |-> mem.gen + 1]
               /\ watch'.pc = "errs"
            \/ mem.status # "running" /\ UNCHANGED <<mem, holder>> /\ watch' = Quiet
         /\ UNCHANGED <<setup, fetch, file, db, pending, tick, del, told>>
  BY DEF WatcherErrs, ErrorBegins, Marks, TypeInv, TypeOK, Task, Watching

LEMMA ExtensionAskedEffect ==
  ASSUME TypeInv, ExtensionAsked
  PROVE  /\ holder.pc = "ask"
         /\ \/ /\ holder'.kind = holder.kind /\ holder'.gen = holder.gen
               /\ holder'.pc = "stats" /\ UNCHANGED <<mem, pending>>
            \/ /\ holder.kind = "error" /\ setup.recovers > 0 /\ mem.url = 1
               /\ mem'.listed = mem.listed /\ mem'.status = "running" /\ mem'.gen = mem.gen + 1
               /\ mem'.url = 2 /\ mem'.res = mem.res
               /\ Adds("start", mem.gen + 1)
               /\ holder'.kind = holder.kind /\ holder'.gen = holder.gen /\ holder'.pc = "remove"
         /\ UNCHANGED <<fetch, file, db, tick, watch, del, told>>
<1>1. holder \in Holder /\ mem \in Task
  BY DEF TypeInv, TypeOK
<1>2. CASE Goes("stats") /\ UNCHANGED <<setup, mem, pending>>
  BY <1>1, <1>2 DEF ExtensionAsked, Goes, Holder
<1>3. CASE /\ Spend("recovers") /\ holder.kind = "error" /\ mem.url = 1 /\ Goes("remove")
           /\ mem' = [mem EXCEPT !.url = 2, !.status = "running", !.gen = @ + 1]
           /\ pending' = pending \cup {[kind |-> "start", gen |-> mem.gen + 1]}
  <2>1. Adds("start", mem.gen + 1)
    BY <1>3, Adding
  <2>2. /\ mem'.listed = mem.listed /\ mem'.status = "running" /\ mem'.gen = mem.gen + 1
        /\ mem'.url = 2 /\ mem'.res = mem.res
    BY <1>1, <1>3 DEF Task
  <2>3. holder'.kind = holder.kind /\ holder'.gen = holder.gen /\ holder'.pc = "remove"
    BY <1>1, <1>3 DEF Goes, Holder
  <2> QED BY <1>3, <2>1, <2>2, <2>3 DEF ExtensionAsked, Spend
<1> QED BY <1>2, <1>3 DEF ExtensionAsked


LEMMA ResetRemovesEffect ==
  ASSUME TypeInv, ResetRemoves
  PROVE  /\ holder.pc = "remove"
         /\ file' = NoFile
         /\ holder'.kind = holder.kind /\ holder'.gen = holder.gen /\ holder'.pc = "fresh"
         /\ UNCHANGED <<setup, mem, fetch, db, pending, tick, watch, del, told>>
  BY DEF ResetRemoves, Goes, TypeInv, TypeOK, Holder

LEMMA ResetRenewsEffect ==
  ASSUME TypeInv, ResetRenews
  PROVE  /\ holder.pc = "fresh"
         /\ mem'.listed = mem.listed /\ mem'.status = mem.status /\ mem'.gen = mem.gen
         /\ mem'.url = mem.url /\ mem'.res = FALSE
         /\ fetch'.pos = 0 /\ fetch'.run = "idle"
         /\ holder'.kind = holder.kind /\ holder'.gen = holder.gen /\ holder'.pc = "erase"
         /\ UNCHANGED <<setup, file, db, pending, tick, watch, del, told>>
  BY DEF ResetRenews, Goes, Fresh, NoFetcher, TypeInv, TypeOK, Task, Holder

LEMMA ResetErasesEffect ==
  ASSUME TypeInv, ResetErases
  PROVE  /\ holder.pc = "erase"
         /\ db'.task = db.task /\ db'.save = None
         /\ holder'.kind = holder.kind /\ holder'.gen = holder.gen /\ holder'.pc = "stats"
         /\ UNCHANGED <<setup, mem, fetch, file, pending, tick, watch, del, told>>
  BY DEF ResetErases, Goes, SaveErased, Erased, TypeInv, TypeOK, Buckets, Holder

LEMMA ErrorEndsEffect ==
  ASSUME TypeInv, ErrorEnds
  PROVE  /\ holder.pc = "put"
         /\ holder' = Free
         /\ \/ mem.status = "error" /\ db'.task = {Rec} /\ db'.save = db.save /\ told' = "error"
            \/ mem.status # "error" /\ UNCHANGED <<db, told>>
         /\ \/ holder.kind = "failure" /\ watch' = watch
            \/ holder.kind # "failure" /\ mem.status = "running" /\ watch'.pc = "wait"
            \/ holder.kind # "failure" /\ mem.status # "running" /\ watch' = Quiet
         /\ UNCHANGED <<setup, mem, fetch, file, pending, tick, del>>
  BY DEF ErrorEnds, Put, TypeInv, TypeOK, Buckets, Watching

LEMMA WatcherHearsEffect ==
  ASSUME TypeInv, WatcherHears
  PROVE  /\ watch.pc = "wait" /\ fetch'.pos = fetch.pos
         /\ \/ /\ fetch.run = "done" /\ fetch'.run = "over"
               /\ watch'.pc = IF mem.listed THEN "mark" ELSE "none"
            \/ /\ fetch.run = "failed" /\ fetch'.run = "idle"
               /\ watch'.pc = IF mem.status = "pause" THEN "none" ELSE "error"
         /\ UNCHANGED <<setup, mem, file, db, pending, holder, tick, del, told>>
  BY DEF WatcherHears, Still, TypeInv, TypeOK, Fetcher, Watching

LEMMA WatcherMarksEffect ==
  ASSUME TypeInv, WatcherMarks
  PROVE  /\ watch.pc = "mark" /\ holder = Free
         /\ \/ /\ mem.status = "running" /\ watch'.pc = "stats"
               /\ mem'.listed = mem.listed /\ mem'.status = "done" /\ mem'.gen = mem.gen + 1
               /\ mem'.url = mem.url /\ mem'.res = mem.res
            \/ mem.status # "running" /\ watch' = Quiet /\ UNCHANGED mem
         /\ UNCHANGED <<setup, fetch, file, db, pending, holder, tick, del, told>>
  BY DEF WatcherMarks, TypeInv, TypeOK, Task, Watching

LEMMA WatcherStatsEffect ==
  ASSUME TypeInv, WatcherStats
  PROVE  /\ watch.pc = "stats"
         /\ db'.task = db.task /\ db'.save = db.save
         /\ watch' = [pc |-> "put", rec |-> Rec]
         /\ UNCHANGED <<setup, mem, fetch, file, pending, holder, tick, del, told>>
  BY DEF WatcherStats, Put, TypeInv, TypeOK, Buckets

LEMMA WatcherPutsEffect ==
  ASSUME TypeInv, WatcherPuts
  PROVE  /\ watch.pc = "put"
         /\ db'.task = {watch.rec} /\ db'.save = db.save
         /\ watch' = Quiet /\ told' = "done"
         /\ UNCHANGED <<setup, mem, fetch, file, pending, holder, tick, del>>
  BY DEF WatcherPuts, Put, TypeInv, TypeOK, Buckets

LEMMA TickLooksEffect ==
  ASSUME TypeInv, TickLooks
  PROVE  /\ tick.pc = "none" /\ mem.listed /\ holder = Free
         /\ mem.status = "running" /\ fetch.run # "none"
         /\ mem'.listed = mem.listed /\ mem'.status = mem.status /\ mem'.gen = mem.gen
         /\ mem'.url = mem.url /\ mem'.res = mem.res
         /\ db'.task = db.task /\ db'.save = db.save
         /\ tick'.pc \in {"none", "store"}
         /\ UNCHANGED <<fetch, file, pending, holder, watch, del, told>>
  BY DEF TickLooks, Put, TypeInv, TypeOK, Task, Buckets, Saving

LEMMA TickStoresEffect ==
  ASSUME TypeInv, TickStores
  PROVE  /\ tick.pc = "store"
         /\ tick'.pc = "save" /\ tick'.save = fetch.pos
         /\ UNCHANGED <<setup, mem, fetch, file, db, pending, holder, watch, del, told>>
  BY DEF TickStores, TypeInv, TypeOK, Saving

LEMMA TickSavesEffect ==
  ASSUME TypeInv, TickSaves
  PROVE  /\ tick.pc = "save"
         /\ db'.save = tick.save /\ db'.task = db.task
         /\ tick'.pc = "task" /\ tick'.save = tick.save /\ tick'.rec = Rec
         /\ UNCHANGED <<setup, mem, fetch, file, pending, holder, watch, del, told>>
  BY DEF TickSaves, Put, TypeInv, TypeOK, Buckets, Saving

LEMMA TickEndsEffect ==
  ASSUME TypeInv, TickEnds
  PROVE  /\ tick.pc = "task"
         /\ db'.task = {tick.rec} /\ db'.save = db.save
         /\ tick'.pc = "none"
         /\ UNCHANGED <<setup, mem, fetch, file, pending, holder, watch, del, told>>
  BY DEF TickEnds, Put, TypeInv, TypeOK, Buckets

LEMMA DeleteBeginsEffect ==
  ASSUME TypeInv, DeleteBegins
  PROVE  /\ setup.deletes > 0 /\ mem.listed /\ del.pc = "none" /\ (setup.prompt => Settled)
         /\ mem'.listed = FALSE /\ mem'.status = mem.status /\ mem'.gen = mem.gen
         /\ mem'.url = mem.url /\ mem'.res = mem.res
         /\ del'.pc = "task"
         /\ UNCHANGED <<fetch, file, db, pending, holder, tick, watch, told>>
  BY DEF DeleteBegins, Spend, DeleteOrder, TypeInv, TypeOK, Task

LEMMA DeleteGoesOnEffect ==
  ASSUME TypeInv, DeleteGoesOn
  PROVE  /\ fetch'.pos = fetch.pos
         /\ fetch'.run = IF del.pc = "close" /\ fetch.run = "run" THEN "idle" ELSE fetch.run
         /\ \/ del.pc = "task" /\ del'.pc = "save" /\ db'.task = {} /\ db'.save = db.save
            \/ del.pc = "save" /\ del'.pc = "stats" /\ db'.task = db.task
            \/ del.pc = "stats" /\ del'.pc = "close" /\ db'.task = db.task
            \/ del.pc = "close" /\ del'.pc = "file" /\ db'.task = db.task
            \/ del.pc = "file" /\ del'.pc = "gone" /\ db'.task = db.task
         /\ del.pc # "file" => UNCHANGED file
         /\ UNCHANGED <<setup, mem, pending, holder, tick, watch, told>>
  BY DEF DeleteGoesOn, DeleteOrder, Erased, TypeInv, TypeOK, Fetcher, Buckets, Deletion


-----------------------------------------------------------------------------
(* What every action keeps.                                                *)

LEMMA Numbers ==
  ASSUME TypeInv
  PROVE  /\ mem.gen \in Nat /\ mem.gen + 1 \in Nat /\ mem.gen + 1 # mem.gen /\ holder.gen \in Nat
         /\ \A p \in pending : p.gen \in Nat /\ p.gen <= mem.gen /\ p.gen # mem.gen + 1
<1>1. mem.gen \in Nat /\ holder.gen \in Nat
  BY DEF TypeInv, TypeOK, Task, Holder
<1>2. \A p \in pending : p.gen \in Nat /\ p.gen <= mem.gen
  BY DEF TypeInv, TypeOK, Waiting
<1> QED BY <1>1, <1>2

LEMMA LockStep ==
  ASSUME TypeInv, LockIsHeld, [Next]_vars
  PROVE  LockIsHeld'
<1>1. CASE Start
  BY <1>1, StartEffect, Numbers DEF LockIsHeld
<1>2. CASE Pause
  BY <1>2, PauseEffect, Numbers DEF LockIsHeld
<1>3. CASE Patch
  BY <1>3, PatchEffect, Numbers DEF LockIsHeld, Free
<1>4. CASE HandlerLocks
  BY <1>4, HandlerLocksEffect, Numbers DEF LockIsHeld, Free
<1>5. CASE HandlerResolves
  <2>1. holder.kind = "start" /\ mem'.gen = mem.gen /\ UNCHANGED watch
    BY <1>5, HandlerResolvesEffect
  <2>2. CASE holder' = Free
    BY <2>1, <2>2, Numbers DEF LockIsHeld, Free
  <2>3. CASE holder'.kind = "start" /\ holder'.gen = holder.gen /\ holder'.pc = "start"
    BY <2>1, <2>3 DEF LockIsHeld
  <2> QED BY <1>5, <2>2, <2>3, HandlerResolvesEffect
<1>6. CASE HandlerStarts
  BY <1>6, HandlerStartsEffect, Numbers DEF LockIsHeld, Free
<1>7. CASE HandlerPauses
  BY <1>7, HandlerPausesEffect, Numbers DEF LockIsHeld
<1>8. CASE HandlerStats
  BY <1>8, HandlerStatsEffect, Numbers DEF LockIsHeld
<1>9. CASE HandlerSaves
  BY <1>9, HandlerSavesEffect, Numbers DEF LockIsHeld
<1>10. CASE HandlerEnds
  BY <1>10, HandlerEndsEffect, Numbers DEF LockIsHeld, Free
<1>11. CASE HandlerErrs
  BY <1>11, HandlerErrsEffect, Numbers DEF LockIsHeld, Free
<1>12. CASE ExtensionAsked
  BY <1>12, ExtensionAskedEffect, Numbers DEF LockIsHeld
<1>13. CASE ResetRemoves
  BY <1>13, ResetRemovesEffect, Numbers DEF LockIsHeld
<1>14. CASE ResetRenews
  BY <1>14, ResetRenewsEffect, Numbers DEF LockIsHeld
<1>15. CASE ResetErases
  BY <1>15, ResetErasesEffect, Numbers DEF LockIsHeld
<1>16. CASE ErrorEnds
  BY <1>16, ErrorEndsEffect, Numbers DEF LockIsHeld, Free, Quiet
<1>17. CASE WatcherErrs
  BY <1>17, WatcherErrsEffect, Numbers DEF LockIsHeld, Free, Quiet
<1>18. CASE WatcherHears
  BY <1>18, WatcherHearsEffect, Numbers DEF LockIsHeld
<1>19. CASE WatcherMarks
  BY <1>19, WatcherMarksEffect, Numbers DEF LockIsHeld, Free, Quiet
<1>20. CASE WatcherStats
  BY <1>20, WatcherStatsEffect, Numbers DEF LockIsHeld
<1>21. CASE WatcherPuts
  BY <1>21, WatcherPutsEffect, Numbers DEF LockIsHeld, Quiet
<1>22. CASE TickLooks
  BY <1>22, TickLooksEffect, Numbers DEF LockIsHeld
<1>23. CASE DeleteBegins
  BY <1>23, DeleteBeginsEffect, Numbers DEF LockIsHeld
<1>24. CASE Crash
  <2>1. mem'.gen \in Nat
    BY TaskStep DEF TypeInv, TypeOK, Task
  <2> QED BY <1>24, <2>1, CrashEffect DEF LockIsHeld, Free, Quiet
<1>25. CASE \/ FetcherWrites \/ FetcherEnds \/ DeleteGoesOn \/ TickStores \/ TickSaves
            \/ TickEnds
  <2>1. UNCHANGED <<mem, holder, watch>>
    BY <1>25, FetcherWritesEffect, FetcherEndsEffect, DeleteGoesOnEffect, TickStoresEffect,
       TickSavesEffect, TickEndsEffect
  <2> QED BY <2>1 DEF LockIsHeld
<1>26. CASE UNCHANGED vars
  BY <1>26 DEF vars, LockIsHeld
<1> QED BY <1>1, <1>2, <1>3, <1>4, <1>5, <1>6, <1>7, <1>8, <1>9, <1>10, <1>11, <1>12, <1>13, <1>14,
   <1>15, <1>16, <1>17, <1>18, <1>19, <1>20, <1>21, <1>22, <1>23, <1>24, <1>25, <1>26 DEF Next,
   Handler, Error, Watcher, Tick

LEMMA TickStep ==
  ASSUME TypeInv, setup.prompt, TickIsPrompt, [Next]_vars
  PROVE  TickIsPrompt'
<1>0. tick.pc = "none" /\ UNCHANGED tick => TickIsPrompt'
  BY DEF TickIsPrompt
<1>1. CASE tick.pc = "none" /\ FetcherWrites
  BY <1>1, FetcherWritesEffect, <1>0 DEF TickIsPrompt
<1>2. CASE tick.pc = "none" /\ FetcherEnds
  BY <1>2, FetcherEndsEffect, <1>0 DEF TickIsPrompt
<1>3. CASE tick.pc = "none" /\ Start
  BY <1>3, StartEffect, <1>0 DEF TickIsPrompt
<1>4. CASE tick.pc = "none" /\ Pause
  BY <1>4, PauseEffect, <1>0 DEF TickIsPrompt
<1>5. CASE tick.pc = "none" /\ Patch
  BY <1>5, PatchEffect, <1>0 DEF TickIsPrompt
<1>6. CASE tick.pc = "none" /\ HandlerLocks
  BY <1>6, HandlerLocksEffect, <1>0 DEF TickIsPrompt
<1>7. CASE tick.pc = "none" /\ HandlerResolves
  BY <1>7, HandlerResolvesEffect, <1>0 DEF TickIsPrompt
<1>8. CASE tick.pc = "none" /\ HandlerStarts
  BY <1>8, HandlerStartsEffect, <1>0 DEF TickIsPrompt
<1>9. CASE tick.pc = "none" /\ HandlerPauses
  BY <1>9, HandlerPausesEffect, <1>0 DEF TickIsPrompt
<1>10. CASE tick.pc = "none" /\ HandlerStats
  BY <1>10, HandlerStatsEffect, <1>0 DEF TickIsPrompt
<1>11. CASE tick.pc = "none" /\ HandlerSaves
  BY <1>11, HandlerSavesEffect, <1>0 DEF TickIsPrompt
<1>12. CASE tick.pc = "none" /\ HandlerEnds
  BY <1>12, HandlerEndsEffect, <1>0 DEF TickIsPrompt
<1>13. CASE tick.pc = "none" /\ HandlerErrs
  BY <1>13, HandlerErrsEffect, <1>0 DEF TickIsPrompt
<1>14. CASE tick.pc = "none" /\ ExtensionAsked
  BY <1>14, ExtensionAskedEffect, <1>0 DEF TickIsPrompt
<1>15. CASE tick.pc = "none" /\ ResetRemoves
  BY <1>15, ResetRemovesEffect, <1>0 DEF TickIsPrompt
<1>16. CASE tick.pc = "none" /\ ResetRenews
  BY <1>16, ResetRenewsEffect, <1>0 DEF TickIsPrompt
<1>17. CASE tick.pc = "none" /\ ResetErases
  BY <1>17, ResetErasesEffect, <1>0 DEF TickIsPrompt
<1>18. CASE tick.pc = "none" /\ ErrorEnds
  BY <1>18, ErrorEndsEffect, <1>0 DEF TickIsPrompt
<1>19. CASE tick.pc = "none" /\ WatcherErrs
  BY <1>19, WatcherErrsEffect, <1>0 DEF TickIsPrompt
<1>20. CASE tick.pc = "none" /\ WatcherHears
  BY <1>20, WatcherHearsEffect, <1>0 DEF TickIsPrompt
<1>21. CASE tick.pc = "none" /\ WatcherMarks
  BY <1>21, WatcherMarksEffect, <1>0 DEF TickIsPrompt
<1>22. CASE tick.pc = "none" /\ WatcherStats
  BY <1>22, WatcherStatsEffect, <1>0 DEF TickIsPrompt
<1>23. CASE tick.pc = "none" /\ WatcherPuts
  BY <1>23, WatcherPutsEffect, <1>0 DEF TickIsPrompt
<1>24. CASE tick.pc = "none" /\ TickLooks
  BY <1>24, TickLooksEffect DEF TickIsPrompt, Rec
<1>25. CASE tick.pc = "none" /\ DeleteBegins
  BY <1>25, DeleteBeginsEffect, <1>0 DEF TickIsPrompt
<1>26. CASE tick.pc = "none" /\ DeleteGoesOn
  BY <1>26, DeleteGoesOnEffect, <1>0 DEF TickIsPrompt
<1>27. CASE TickStores
  BY <1>27, TickStoresEffect DEF TickIsPrompt, Rec
<1>28. CASE TickSaves
  BY <1>28, TickSavesEffect DEF TickIsPrompt, Rec
<1>29. CASE TickEnds
  BY <1>29, TickEndsEffect DEF TickIsPrompt, Rec
<1>30. CASE Crash
  BY <1>30, CrashEffect DEF TickIsPrompt
<1>31. CASE UNCHANGED vars
  BY <1>31 DEF vars, TickIsPrompt, Rec
<1> QED BY <1>1, <1>2, <1>3, <1>4, <1>5, <1>6, <1>7, <1>8, <1>9, <1>10, <1>11, <1>12, <1>13, <1>14,
   <1>15, <1>16, <1>17, <1>18, <1>19, <1>20, <1>21, <1>22, <1>23, <1>24, <1>25, <1>26, <1>27,
   <1>28, <1>29, <1>30, <1>31 DEF Next, Handler, Error, Watcher, Tick, Overtakes

LEMMA EndStep ==
  ASSUME TypeInv, LockIsHeld, TickIsPrompt, EndIsKept, [Next]_vars
  PROVE  EndIsKept'
<1>0. told \in {"none", "done", "error"}
  BY DEF TypeInv, TypeOK
<1>1. CASE Start
  BY <1>1, StartEffect DEF EndIsKept
<1>2. CASE Pause
  BY <1>2, PauseEffect, <1>0 DEF EndIsKept
<1>3. CASE Patch
  BY <1>3, PatchEffect DEF EndIsKept, Free
<1>4. CASE HandlerLocks
  BY <1>4, HandlerLocksEffect DEF EndIsKept, Free
<1>5. CASE HandlerResolves
  <2>1. mem'.status = mem.status /\ UNCHANGED <<told, db, watch>>
    BY <1>5, HandlerResolvesEffect
  <2>4. holder' = Free \/ holder'.kind = "start"
    BY <1>5, HandlerResolvesEffect
  <2>2. holder'.kind # "error"
    BY <2>4 DEF Free
  <2>3. told' = told /\ db' = db /\ watch' = watch
    BY <2>1
  <2> QED BY <2>1, <2>2, <2>3 DEF EndIsKept
<1>6. CASE HandlerStarts
  BY <1>6, HandlerStartsEffect DEF EndIsKept, Free
<1>7. CASE HandlerPauses
  BY <1>7, HandlerPausesEffect DEF EndIsKept
<1>8. CASE HandlerStats
  BY <1>8, HandlerStatsEffect DEF EndIsKept
<1>9. CASE HandlerSaves
  BY <1>9, HandlerSavesEffect DEF EndIsKept
<1>10. CASE HandlerEnds
  BY <1>10, HandlerEndsEffect DEF EndIsKept, Rec, LockIsHeld, Free
<1>11. CASE HandlerErrs
  BY <1>11, HandlerErrsEffect, <1>0 DEF EndIsKept, LockIsHeld
<1>12. CASE ExtensionAsked
  BY <1>12, ExtensionAskedEffect DEF EndIsKept, LockIsHeld
<1>13. CASE ResetRemoves
  BY <1>13, ResetRemovesEffect DEF EndIsKept
<1>14. CASE ResetRenews
  BY <1>14, ResetRenewsEffect DEF EndIsKept
<1>15. CASE ResetErases
  BY <1>15, ResetErasesEffect DEF EndIsKept
<1>16. CASE ErrorEnds
  BY <1>16, ErrorEndsEffect DEF EndIsKept, Rec, LockIsHeld, Free, Quiet
<1>17. CASE WatcherErrs
  BY <1>17, WatcherErrsEffect, <1>0 DEF EndIsKept, LockIsHeld, Quiet
<1>18. CASE WatcherHears
  BY <1>18, WatcherHearsEffect DEF EndIsKept
<1>19. CASE WatcherMarks
  BY <1>19, WatcherMarksEffect, <1>0 DEF EndIsKept, Free, Quiet
<1>20. CASE WatcherStats
  BY <1>20, WatcherStatsEffect DEF EndIsKept, Rec
<1>21. CASE WatcherPuts
  BY <1>21, WatcherPutsEffect DEF EndIsKept, LockIsHeld, Quiet
<1>22. CASE TickLooks
  BY <1>22, TickLooksEffect DEF EndIsKept
<1>23. CASE DeleteBegins
  BY <1>23, DeleteBeginsEffect DEF EndIsKept
<1>24. CASE DeleteGoesOn
  BY <1>24, DeleteGoesOnEffect DEF EndIsKept
<1>25. CASE TickSaves
  BY <1>25, TickSavesEffect DEF EndIsKept
<1>26. CASE TickEnds
  BY <1>26, TickEndsEffect, <1>0 DEF EndIsKept, TickIsPrompt, Rec
<1>27. CASE Crash
  <2>1. CASE db.task = {} /\ mem' = [mem EXCEPT !.listed = FALSE]
    <3>1. mem'.status = mem.status
      BY <2>1 DEF TypeInv, TypeOK, Task
    <3> QED BY <1>27, <2>1, <3>1, CrashEffect DEF EndIsKept, Free, Quiet
  <2>2. ASSUME NEW r \in db.task, CrashOf(r)
        PROVE  EndIsKept'
    <3>1. mem'.status = Reloaded(r.status)
      BY <2>2 DEF CrashOf, TypeInv, TypeOK, Task
    <3> QED BY <1>27, <1>0, <3>1, CrashEffect DEF EndIsKept, Reloaded, Free, Quiet
  <2> QED BY <1>27, <2>1, <2>2, CrashEffect
<1>28. CASE \/ FetcherWrites \/ FetcherEnds \/ TickStores
  <2>1. UNCHANGED <<mem, db, holder, watch, told>>
    BY <1>28, FetcherWritesEffect, FetcherEndsEffect, TickStoresEffect
  <2> QED BY <2>1 DEF EndIsKept
<1>29. CASE UNCHANGED vars
  BY <1>29 DEF vars, EndIsKept
<1> QED BY <1>1, <1>2, <1>3, <1>4, <1>5, <1>6, <1>7, <1>8, <1>9, <1>10, <1>11, <1>12, <1>13, <1>14,
   <1>15, <1>16, <1>17, <1>18, <1>19, <1>20, <1>21, <1>22, <1>23, <1>24, <1>25, <1>26, <1>27,
   <1>28, <1>29 DEF Next, Handler, Error, Watcher, Tick

LEMMA ListedStep ==
  ASSUME TypeInv, ListedIsStored, [Next]_vars
  PROVE  ListedIsStored'
<1>1. CASE Start
  BY <1>1, StartEffect DEF ListedIsStored
<1>2. CASE Pause
  BY <1>2, PauseEffect DEF ListedIsStored
<1>3. CASE HandlerResolves
  BY <1>3, HandlerResolvesEffect DEF ListedIsStored
<1>4. CASE HandlerStats
  BY <1>4, HandlerStatsEffect DEF ListedIsStored
<1>5. CASE HandlerSaves
  BY <1>5, HandlerSavesEffect DEF ListedIsStored
<1>6. CASE HandlerEnds
  BY <1>6, HandlerEndsEffect DEF ListedIsStored
<1>7. CASE HandlerErrs
  BY <1>7, HandlerErrsEffect DEF ListedIsStored
<1>8. CASE ExtensionAsked
  BY <1>8, ExtensionAskedEffect DEF ListedIsStored
<1>9. CASE ResetRenews
  BY <1>9, ResetRenewsEffect DEF ListedIsStored
<1>10. CASE ResetErases
  BY <1>10, ResetErasesEffect DEF ListedIsStored
<1>11. CASE ErrorEnds
  BY <1>11, ErrorEndsEffect DEF ListedIsStored
<1>12. CASE WatcherErrs
  BY <1>12, WatcherErrsEffect DEF ListedIsStored
<1>13. CASE WatcherMarks
  BY <1>13, WatcherMarksEffect DEF ListedIsStored
<1>14. CASE WatcherStats
  BY <1>14, WatcherStatsEffect DEF ListedIsStored
<1>15. CASE WatcherPuts
  BY <1>15, WatcherPutsEffect DEF ListedIsStored
<1>16. CASE TickLooks
  BY <1>16, TickLooksEffect DEF ListedIsStored
<1>17. CASE DeleteBegins
  BY <1>17, DeleteBeginsEffect DEF ListedIsStored
<1>18. CASE DeleteGoesOn
  BY <1>18, DeleteGoesOnEffect DEF ListedIsStored
<1>19. CASE TickSaves
  BY <1>19, TickSavesEffect DEF ListedIsStored
<1>20. CASE TickEnds
  BY <1>20, TickEndsEffect DEF ListedIsStored
<1>21. CASE Crash
  <2>1. CASE db.task = {} /\ mem' = [mem EXCEPT !.listed = FALSE]
    BY <2>1 DEF ListedIsStored, TypeInv, TypeOK, Task
  <2>2. ASSUME NEW r \in db.task, CrashOf(r)
        PROVE  ListedIsStored'
    <3>1. mem'.listed = ~FileIsMissing(r)
      BY <2>2 DEF CrashOf, TypeInv, TypeOK, Task
    <3> QED BY <1>21, <2>2, <3>1, CrashEffect DEF ListedIsStored, CrashOf
  <2> QED BY <1>21, <2>1, <2>2, CrashEffect
<1>22. CASE \/ FetcherWrites \/ FetcherEnds \/ Patch \/ HandlerLocks \/ HandlerStarts
            \/ HandlerPauses \/ ResetRemoves \/ WatcherHears \/ TickStores
  <2>1. UNCHANGED <<mem, db, del>>
    BY <1>22, FetcherWritesEffect, FetcherEndsEffect, PatchEffect, HandlerLocksEffect,
       HandlerStartsEffect, HandlerPausesEffect, ResetRemovesEffect, WatcherHearsEffect,
       TickStoresEffect
  <2> QED BY <2>1 DEF ListedIsStored
<1>23. CASE UNCHANGED vars
  BY <1>23 DEF vars, ListedIsStored
<1> QED BY <1>1, <1>2, <1>3, <1>4, <1>5, <1>6, <1>7, <1>8, <1>9, <1>10, <1>11, <1>12, <1>13, <1>14,
   <1>15, <1>16, <1>17, <1>18, <1>19, <1>20, <1>21, <1>22, <1>23 DEF Next, Handler, Error,
   Watcher, Tick


LEMMA NewestStep ==
  ASSUME TypeInv, LockIsHeld, NewestActs, [Next]_vars
  PROVE  NewestActs'
<1>1. CASE Start
  <2>1. Owed'
    BY <1>1, StartEffect DEF Adds, Owed
  <2> QED BY <1>1, <2>1, StartEffect, Numbers DEF NewestActs, Adds, LockIsHeld
<1>2. CASE Pause
  <2>1. Owed'
    BY <1>2, PauseEffect DEF Adds, Owed
  <2> QED BY <1>2, <2>1, PauseEffect, Numbers DEF NewestActs, Adds, LockIsHeld
<1>3. CASE Patch
  BY <1>3, PatchEffect, Numbers DEF NewestActs, Free, Owed, LockIsHeld
<1>4. CASE HandlerLocks
  BY <1>4, HandlerLocksEffect, Numbers DEF NewestActs, Free, Owed
<1>5. CASE HandlerResolves
  <2>1. CASE holder' = Free /\ UNCHANGED <<mem, pending>>
    BY <2>1 DEF NewestActs, Free
  <2>2. CASE /\ holder' = Free /\ UNCHANGED mem /\ mem.gen = holder.gen
             /\ Adds("error", holder.gen) /\ holder.kind = "start"
    BY <2>2 DEF NewestActs, Adds, Free
  <2>3. CASE /\ holder'.kind = "start" /\ holder'.gen = holder.gen /\ holder.kind = "start"
             /\ mem'.gen = mem.gen /\ mem'.status = mem.status /\ UNCHANGED pending
    BY <2>3 DEF NewestActs, Owed, Free
  <2> QED BY <1>5, <2>1, <2>2, <2>3, HandlerResolvesEffect
<1>6. CASE HandlerStarts
  <2>1. CASE holder' = Free /\ UNCHANGED <<mem, pending>>
    BY <2>1 DEF NewestActs, Free
  <2>2. CASE /\ holder' = Free /\ UNCHANGED mem /\ mem.gen = holder.gen
             /\ Adds("error", holder.gen) /\ holder.kind = "start"
    BY <2>2 DEF NewestActs, Adds, Free
  <2>3. CASE /\ holder'.kind = "start" /\ holder'.gen = holder.gen /\ holder.kind = "start"
             /\ UNCHANGED <<mem, pending>>
    BY <2>3 DEF NewestActs, Owed, Free
  <2> QED BY <1>6, <2>1, <2>2, <2>3, HandlerStartsEffect
<1>7. CASE HandlerPauses
  BY <1>7, HandlerPausesEffect, Numbers DEF NewestActs, Free, Owed, LockIsHeld
<1>8. CASE HandlerStats
  BY <1>8, HandlerStatsEffect, Numbers DEF NewestActs, Free, Owed, LockIsHeld
<1>9. CASE HandlerSaves
  BY <1>9, HandlerSavesEffect, Numbers DEF NewestActs, Free, Owed, LockIsHeld
<1>10. CASE HandlerEnds
  BY <1>10, HandlerEndsEffect, Numbers DEF NewestActs, Free, Owed, LockIsHeld
<1>11. CASE HandlerErrs
  BY <1>11, HandlerErrsEffect, Numbers DEF NewestActs, Free, Owed, LockIsHeld
<1>12. CASE ExtensionAsked
  <2>1. CASE UNCHANGED <<mem, pending>> /\ holder'.kind = holder.kind /\ holder'.gen = holder.gen
    <3>1. holder.kind # "none"
      BY <1>12, ExtensionAskedEffect DEF LockIsHeld
    <3> QED BY <2>1, <3>1 DEF NewestActs, Owed, Free
  <2>2. CASE /\ mem'.gen = mem.gen + 1 /\ mem'.status = "running" /\ Adds("start", mem.gen + 1)
             /\ holder'.gen = holder.gen
    <3>1. Owed'
      BY <2>2 DEF Adds, Owed
    <3> QED BY <2>2, <3>1, Numbers DEF NewestActs, Adds, LockIsHeld
  <2> QED BY <1>12, <2>1, <2>2, ExtensionAskedEffect
<1>13. CASE ResetRemoves
  BY <1>13, ResetRemovesEffect, Numbers DEF NewestActs, Free, Owed, LockIsHeld
<1>14. CASE ResetRenews
  BY <1>14, ResetRenewsEffect, Numbers DEF NewestActs, Free, Owed, LockIsHeld
<1>15. CASE ResetErases
  BY <1>15, ResetErasesEffect, Numbers DEF NewestActs, Free, Owed, LockIsHeld
<1>16. CASE ErrorEnds
  BY <1>16, ErrorEndsEffect, Numbers DEF NewestActs, Free, Owed, LockIsHeld
<1>17. CASE WatcherErrs
  BY <1>17, WatcherErrsEffect, Numbers DEF NewestActs, Free, Owed, LockIsHeld
<1>18. CASE WatcherMarks
  BY <1>18, WatcherMarksEffect, Numbers DEF NewestActs, Free, Owed, LockIsHeld
<1>19. CASE TickLooks
  BY <1>19, TickLooksEffect, Numbers DEF NewestActs, Free, Owed, LockIsHeld
<1>20. CASE DeleteBegins
  BY <1>20, DeleteBeginsEffect, Numbers DEF NewestActs, Free, Owed, LockIsHeld
<1>21. CASE Crash
  BY <1>21, CrashEffect, Numbers DEF NewestActs, Free, Owed, LockIsHeld
<1>22. CASE \/ FetcherWrites \/ FetcherEnds \/ WatcherHears \/ WatcherStats \/ WatcherPuts
            \/ DeleteGoesOn \/ TickStores \/ TickSaves \/ TickEnds
  <2>1. UNCHANGED <<mem, pending, holder>>
    BY <1>22, FetcherWritesEffect, FetcherEndsEffect, WatcherHearsEffect, WatcherStatsEffect,
       WatcherPutsEffect, DeleteGoesOnEffect, TickStoresEffect, TickSavesEffect, TickEndsEffect
  <2> QED BY <2>1 DEF NewestActs, Owed
<1>23. CASE UNCHANGED vars
  BY <1>23 DEF vars, NewestActs, Owed
<1> QED BY <1>1, <1>2, <1>3, <1>4, <1>5, <1>6, <1>7, <1>8, <1>9, <1>10, <1>11, <1>12, <1>13, <1>14,
   <1>15, <1>16, <1>17, <1>18, <1>19, <1>20, <1>21, <1>22, <1>23 DEF Next, Handler, Error,
   Watcher, Tick

LEMMA KnowsStep ==
  ASSUME TypeInv, setup.prompt, LockIsHeld, TickIsPrompt, EndIsKept, RestartIsClean, WatcherKnows,
         [Next]_vars
  PROVE  WatcherKnows'
<1>0. /\ mem.res \in BOOLEAN
      /\ holder.kind \in {"none", "start", "pause", "patch", "error", "failure"}
  BY DEF TypeInv, TypeOK, Task, Holder
<1>1. CASE FetcherWrites
  BY <1>1, FetcherWritesEffect DEF WatcherKnows, Rec
<1>2. CASE FetcherEnds
  BY <1>2, FetcherEndsEffect DEF WatcherKnows, Rec
<1>3. CASE Start
  BY <1>3, StartEffect DEF WatcherKnows, EndIsKept, RestartIsClean, Quiet
<1>4. CASE Pause
  BY <1>4, PauseEffect DEF WatcherKnows, EndIsKept
<1>5. CASE Patch
  BY <1>5, PatchEffect DEF WatcherKnows, RestartIsClean, Quiet, Rec
<1>6. CASE HandlerLocks
  BY <1>6, HandlerLocksEffect DEF WatcherKnows, Free, Rec
<1>7. CASE HandlerResolves
  <2>1. UNCHANGED <<fetch, watch>>
    BY <1>7, HandlerResolvesEffect
  <2>2. CASE holder' = Free /\ UNCHANGED mem
    BY <2>1, <2>2 DEF WatcherKnows, Free, Rec
  <2>3. CASE /\ mem'.listed = mem.listed /\ mem'.status = mem.status /\ mem'.url = mem.url
             /\ mem'.res = TRUE
    <3>1. watch.pc = "put" => Rec' = Rec
      BY <1>0, <2>3 DEF WatcherKnows, Rec
    <3> QED BY <2>1, <2>3, <3>1 DEF WatcherKnows
  <2> QED BY <1>7, <2>2, <2>3, HandlerResolvesEffect
<1>8. CASE HandlerStarts
  BY <1>8, HandlerStartsEffect DEF WatcherKnows, Free, Rec
<1>9. CASE HandlerPauses
  BY <1>9, HandlerPausesEffect DEF WatcherKnows, Rec
<1>10. CASE HandlerStats
  BY <1>10, HandlerStatsEffect DEF WatcherKnows, Rec
<1>11. CASE HandlerSaves
  BY <1>11, HandlerSavesEffect DEF WatcherKnows, Rec
<1>12. CASE HandlerEnds
  BY <1>12, HandlerEndsEffect DEF WatcherKnows, Rec, Free
<1>13. CASE HandlerErrs
  BY <1>13, HandlerErrsEffect DEF WatcherKnows, EndIsKept, Rec
<1>14. CASE ExtensionAsked
  BY <1>14, ExtensionAskedEffect DEF WatcherKnows, LockIsHeld, Rec
<1>15. CASE ResetRemoves
  BY <1>15, ResetRemovesEffect DEF WatcherKnows, Rec
<1>16. CASE ResetRenews
  BY <1>16, ResetRenewsEffect, <1>0 DEF WatcherKnows, LockIsHeld, Rec
<1>17. CASE ResetErases
  BY <1>17, ResetErasesEffect DEF WatcherKnows, Rec
<1>18. CASE ErrorEnds
  BY <1>18, ErrorEndsEffect, <1>0 DEF WatcherKnows, LockIsHeld, Rec, Quiet, Free
<1>19. CASE WatcherErrs
  BY <1>19, WatcherErrsEffect DEF WatcherKnows, EndIsKept, Rec, Quiet
<1>20. CASE WatcherHears
  BY <1>20, WatcherHearsEffect DEF WatcherKnows, Rec
<1>21. CASE WatcherMarks
  BY <1>21, WatcherMarksEffect DEF WatcherKnows, Quiet
<1>22. CASE WatcherStats
  BY <1>22, WatcherStatsEffect DEF WatcherKnows, Rec
<1>23. CASE WatcherPuts
  BY <1>23, WatcherPutsEffect DEF WatcherKnows, Quiet
<1>24. CASE TickLooks
  BY <1>24, TickLooksEffect DEF WatcherKnows, Rec
<1>25. CASE DeleteBegins
  BY <1>25, DeleteBeginsEffect DEF WatcherKnows, Settled
<1>26. CASE DeleteGoesOn
  BY <1>26, DeleteGoesOnEffect DEF WatcherKnows, Rec
<1>27. CASE Crash
  BY <1>27, CrashEffect DEF WatcherKnows, NoFetcher, Free, Quiet
<1>28. CASE \/ TickStores \/ TickSaves \/ TickEnds
  <2>1. UNCHANGED <<mem, fetch, holder, watch>>
    BY <1>28, TickStoresEffect, TickSavesEffect, TickEndsEffect
  <2> QED BY <2>1 DEF WatcherKnows, Rec
<1>29. CASE UNCHANGED vars
  BY <1>29 DEF vars, WatcherKnows, Rec
<1> QED BY <1>1, <1>2, <1>3, <1>4, <1>5, <1>6, <1>7, <1>8, <1>9, <1>10, <1>11, <1>12, <1>13, <1>14,
   <1>15, <1>16, <1>17, <1>18, <1>19, <1>20, <1>21, <1>22, <1>23, <1>24, <1>25, <1>26, <1>27,
   <1>28, <1>29 DEF Next, Handler, Error, Watcher, Tick

LEMMA QuietStep ==
  ASSUME TypeInv, OneAtATime, LockIsHeld, TickIsPrompt, DeletedIsQuiet, [Next]_vars
  PROVE  DeletedIsQuiet'
<1>0. /\ setup.prompt /\ setup.faults \in Nat /\ setup'.faults \in Nat
      /\ setup'.faults <= setup.faults
      /\ setup.deletes \in Nat /\ (setup.deletes = 0 \/ (setup.faults = 0 /\ fetch.run # "failed"))
  BY SetupStep DEF TypeInv, SetupShrinks, Setup, OneAtATime
<1>1. CASE FetcherWrites
  BY <1>1, FetcherWritesEffect, <1>0 DEF DeletedIsQuiet
<1>2. CASE FetcherEnds
  BY <1>2, FetcherEndsEffect, <1>0 DEF DeletedIsQuiet
<1>3. CASE Start
  BY <1>3, StartEffect, <1>0 DEF DeletedIsQuiet
<1>4. CASE Pause
  BY <1>4, PauseEffect, <1>0 DEF DeletedIsQuiet
<1>5. CASE Patch
  BY <1>5, PatchEffect, <1>0 DEF DeletedIsQuiet
<1>6. CASE HandlerLocks
  BY <1>6, HandlerLocksEffect, <1>0 DEF DeletedIsQuiet, Free, LockIsHeld
<1>7. CASE HandlerResolves
  <2>1. mem.listed
    BY <1>7, HandlerResolvesEffect DEF DeletedIsQuiet, Free
  <2>2. mem'.listed = mem.listed
    BY <1>7, HandlerResolvesEffect
  <2>3. UNCHANGED <<db, del>>
    BY <1>7, HandlerResolvesEffect
  <2> QED BY <2>1, <2>2, <2>3 DEF DeletedIsQuiet
<1>8. CASE HandlerStarts
  BY <1>8, HandlerStartsEffect, <1>0 DEF DeletedIsQuiet, Free, LockIsHeld
<1>9. CASE HandlerPauses
  BY <1>9, HandlerPausesEffect, <1>0 DEF DeletedIsQuiet, Free, LockIsHeld
<1>10. CASE HandlerStats
  BY <1>10, HandlerStatsEffect, <1>0 DEF DeletedIsQuiet, Free, LockIsHeld
<1>11. CASE HandlerSaves
  BY <1>11, HandlerSavesEffect, <1>0 DEF DeletedIsQuiet, Free, LockIsHeld
<1>12. CASE HandlerEnds
  BY <1>12, HandlerEndsEffect, <1>0 DEF DeletedIsQuiet, Free, LockIsHeld
<1>13. CASE HandlerErrs
  BY <1>13, HandlerErrsEffect, <1>0 DEF DeletedIsQuiet, Free, LockIsHeld
<1>14. CASE ExtensionAsked
  BY <1>14, ExtensionAskedEffect, <1>0 DEF DeletedIsQuiet, Free, LockIsHeld
<1>15. CASE ResetRemoves
  BY <1>15, ResetRemovesEffect, <1>0 DEF DeletedIsQuiet, Free, LockIsHeld
<1>16. CASE ResetRenews
  BY <1>16, ResetRenewsEffect, <1>0 DEF DeletedIsQuiet, Free, LockIsHeld
<1>17. CASE ResetErases
  BY <1>17, ResetErasesEffect, <1>0 DEF DeletedIsQuiet, Free, LockIsHeld
<1>18. CASE ErrorEnds
  BY <1>18, ErrorEndsEffect, <1>0 DEF DeletedIsQuiet, Free, LockIsHeld
<1>19. CASE WatcherErrs
  BY <1>19, WatcherErrsEffect, <1>0 DEF DeletedIsQuiet, Quiet
<1>20. CASE WatcherHears
  BY <1>20, WatcherHearsEffect, <1>0 DEF DeletedIsQuiet
<1>21. CASE WatcherMarks
  BY <1>21, WatcherMarksEffect, <1>0 DEF DeletedIsQuiet, Quiet
<1>22. CASE WatcherStats
  BY <1>22, WatcherStatsEffect, <1>0 DEF DeletedIsQuiet
<1>23. CASE WatcherPuts
  BY <1>23, WatcherPutsEffect, <1>0 DEF DeletedIsQuiet, Quiet
<1>24. CASE TickLooks
  BY <1>24, TickLooksEffect, <1>0 DEF DeletedIsQuiet
<1>25. CASE DeleteBegins
  <2>1. Settled
    BY <1>25, <1>0, DeleteBeginsEffect
  <2>2. setup'.faults = 0 /\ fetch.run # "failed"
    BY <1>25, <1>0, DeleteBeginsEffect
  <2> QED BY <1>25, <2>1, <2>2, DeleteBeginsEffect DEF DeletedIsQuiet, Settled
<1>26. CASE DeleteGoesOn
  BY <1>26, DeleteGoesOnEffect, <1>0 DEF DeletedIsQuiet
<1>27. CASE TickStores
  BY <1>27, TickStoresEffect, <1>0 DEF DeletedIsQuiet
<1>28. CASE TickSaves
  BY <1>28, TickSavesEffect, <1>0 DEF DeletedIsQuiet
<1>29. CASE TickEnds
  BY <1>29, TickEndsEffect, <1>0 DEF DeletedIsQuiet
<1>30. CASE Crash
  <2>1. CASE db.task = {} /\ mem' = [mem EXCEPT !.listed = FALSE] /\ del' = [del EXCEPT !.pc = "gone"]
    <3>1. mem'.listed = FALSE /\ del'.pc = "gone"
      BY <2>1 DEF TypeInv, TypeOK, Task, Deletion
    <3> QED BY <1>30, <2>1, <3>1, CrashEffect DEF DeletedIsQuiet, NoFetcher, Free, Quiet
  <2>2. ASSUME NEW r \in db.task, CrashOf(r)
        PROVE  DeletedIsQuiet'
    <3>1. mem'.listed = ~FileIsMissing(r) /\ del'.pc = IF FileIsMissing(r) THEN "task" ELSE "none"
      BY <2>2 DEF CrashOf, TypeInv, TypeOK, Task
    <3>4. /\ pending' = {} /\ holder' = Free /\ tick'.pc = "none" /\ watch'.pc = "none"
          /\ fetch'.run = "none"
      BY <1>30, CrashEffect DEF NoFetcher, Quiet
    <3>2. CASE FileIsMissing(r)
      <4>1. db'.task # {}
        BY <1>30, <2>2, CrashEffect
      <4>2. mem'.listed = FALSE /\ del'.pc = "task"
        BY <3>1, <3>2
      <4> QED BY <3>4, <4>1, <4>2 DEF DeletedIsQuiet
    <3>3. CASE ~FileIsMissing(r)
      <4>1. db'.task # {}
        BY <1>30, <2>2, CrashEffect
      <4>2. mem'.listed = TRUE /\ del'.pc = "none"
        BY <3>1, <3>3
      <4> QED BY <4>1, <4>2 DEF DeletedIsQuiet
    <3> QED BY <3>2, <3>3
  <2> QED BY <1>30, <2>1, <2>2, CrashEffect
<1>31. CASE UNCHANGED vars
  BY <1>31 DEF vars, DeletedIsQuiet
<1> QED BY <1>1, <1>2, <1>3, <1>4, <1>5, <1>6, <1>7, <1>8, <1>9, <1>10, <1>11, <1>12, <1>13, <1>14,
   <1>15, <1>16, <1>17, <1>18, <1>19, <1>20, <1>21, <1>22, <1>23, <1>24, <1>25, <1>26, <1>27,
   <1>28, <1>29, <1>30, <1>31 DEF Next, Handler, Error, Watcher, Tick

LEMMA CleanStep ==
  ASSUME TypeInv, TickIsPrompt, RestartIsClean, [Next]_vars
  PROVE  RestartIsClean'
<1>1. CASE FetcherWrites
  BY <1>1, FetcherWritesEffect DEF RestartIsClean
<1>2. CASE FetcherEnds
  BY <1>2, FetcherEndsEffect DEF RestartIsClean
<1>3. CASE Start
  BY <1>3, StartEffect DEF RestartIsClean
<1>4. CASE Pause
  BY <1>4, PauseEffect DEF RestartIsClean
<1>5. CASE Patch
  BY <1>5, PatchEffect DEF RestartIsClean
<1>6. CASE HandlerLocks
  BY <1>6, HandlerLocksEffect DEF RestartIsClean, Free
<1>7. CASE HandlerResolves
  BY <1>7, HandlerResolvesEffect DEF RestartIsClean, Free
<1>8. CASE HandlerStarts
  BY <1>8, HandlerStartsEffect DEF RestartIsClean, Free
<1>9. CASE HandlerPauses
  BY <1>9, HandlerPausesEffect DEF RestartIsClean, Free
<1>10. CASE HandlerStats
  BY <1>10, HandlerStatsEffect DEF RestartIsClean, Free
<1>11. CASE HandlerSaves
  BY <1>11, HandlerSavesEffect DEF RestartIsClean, Free
<1>12. CASE HandlerEnds
  BY <1>12, HandlerEndsEffect DEF RestartIsClean, Free
<1>13. CASE HandlerErrs
  BY <1>13, HandlerErrsEffect DEF RestartIsClean
<1>14. CASE ExtensionAsked
  BY <1>14, ExtensionAskedEffect DEF RestartIsClean, Free
<1>15. CASE ResetRemoves
  BY <1>15, ResetRemovesEffect DEF RestartIsClean, Free
<1>16. CASE ResetRenews
  BY <1>16, ResetRenewsEffect DEF RestartIsClean, Free
<1>17. CASE ResetErases
  BY <1>17, ResetErasesEffect DEF RestartIsClean, Free
<1>18. CASE ErrorEnds
  BY <1>18, ErrorEndsEffect DEF RestartIsClean, Free
<1>19. CASE WatcherErrs
  BY <1>19, WatcherErrsEffect DEF RestartIsClean, Quiet
<1>20. CASE WatcherHears
  BY <1>20, WatcherHearsEffect DEF RestartIsClean, Quiet
<1>21. CASE WatcherMarks
  BY <1>21, WatcherMarksEffect DEF RestartIsClean, Quiet
<1>22. CASE WatcherStats
  BY <1>22, WatcherStatsEffect DEF RestartIsClean, Quiet
<1>23. CASE WatcherPuts
  BY <1>23, WatcherPutsEffect DEF RestartIsClean, Quiet
<1>24. CASE TickLooks
  BY <1>24, TickLooksEffect DEF RestartIsClean
<1>25. CASE DeleteBegins
  BY <1>25, DeleteBeginsEffect DEF RestartIsClean
<1>26. CASE DeleteGoesOn
  BY <1>26, DeleteGoesOnEffect DEF RestartIsClean
<1>27. CASE TickStores
  BY <1>27, TickStoresEffect DEF RestartIsClean, TickIsPrompt
<1>28. CASE TickSaves
  BY <1>28, TickSavesEffect DEF RestartIsClean, TickIsPrompt
<1>29. CASE TickEnds
  BY <1>29, TickEndsEffect DEF RestartIsClean, TickIsPrompt
<1>30. CASE Crash
  <2>1. CASE db.task = {} /\ mem' = [mem EXCEPT !.listed = FALSE]
    <3>1. mem'.listed = FALSE
      BY <2>1 DEF TypeInv, TypeOK, Task
    <3> QED BY <1>30, <2>1, <3>1, CrashEffect DEF RestartIsClean, NoFetcher
  <2>2. ASSUME NEW r \in db.task, CrashOf(r)
        PROVE  RestartIsClean'
    <3>1. mem'.status = Reloaded(r.status) /\ mem'.url = r.url /\ \A q \in db.task : q = r
      BY <2>2 DEF CrashOf, TypeInv, TypeOK, Task
    <3> QED BY <1>30, <2>2, <3>1, CrashEffect DEF RestartIsClean, NoFetcher, Reloaded
  <2> QED BY <1>30, <2>1, <2>2, CrashEffect
<1>31. CASE UNCHANGED vars
  BY <1>31 DEF vars, RestartIsClean
<1> QED BY <1>1, <1>2, <1>3, <1>4, <1>5, <1>6, <1>7, <1>8, <1>9, <1>10, <1>11, <1>12, <1>13, <1>14,
   <1>15, <1>16, <1>17, <1>18, <1>19, <1>20, <1>21, <1>22, <1>23, <1>24, <1>25, <1>26, <1>27,
   <1>28, <1>29, <1>30, <1>31 DEF Next, Handler, Error, Watcher, Tick


LEMMA HolderHasRecord ==
  ASSUME TypeInv, LockIsHeld, DeletedIsQuiet, holder.pc # "none"
  PROVE  mem.listed /\ del.pc = "none" /\ db.task # {}
<1>1. holder # Free
  BY DEF Free
<1> QED BY <1>1 DEF DeletedIsQuiet

LEMMA Idle ==
  ASSUME OneAtATime, LockIsHeld, holder.kind = "error"
  PROVE  Replacing => setup.pauses = 0 /\ fetch.run = "idle"
  BY DEF OneAtATime, OneSource, NoPauses, LockIsHeld

LEMMA Replaces ==
  ASSUME TypeInv, LockIsHeld, holder.pc \in {"remove", "fresh", "erase", "ask"}
  PROVE  holder.kind \in {"error", "failure"} /\ (Replacing => holder.kind = "error")
  BY DEF TypeInv, TypeOK, Holder, LockIsHeld, Replacing

LEMMA BytesStep ==
  ASSUME TypeInv, OneAtATime, LockIsHeld, TickIsPrompt, WatcherKnows, DeletedIsQuiet, RestartIsClean,
         BytesAreThere, DebtIsOwed, [Next]_vars
  PROVE  BytesAreThere'
<1>0. /\ setup.prompt /\ setup.apart /\ setup.pauses \in Nat /\ fetch.pos \in 0 .. Len_
      /\ \A r \in db.task : r \in Record
  BY DEF TypeInv, TypeOK, Setup, OneAtATime, Fetcher, Buckets, Position
<1>1. CASE FetcherWrites
  BY <1>1, FetcherWritesEffect, <1>0, Idle, Replaces DEF BytesAreThere, Has, Removing, Replacing,
     Byte
<1>2. CASE FetcherEnds
  BY <1>2, FetcherEndsEffect DEF BytesAreThere, Has, Removing, Replacing
<1>3. CASE Start
  BY <1>3, StartEffect, <1>0 DEF BytesAreThere, Has, Removing, Replacing, RestartIsClean, Free,
     LockIsHeld, None
<1>4. CASE Pause
  BY <1>4, PauseEffect, Idle, Replaces, <1>0 DEF BytesAreThere, Has, Removing, Replacing
<1>5. CASE Patch
  BY <1>5, PatchEffect, <1>0 DEF BytesAreThere, Has, Removing, Replacing, RestartIsClean, Free,
     LockIsHeld, None
<1>6. CASE HandlerLocks
  BY <1>6, HandlerLocksEffect DEF BytesAreThere, Has, Removing, Replacing, Free
<1>7. CASE HandlerResolves
  <2>1. UNCHANGED <<fetch, file, db, tick, del>> /\ holder.pc = "resolve"
    BY <1>7, HandlerResolvesEffect
  <2>2. mem'.url = mem.url /\ mem'.status = mem.status /\ (holder' = Free \/ holder'.pc = "start")
    BY <1>7, HandlerResolvesEffect
  <2>f. holder'.pc \in {"none", "start"}
    BY <2>2 DEF Free
  <2>3. ~Removing /\ ~Replacing /\ ~Removing' /\ ~Replacing'
    BY <2>1, <2>f DEF Removing, Replacing
  <2>4. \A r \in db.task :
          /\ Has(fetch.pos, mem.url) /\ Has(db.save, mem.url)
          /\ r.url = mem.url \/ (r.url = 1 /\ mem.url = 2 /\ (db.save = None \/ tick.pc = "task"))
          /\ del.pc = "task" => r.url = mem.url
          /\ fetch.run \in {"run", "done", "failed", "over"} => file.there
    BY <2>1, <2>3 DEF BytesAreThere
  <2> QED BY <2>1, <2>2, <2>f, <2>3, <2>4 DEF BytesAreThere, Has
<1>8. CASE HandlerStarts
  <2>1. UNCHANGED <<mem, db, tick, del>> /\ holder.pc = "start"
    BY <1>8, HandlerStartsEffect
  <2>2. fetch'.pos = fetch.pos /\ file'.cells = file.cells /\ holder'.pc \in {"none", "stats"}
    BY <1>8, HandlerStartsEffect DEF Free
  <2>3. file'.there \/ UNCHANGED <<file, fetch>>
    BY <1>8, HandlerStartsEffect
  <2> QED BY <2>1, <2>2, <2>3 DEF BytesAreThere, Has, Removing, Replacing
<1>9. CASE HandlerPauses
  BY <1>9, HandlerPausesEffect DEF BytesAreThere, Has, Removing, Replacing
<1>10. CASE HandlerStats
  BY <1>10, HandlerStatsEffect DEF BytesAreThere, Has, Removing, Replacing
<1>11. CASE HandlerSaves
  BY <1>11, HandlerSavesEffect DEF BytesAreThere, Has, Removing, Replacing
<1>12. CASE HandlerEnds
  BY <1>12, HandlerEndsEffect, HolderHasRecord DEF BytesAreThere, Has, Removing, Replacing, Rec,
     Free
<1>13. CASE HandlerErrs
  BY <1>13, HandlerErrsEffect DEF BytesAreThere, Has, Removing, Replacing, Free
<1>14. CASE ExtensionAsked
  <2>1. UNCHANGED <<fetch, file, db, tick, del>> /\ holder.pc = "ask"
    BY <1>14, ExtensionAskedEffect
  <2>2. CASE UNCHANGED mem /\ holder'.pc = "stats"
    BY <2>1, <2>2 DEF BytesAreThere, Has, Removing, Replacing
  <2>3. CASE mem.url = 1 /\ mem'.url = 2 /\ mem'.status = "running" /\ holder'.pc = "remove"
    <3>1. del.pc = "none"
      BY <2>1, HolderHasRecord
    <3>2. \A r \in db.task : Has(db.save, 1)
      BY <2>1, <2>3 DEF BytesAreThere, Has, Replacing
    <3>3. \A r \in db.task : r.url = 1
      BY <2>3 DEF BytesAreThere
    <3>4. \A r \in db.task : fetch.run \in {"run", "done", "failed", "over"} => file.there
      BY DEF BytesAreThere
    <3> QED BY <2>1, <2>3, <3>1, <3>2, <3>3, <3>4 DEF BytesAreThere, Has, Removing, Replacing
  <2> QED BY <1>14, <2>2, <2>3, ExtensionAskedEffect
<1>15. CASE ResetRemoves
  BY <1>15, ResetRemovesEffect, Idle, Replaces DEF BytesAreThere, Has, Removing, Replacing
<1>16. CASE ResetRenews
  BY <1>16, ResetRenewsEffect, <1>0 DEF BytesAreThere, Has, Removing, Replacing, Byte
<1>17. CASE ResetErases
  BY <1>17, ResetErasesEffect, <1>0 DEF BytesAreThere, Has, Removing, Replacing, None, Byte
<1>18. CASE ErrorEnds
  BY <1>18, ErrorEndsEffect, HolderHasRecord DEF BytesAreThere, Has, Removing, Replacing, Rec,
     Free
<1>19. CASE WatcherErrs
  BY <1>19, WatcherErrsEffect DEF BytesAreThere, Has, Removing, Replacing, Free
<1>20. CASE WatcherHears
  BY <1>20, WatcherHearsEffect DEF BytesAreThere, Has, Removing, Replacing
<1>21. CASE WatcherMarks
  BY <1>21, WatcherMarksEffect DEF BytesAreThere, Has, Removing, Replacing, Free
<1>22. CASE WatcherStats
  BY <1>22, WatcherStatsEffect DEF BytesAreThere, Has, Removing, Replacing
<1>23. CASE WatcherPuts
  <2>1. /\ UNCHANGED <<mem, fetch, file, holder, tick, del>> /\ db'.save = db.save
        /\ db'.task = {watch.rec} /\ watch.pc = "put"
    BY <1>23, WatcherPutsEffect
  <2>2. mem.listed /\ watch.rec.url = mem.url
    BY <2>1 DEF WatcherKnows, Rec
  <2>3. db.task # {}
    BY <2>2 DEF DeletedIsQuiet
  <2>4. PICK r \in db.task : TRUE
    BY <2>3
  <2>5. \A q \in db'.task : q.url = mem.url
    BY <2>1, <2>2
  <2>6. /\ Removing \/ Has(fetch.pos, mem.url)
        /\ Replacing \/ Has(db.save, mem.url)
        /\ Replacing => mem.url = 2 /\ mem.status = "running"
        /\ holder.pc = "remove" => mem.url = 2 /\ r.url = 1
        /\ fetch.run \in {"run", "done", "failed", "over"} => file.there
    BY <2>4 DEF BytesAreThere, Replacing
  <2>7. holder.pc # "remove"
    BY <2>1 DEF LockIsHeld, TypeInv, TypeOK, Holder
  <2> QED BY <2>1, <2>5, <2>6, <2>7 DEF BytesAreThere, Has, Removing, Replacing
<1>24. CASE TickLooks
  BY <1>24, TickLooksEffect DEF BytesAreThere, Has, Removing, Replacing
<1>25. CASE DeleteBegins
  BY <1>25, DeleteBeginsEffect, <1>0 DEF BytesAreThere, Has, Removing, Replacing, DebtIsOwed,
     Settled, Owed, Matches
<1>26. CASE DeleteGoesOn
  BY <1>26, DeleteGoesOnEffect, <1>0 DEF BytesAreThere, Has, Removing, Replacing, DeletedIsQuiet
<1>27. CASE TickStores
  BY <1>27, TickStoresEffect DEF BytesAreThere, Has, Removing, Replacing
<1>28. CASE TickSaves
  BY <1>28, TickSavesEffect, <1>0 DEF BytesAreThere, Has, Removing, Replacing, TickIsPrompt, Free
<1>29. CASE TickEnds
  BY <1>29, TickEndsEffect, <1>0 DEF BytesAreThere, Has, Removing, Replacing, TickIsPrompt, Free,
     Rec, DeletedIsQuiet
<1>30. CASE Crash
  <2>1. ASSUME NEW r \in db.task, CrashOf(r)
        PROVE  BytesAreThere'
    <3>1. /\ mem'.url = r.url /\ \A q \in db.task : q = r
          /\ del'.pc = IF FileIsMissing(r) THEN "task" ELSE "none"
      BY <2>1 DEF CrashOf, TypeInv, TypeOK, Task
    <3>2. /\ fetch'.pos = 0 /\ fetch'.run = "none" /\ holder'.pc = "none"
          /\ UNCHANGED <<file, db>> /\ ~HalfReplaced
      BY <1>30, <1>0, CrashEffect DEF NoFetcher, Free
    <3>3. Has(db.save, r.url)
      BY <1>0, <2>1, <3>2 DEF BytesAreThere, HalfReplaced, Has, Replacing, None, Byte
    <3>4. \A b \in Byte : ~(b <= 0)
      BY DEF Byte
    <3> QED BY <3>1, <3>2, <3>3, <3>4 DEF BytesAreThere, Has, Removing, Replacing
  <2> QED BY <1>30, <2>1, CrashEffect DEF BytesAreThere
<1>31. CASE UNCHANGED vars
  BY <1>31 DEF vars, BytesAreThere, Has, Removing, Replacing
<1> QED BY <1>1, <1>2, <1>3, <1>4, <1>5, <1>6, <1>7, <1>8, <1>9, <1>10, <1>11, <1>12, <1>13, <1>14,
   <1>15, <1>16, <1>17, <1>18, <1>19, <1>20, <1>21, <1>22, <1>23, <1>24, <1>25, <1>26, <1>27,
   <1>28, <1>29, <1>30, <1>31 DEF Next, Handler, Error, Watcher, Tick

LEMMA DoneStep ==
  ASSUME TypeInv, setup.prompt, LockIsHeld, TickIsPrompt, EndIsKept, WatcherKnows, DeletedIsQuiet,
         BytesAreThere, DoneHasBytes, [Next]_vars
  PROVE  DoneHasBytes'
<1>0. fetch.pos \in 0 .. Len_
  BY DEF TypeInv, TypeOK, Fetcher, Position
<1>1. CASE FetcherWrites
  BY <1>1, FetcherWritesEffect DEF DoneHasBytes, Has
<1>2. CASE Start
  BY <1>2, StartEffect DEF DoneHasBytes, Has
<1>3. CASE Pause
  BY <1>3, PauseEffect DEF DoneHasBytes, Has
<1>4. CASE HandlerResolves
  BY <1>4, HandlerResolvesEffect DEF DoneHasBytes, Has
<1>5. CASE HandlerStarts
  BY <1>5, HandlerStartsEffect DEF DoneHasBytes, Has
<1>6. CASE HandlerStats
  BY <1>6, HandlerStatsEffect DEF DoneHasBytes, Has
<1>7. CASE HandlerSaves
  BY <1>7, HandlerSavesEffect DEF DoneHasBytes, Has
<1>8. CASE HandlerEnds
  BY <1>8, HandlerEndsEffect, HolderHasRecord DEF DoneHasBytes, Rec, Has
<1>9. CASE HandlerErrs
  BY <1>9, HandlerErrsEffect DEF DoneHasBytes, Has
<1>10. CASE ExtensionAsked
  BY <1>10, ExtensionAskedEffect DEF DoneHasBytes, Has, EndIsKept
<1>11. CASE ResetRemoves
  BY <1>11, ResetRemovesEffect DEF DoneHasBytes, BytesAreThere, Replacing, Has
<1>12. CASE ResetRenews
  BY <1>12, ResetRenewsEffect DEF DoneHasBytes, Has
<1>13. CASE ResetErases
  BY <1>13, ResetErasesEffect DEF DoneHasBytes, Has
<1>14. CASE ErrorEnds
  BY <1>14, ErrorEndsEffect, HolderHasRecord DEF DoneHasBytes, Rec, Has
<1>15. CASE WatcherErrs
  BY <1>15, WatcherErrsEffect DEF DoneHasBytes, Has
<1>16. CASE WatcherMarks
  BY <1>16, WatcherMarksEffect, <1>0 DEF DoneHasBytes, BytesAreThere, Removing, WatcherKnows,
     Has, Free
<1>17. CASE WatcherStats
  BY <1>17, WatcherStatsEffect DEF DoneHasBytes, Has
<1>18. CASE WatcherPuts
  BY <1>18, WatcherPutsEffect DEF DoneHasBytes, Has, WatcherKnows, EndIsKept, DeletedIsQuiet, Rec
<1>19. CASE TickLooks
  BY <1>19, TickLooksEffect DEF DoneHasBytes, Has
<1>20. CASE DeleteBegins
  BY <1>20, DeleteBeginsEffect DEF DoneHasBytes, Has
<1>21. CASE DeleteGoesOn
  BY <1>21, DeleteGoesOnEffect DEF DoneHasBytes, DeletedIsQuiet, Has
<1>22. CASE TickSaves
  BY <1>22, TickSavesEffect DEF DoneHasBytes, Has
<1>23. CASE TickEnds
  BY <1>23, TickEndsEffect, <1>0 DEF DoneHasBytes, Has, TickIsPrompt, Rec
<1>24. CASE Crash
  <2>1. ASSUME NEW r \in db.task, CrashOf(r)
        PROVE  DoneHasBytes'
    <3>1. mem'.url = r.url /\ mem'.status = Reloaded(r.status) /\ \A q \in db.task : q = r
      BY <2>1 DEF CrashOf, TypeInv, TypeOK, Task
    <3>2. UNCHANGED <<file, db>>
      BY <1>24, CrashEffect
    <3> QED BY <2>1, <3>1, <3>2 DEF DoneHasBytes, Has, Reloaded
  <2> QED BY <1>24, <2>1, CrashEffect DEF DoneHasBytes
<1>25. CASE \/ FetcherEnds \/ Patch \/ HandlerLocks \/ HandlerPauses \/ WatcherHears
            \/ TickStores
  <2>1. UNCHANGED <<mem, file, db>>
    BY <1>25, FetcherEndsEffect, PatchEffect, HandlerLocksEffect, HandlerPausesEffect,
       WatcherHearsEffect, TickStoresEffect
  <2> QED BY <2>1 DEF DoneHasBytes, Has
<1>26. CASE UNCHANGED vars
  BY <1>26 DEF vars, DoneHasBytes, Has
<1> QED BY <1>1, <1>2, <1>3, <1>4, <1>5, <1>6, <1>7, <1>8, <1>9, <1>10, <1>11, <1>12, <1>13, <1>14,
   <1>15, <1>16, <1>17, <1>18, <1>19, <1>20, <1>21, <1>22, <1>23, <1>24, <1>25, <1>26 DEF Next,
   Handler, Error, Watcher, Tick


LEMMA DebtStep ==
  ASSUME TypeInv, setup.prompt, LockIsHeld, TickIsPrompt, NewestActs, WatcherKnows, DebtIsOwed,
         [Next]_vars
  PROVE  DebtIsOwed'
<1>1. CASE Start
  <2>1. Owed'
    BY <1>1, StartEffect DEF Adds, Owed
  <2> QED BY <2>1 DEF DebtIsOwed
<1>2. CASE Pause
  <2>1. Owed'
    BY <1>2, PauseEffect DEF Adds, Owed
  <2> QED BY <2>1 DEF DebtIsOwed
<1>3. CASE Patch
  <2>1. holder'.kind # "none"
    BY <1>3, PatchEffect DEF LockIsHeld
  <2> QED BY <2>1 DEF DebtIsOwed, Free
<1>4. CASE HandlerLocks
  <2>1. UNCHANGED <<mem, db, watch>> /\ holder = Free
    BY <1>4, HandlerLocksEffect
  <2>2. holder' # Free \/ (Owed => Owed')
    BY <1>4, HandlerLocksEffect DEF Owed, Free
  <2> QED BY <2>1, <2>2 DEF DebtIsOwed, Matches
<1>5. CASE HandlerResolves
  <2>1. CASE holder'.kind = "start"
    BY <2>1 DEF DebtIsOwed, Free
  <2>2. CASE UNCHANGED <<mem, pending>> /\ mem.gen # holder.gen
    <3>1. holder # Free
      BY <1>5, HandlerResolvesEffect DEF Free
    <3> QED BY <2>2, <3>1 DEF DebtIsOwed, NewestActs, Owed
  <2>3. CASE UNCHANGED mem /\ mem.gen = holder.gen /\ Adds("error", holder.gen)
    BY <2>3 DEF DebtIsOwed, Adds, Owed
  <2> QED BY <1>5, <2>1, <2>2, <2>3, HandlerResolvesEffect
<1>6. CASE HandlerStarts
  <2>1. CASE holder'.kind = "start"
    BY <2>1 DEF DebtIsOwed, Free
  <2>2. CASE UNCHANGED <<mem, pending>> /\ mem.gen # holder.gen
    <3>1. holder # Free
      BY <1>6, HandlerStartsEffect DEF Free
    <3> QED BY <2>2, <3>1 DEF DebtIsOwed, NewestActs, Owed
  <2>3. CASE UNCHANGED mem /\ mem.gen = holder.gen /\ Adds("error", holder.gen)
    BY <2>3 DEF DebtIsOwed, Adds, Owed
  <2> QED BY <1>6, <2>1, <2>2, <2>3, HandlerStartsEffect
<1>7. CASE HandlerPauses
  <2>1. holder'.kind # "none"
    BY <1>7, HandlerPausesEffect DEF LockIsHeld
  <2> QED BY <2>1 DEF DebtIsOwed, Free
<1>8. CASE HandlerStats
  <2>1. holder'.kind # "none"
    BY <1>8, HandlerStatsEffect DEF LockIsHeld
  <2> QED BY <2>1 DEF DebtIsOwed, Free
<1>9. CASE HandlerSaves
  <2>1. holder'.kind # "none"
    BY <1>9, HandlerSavesEffect DEF LockIsHeld
  <2> QED BY <2>1 DEF DebtIsOwed, Free
<1>10. CASE HandlerEnds
  BY <1>10, HandlerEndsEffect DEF DebtIsOwed, Matches, Owed, Rec
<1>11. CASE HandlerErrs
  <2>1. CASE holder'.kind = "failure"
    BY <2>1 DEF DebtIsOwed, Free
  <2>2. CASE mem.status # "running" /\ UNCHANGED <<mem, holder>>
    <3>1. UNCHANGED <<db, watch>>
      BY <1>11, HandlerErrsEffect
    <3>2. Owed => Owed'
      BY <1>11, <2>2, HandlerErrsEffect DEF NewestActs, Owed
    <3> QED BY <2>2, <3>1, <3>2 DEF DebtIsOwed, Matches
  <2> QED BY <1>11, <2>1, <2>2, HandlerErrsEffect
<1>12. CASE ExtensionAsked
  <2>1. holder'.kind # "none"
    BY <1>12, ExtensionAskedEffect DEF LockIsHeld
  <2> QED BY <2>1 DEF DebtIsOwed, Free
<1>13. CASE ResetRemoves
  <2>1. holder'.kind # "none"
    BY <1>13, ResetRemovesEffect DEF LockIsHeld
  <2> QED BY <2>1 DEF DebtIsOwed, Free
<1>14. CASE ResetRenews
  <2>1. holder'.kind # "none"
    BY <1>14, ResetRenewsEffect DEF LockIsHeld
  <2> QED BY <2>1 DEF DebtIsOwed, Free
<1>15. CASE ResetErases
  <2>1. holder'.kind # "none"
    BY <1>15, ResetErasesEffect DEF LockIsHeld
  <2> QED BY <2>1 DEF DebtIsOwed, Free
<1>16. CASE ErrorEnds
  <2>0. holder.kind \in {"error", "failure"} /\ holder # Free
    BY <1>16, ErrorEndsEffect DEF LockIsHeld, Free, TypeInv, TypeOK, Holder
  <2>1. CASE db'.task = {Rec}
    BY <1>16, <2>1, ErrorEndsEffect DEF DebtIsOwed, Matches, Rec
  <2>2. CASE mem.status # "error"
    <3>1. Owed
      BY <2>0, <2>2 DEF NewestActs
    <3>2. UNCHANGED <<mem, pending>>
      BY <1>16, ErrorEndsEffect
    <3> QED BY <3>1, <3>2 DEF DebtIsOwed, Owed
  <2> QED BY <1>16, <2>1, <2>2, ErrorEndsEffect
<1>17. CASE WatcherErrs
  <2>1. CASE holder'.kind = "error"
    BY <2>1 DEF DebtIsOwed, Free
  <2>2. CASE UNCHANGED <<mem, holder>>
    <3>1. UNCHANGED <<db, pending>> /\ watch.pc = "error"
      BY <1>17, WatcherErrsEffect
    <3> QED BY <2>2, <3>1 DEF DebtIsOwed, Matches, Owed
  <2> QED BY <1>17, <2>1, <2>2, WatcherErrsEffect
<1>18. CASE WatcherHears
  BY <1>18, WatcherHearsEffect DEF DebtIsOwed, Matches, Owed
<1>19. CASE WatcherMarks
  <2>1. CASE watch'.pc = "stats"
    BY <2>1 DEF DebtIsOwed
  <2>2. CASE UNCHANGED mem
    <3>1. UNCHANGED <<db, pending, holder>> /\ watch.pc = "mark"
      BY <1>19, WatcherMarksEffect
    <3> QED BY <2>2, <3>1 DEF DebtIsOwed, Matches, Owed
  <2> QED BY <1>19, <2>1, <2>2, WatcherMarksEffect
<1>20. CASE WatcherStats
  BY <1>20, WatcherStatsEffect DEF DebtIsOwed, Matches, Owed
<1>21. CASE WatcherPuts
  BY <1>21, WatcherPutsEffect DEF DebtIsOwed, Matches, Owed, Rec, WatcherKnows
<1>22. CASE TickLooks
  BY <1>22, TickLooksEffect DEF DebtIsOwed, Matches, Owed
<1>23. CASE DeleteBegins
  BY <1>23, DeleteBeginsEffect DEF DebtIsOwed, Matches, Owed
<1>24. CASE DeleteGoesOn
  BY <1>24, DeleteGoesOnEffect DEF DebtIsOwed, Matches, Owed
<1>25. CASE TickSaves
  BY <1>25, TickSavesEffect DEF DebtIsOwed, Matches, Owed
<1>26. CASE TickEnds
  BY <1>26, TickEndsEffect DEF DebtIsOwed, Matches, Owed, Rec, TickIsPrompt
<1>27. CASE Crash
  <2>1. ASSUME NEW r \in db.task, CrashOf(r)
        PROVE  DebtIsOwed'
    <3>1. /\ mem'.url = r.url /\ mem'.status = Reloaded(r.status) /\ mem'.res = r.res
          /\ \A q \in db.task : q = r
      BY <2>1 DEF CrashOf, TypeInv, TypeOK, Task
    <3>2. UNCHANGED db
      BY <1>27, CrashEffect
    <3> QED BY <3>1, <3>2 DEF DebtIsOwed, Matches, Reloaded
  <2> QED BY <1>27, <2>1, CrashEffect DEF DebtIsOwed
<1>28. CASE \/ FetcherWrites \/ FetcherEnds \/ TickStores
  <2>1. UNCHANGED <<mem, db, pending, holder, watch>>
    BY <1>28, FetcherWritesEffect, FetcherEndsEffect, TickStoresEffect
  <2> QED BY <2>1 DEF DebtIsOwed, Matches, Owed
<1>29. CASE UNCHANGED vars
  BY <1>29 DEF vars, DebtIsOwed, Matches, Owed
<1> QED BY <1>1, <1>2, <1>3, <1>4, <1>5, <1>6, <1>7, <1>8, <1>9, <1>10, <1>11, <1>12, <1>13, <1>14,
   <1>15, <1>16, <1>17, <1>18, <1>19, <1>20, <1>21, <1>22, <1>23, <1>24, <1>25, <1>26, <1>27,
   <1>28, <1>29 DEF Next, Handler, Error, Watcher, Tick

LEMMA OneSourceStep ==
  ASSUME TypeInv, setup.prompt, TickIsPrompt, WatcherKnows, OneSource, [Next]_vars
  PROVE  OneSource'
<1>a. setup \in Setup
  BY DEF TypeInv
<1>b. SetupShrinks
  BY <1>a, SetupStep
<1>0. setup.recovers \in Nat /\ setup.recovers = 0 /\ setup'.recovers = 0
  BY <1>a, <1>b DEF SetupShrinks, Setup, OneSource
<1>1. CASE Start
  BY <1>1, StartEffect, <1>0 DEF OneSource, Replacing
<1>2. CASE Pause
  BY <1>2, PauseEffect, <1>0 DEF OneSource, Replacing
<1>3. CASE Patch
  BY <1>3, PatchEffect, <1>0 DEF OneSource, Replacing
<1>4. CASE HandlerLocks
  BY <1>4, HandlerLocksEffect, <1>0 DEF OneSource, Replacing, Free
<1>5. CASE HandlerResolves
  <2>1. mem'.url = mem.url /\ UNCHANGED db
    BY <1>5, HandlerResolvesEffect
  <2>2. holder' = Free \/ holder'.pc = "start"
    BY <1>5, HandlerResolvesEffect
  <2>f. holder'.pc \in {"none", "start"}
    BY <2>2 DEF Free
  <2> QED BY <1>0, <2>1, <2>f DEF OneSource, Replacing
<1>6. CASE HandlerStarts
  BY <1>6, HandlerStartsEffect, <1>0 DEF OneSource, Replacing, Free
<1>7. CASE HandlerPauses
  BY <1>7, HandlerPausesEffect, <1>0 DEF OneSource, Replacing
<1>8. CASE HandlerStats
  BY <1>8, HandlerStatsEffect, <1>0 DEF OneSource, Replacing
<1>9. CASE HandlerSaves
  BY <1>9, HandlerSavesEffect, <1>0 DEF OneSource, Replacing
<1>10. CASE HandlerEnds
  BY <1>10, HandlerEndsEffect, <1>0 DEF OneSource, Replacing, Rec, Free
<1>11. CASE HandlerErrs
  BY <1>11, HandlerErrsEffect, <1>0 DEF OneSource, Replacing, Free
<1>12. CASE ExtensionAsked
  BY <1>12, ExtensionAskedEffect, <1>0 DEF OneSource, Replacing
<1>13. CASE ResetRemoves
  BY <1>13, ResetRemovesEffect, <1>0 DEF OneSource, Replacing
<1>14. CASE ResetRenews
  BY <1>14, ResetRenewsEffect, <1>0 DEF OneSource, Replacing
<1>15. CASE ResetErases
  BY <1>15, ResetErasesEffect, <1>0 DEF OneSource, Replacing
<1>16. CASE ErrorEnds
  BY <1>16, ErrorEndsEffect, <1>0 DEF OneSource, Replacing, Rec, Free
<1>17. CASE WatcherErrs
  BY <1>17, WatcherErrsEffect, <1>0 DEF OneSource, Replacing, Free
<1>18. CASE WatcherMarks
  BY <1>18, WatcherMarksEffect, <1>0 DEF OneSource, Replacing
<1>19. CASE WatcherStats
  BY <1>19, WatcherStatsEffect, <1>0 DEF OneSource, Replacing
<1>20. CASE WatcherPuts
  BY <1>20, WatcherPutsEffect, <1>0 DEF OneSource, Replacing, WatcherKnows, Rec
<1>21. CASE TickLooks
  BY <1>21, TickLooksEffect, <1>0 DEF OneSource, Replacing
<1>22. CASE DeleteBegins
  BY <1>22, DeleteBeginsEffect, <1>0 DEF OneSource, Replacing
<1>23. CASE DeleteGoesOn
  BY <1>23, DeleteGoesOnEffect, <1>0 DEF OneSource, Replacing
<1>24. CASE TickSaves
  BY <1>24, TickSavesEffect, <1>0 DEF OneSource, Replacing
<1>25. CASE TickEnds
  BY <1>25, TickEndsEffect, <1>0 DEF OneSource, Replacing, TickIsPrompt, Rec
<1>26. CASE Crash
  <2>0. setup'.recovers = 0 /\ ~Replacing' /\ UNCHANGED db
    BY <1>26, <1>0, CrashEffect DEF OneSource, Replacing, Free
  <2>1. CASE mem' = [mem EXCEPT !.listed = FALSE]
    <3>1. mem'.url = mem.url
      BY <2>1 DEF TypeInv, TypeOK, Task
    <3> QED BY <2>0, <3>1 DEF OneSource
  <2>2. ASSUME NEW r \in db.task, CrashOf(r)
        PROVE  OneSource'
    <3>1. mem'.url = r.url
      BY <2>2 DEF CrashOf, TypeInv, TypeOK, Task
    <3> QED BY <2>0, <2>2, <3>1 DEF OneSource
  <2> QED BY <1>26, <2>1, <2>2, CrashEffect
<1>27. CASE \/ FetcherWrites \/ FetcherEnds \/ WatcherHears \/ TickStores
  <2>1. UNCHANGED <<mem, db, holder>>
    BY <1>27, FetcherWritesEffect, FetcherEndsEffect, WatcherHearsEffect, TickStoresEffect
  <2> QED BY <1>0, <2>1 DEF OneSource, Replacing
<1>28. CASE UNCHANGED vars
  BY <1>28 DEF vars, OneSource, Replacing
<1> QED BY <1>1, <1>2, <1>3, <1>4, <1>5, <1>6, <1>7, <1>8, <1>9, <1>10, <1>11, <1>12, <1>13, <1>14,
   <1>15, <1>16, <1>17, <1>18, <1>19, <1>20, <1>21, <1>22, <1>23, <1>24, <1>25, <1>26, <1>27,
   <1>28 DEF Next, Handler, Error, Watcher, Tick


LEMMA SamePending ==
  ASSUME TypeInv
  PROVE  \A p, q \in pending : p.kind = q.kind /\ p.gen = q.gen => p = q
  BY DEF TypeInv, TypeOK, Waiting

\* The conjuncts of NoPauses, each by a name of its own.
NoPausing == setup.pauses = 0 /\ holder.kind # "pause" /\ \A p \in pending : p.kind # "pause"
StartsFailed == \A p \in pending : p.kind = "error" => StartFailed(p)
RunsNow == Running => mem.status \in {"running", "done"} /\ ~Owed /\ ~AtStart
ErrorIsIdle == watch.pc \in {"error", "errs"} => fetch.run = "idle"
StartIsTaken == holder.kind = "start" => \A p \in pending : p.gen # holder.gen

LEMMA NoPausesParts ==
  NoPauses <=> NoPausing /\ StartsFailed /\ RunsNow /\ ErrorIsIdle /\ StartIsTaken
  BY DEF NoPauses, NoPausing, StartsFailed, RunsNow, ErrorIsIdle, StartIsTaken

LEMMA NoPausingStep ==
  ASSUME TypeInv, NoPausing, [Next]_vars
  PROVE  NoPausing'
<1>a. setup \in Setup
  BY DEF TypeInv
<1>b. SetupShrinks
  BY <1>a, SetupStep
<1>0. setup.pauses \in Nat /\ setup.pauses = 0 /\ setup'.pauses = 0
  BY <1>a, <1>b DEF SetupShrinks, Setup, NoPausing
<1>1. CASE Start
  BY <1>1, StartEffect, <1>0 DEF NoPausing, Adds
<1>2. CASE Pause
  BY <1>2, PauseEffect, <1>0 DEF NoPausing
<1>3. CASE Patch
  BY <1>3, PatchEffect, <1>0 DEF NoPausing
<1>4. CASE HandlerLocks
  <2>1. holder'.kind # "pause"
    BY <1>4, HandlerLocksEffect DEF NoPausing, Free
  <2>2. \A p \in pending' : p \in pending
    BY <1>4, HandlerLocksEffect
  <2> QED BY <1>0, <2>1, <2>2 DEF NoPausing
<1>5. CASE HandlerResolves
  <2>1. holder' = Free \/ holder'.kind = "start"
    BY <1>5, HandlerResolvesEffect
  <2>2. holder'.kind # "pause"
    BY <2>1 DEF Free
  <2>3. \A p \in pending' : p \in pending \/ p.kind = "error"
    BY <1>5, HandlerResolvesEffect DEF Adds
  <2> QED BY <1>0, <2>2, <2>3 DEF NoPausing
<1>6. CASE HandlerStarts
  <2>1. holder'.kind # "pause"
    BY <1>6, HandlerStartsEffect DEF Free
  <2>2. \A p \in pending' : p \in pending \/ p.kind = "error"
    BY <1>6, HandlerStartsEffect DEF Adds
  <2> QED BY <1>0, <2>1, <2>2 DEF NoPausing
<1>7. CASE HandlerPauses
  BY <1>7, HandlerPausesEffect, <1>0 DEF NoPausing
<1>8. CASE HandlerStats
  BY <1>8, HandlerStatsEffect, <1>0 DEF NoPausing
<1>9. CASE HandlerSaves
  BY <1>9, HandlerSavesEffect, <1>0 DEF NoPausing
<1>10. CASE HandlerEnds
  BY <1>10, HandlerEndsEffect, <1>0 DEF NoPausing, Free
<1>11. CASE HandlerErrs
  BY <1>11, HandlerErrsEffect, <1>0 DEF NoPausing, Free
<1>12. CASE ExtensionAsked
  BY <1>12, ExtensionAskedEffect, <1>0 DEF NoPausing, Adds
<1>13. CASE ResetRemoves
  BY <1>13, ResetRemovesEffect, <1>0 DEF NoPausing
<1>14. CASE ResetRenews
  BY <1>14, ResetRenewsEffect, <1>0 DEF NoPausing
<1>15. CASE ResetErases
  BY <1>15, ResetErasesEffect, <1>0 DEF NoPausing
<1>16. CASE ErrorEnds
  BY <1>16, ErrorEndsEffect, <1>0 DEF NoPausing, Free
<1>17. CASE WatcherErrs
  BY <1>17, WatcherErrsEffect, <1>0 DEF NoPausing, Free
<1>18. CASE Crash
  BY <1>18, CrashEffect, <1>0 DEF NoPausing, Free
<1>19. CASE \/ FetcherWrites \/ FetcherEnds \/ WatcherHears \/ WatcherMarks \/ WatcherStats
            \/ WatcherPuts \/ TickLooks \/ DeleteBegins \/ DeleteGoesOn \/ TickStores
            \/ TickSaves \/ TickEnds
  <2>1. UNCHANGED <<pending, holder>>
    BY <1>19, FetcherWritesEffect, FetcherEndsEffect, WatcherHearsEffect, WatcherMarksEffect,
       WatcherStatsEffect, WatcherPutsEffect, TickLooksEffect, DeleteBeginsEffect,
       DeleteGoesOnEffect, TickStoresEffect, TickSavesEffect, TickEndsEffect
  <2> QED BY <1>0, <2>1 DEF NoPausing
<1>20. CASE UNCHANGED vars
  BY <1>20 DEF vars, NoPausing
<1> QED BY <1>1, <1>2, <1>3, <1>4, <1>5, <1>6, <1>7, <1>8, <1>9, <1>10, <1>11, <1>12, <1>13, <1>14,
   <1>15, <1>16, <1>17, <1>18, <1>19, <1>20 DEF Next, Handler, Error, Watcher, Tick


LEMMA FailuresKept ==
  ASSUME StartsFailed, RunsNow, mem'.status = mem.status, mem'.gen = mem.gen,
         Running' => Running, AtStart' => AtStart, watch'.pc = "errs" => watch.pc = "errs",
         \A p \in pending' : p \in pending
  PROVE  StartsFailed' /\ RunsNow'
<1>1. ASSUME NEW p \in pending', p.kind = "error"
      PROVE  StartFailed(p)'
  <2>1. StartFailed(p)
    BY <1>1 DEF StartsFailed
  <2> QED BY <2>1 DEF StartFailed
<1>2. Owed' => Owed
  BY DEF Owed
<1> QED BY <1>1, <1>2 DEF StartsFailed, RunsNow

LEMMA NoFailures ==
  ASSUME \A p \in pending' : p.kind # "error", ~Running'
  PROVE  StartsFailed' /\ RunsNow'
  BY DEF StartsFailed, RunsNow

LEMMA FailedAlone ==
  ASSUME StartsFailed, NEW p \in pending, p.kind = "error"
  PROVE  /\ ~Running /\ ~AtStart /\ watch.pc # "errs" /\ mem.status \in {"running", "done"}
         /\ \A q \in pending : q.gen = mem.gen => q.kind = "error"
         /\ mem.status = "running" => p.gen = mem.gen
  BY DEF StartsFailed, StartFailed

LEMMA FailuresStep ==
  ASSUME TypeInv, LockIsHeld, NewestActs, NoPausing, StartsFailed, RunsNow, ErrorIsIdle,
         StartIsTaken, [Next]_vars
  PROVE  StartsFailed' /\ RunsNow'
<1>a. setup \in Setup
  BY DEF TypeInv
<1>0. ~(setup.pauses > 0)
  BY <1>a DEF Setup, NoPausing
<1>1. CASE FetcherWrites
  <2>1. mem'.status = mem.status /\ mem'.gen = mem.gen /\ UNCHANGED pending
    BY <1>1, FetcherWritesEffect
  <2>2. Running' => Running
    BY <1>1, FetcherWritesEffect DEF Running
  <2>3. watch'.pc = "errs" => watch.pc = "errs"
    BY <1>1, FetcherWritesEffect
  <2>5. AtStart' => AtStart
    BY <1>1, <2>1, FetcherWritesEffect DEF AtStart
  <2> QED BY <2>1, <2>2, <2>3, <2>5, FailuresKept
<1>2. CASE FetcherEnds
  <2>1. mem'.status = mem.status /\ mem'.gen = mem.gen /\ UNCHANGED pending
    BY <1>2, FetcherEndsEffect
  <2>2. Running' => Running
    BY <1>2, FetcherEndsEffect DEF Running
  <2>3. watch'.pc = "errs" => watch.pc = "errs"
    BY <1>2, FetcherEndsEffect
  <2>5. AtStart' => AtStart
    BY <1>2, <2>1, FetcherEndsEffect DEF AtStart
  <2> QED BY <2>1, <2>2, <2>3, <2>5, FailuresKept
<1>3. CASE Start
  <2>1. ~Running /\ \A p \in pending : p.kind # "error"
    BY <1>3, StartEffect, FailedAlone DEF RunsNow
  <2>2. \A p \in pending' : p.kind # "error"
    BY <1>3, <2>1, StartEffect DEF Adds
  <2>3. ~Running'
    BY <1>3, <2>1, StartEffect DEF Running
  <2> QED BY <2>2, <2>3, NoFailures
<1>4. CASE Pause
  BY <1>4, PauseEffect, <1>0 DEF StartsFailed, RunsNow
<1>5. CASE Patch
  <2>1. mem'.status = mem.status /\ mem'.gen = mem.gen /\ UNCHANGED pending
    BY <1>5, PatchEffect
  <2>2. Running' => Running
    BY <1>5, PatchEffect DEF Running
  <2>3. watch'.pc = "errs" => watch.pc = "errs"
    BY <1>5, PatchEffect
  <2>5. AtStart' => AtStart
    BY <1>5, <2>1, PatchEffect DEF AtStart
  <2> QED BY <2>1, <2>2, <2>3, <2>5, FailuresKept
<1>6. CASE HandlerLocks
  <2>1. PICK p \in pending :
          /\ p.kind \in {"start", "pause"} /\ pending' = pending \ {p}
          /\ \/ holder' = Free
             \/ p.gen = mem.gen
    BY <1>6, HandlerLocksEffect
  <2>2. UNCHANGED <<mem, fetch, watch>>
    BY <1>6, HandlerLocksEffect
  <2>3. Running' => Running
    BY <2>2 DEF Running
  <2>4. CASE holder' = Free
    <3>1. ~AtStart'
      BY <2>4 DEF AtStart, Free
    <3> QED BY <2>1, <2>2, <2>3, <3>1, FailuresKept
  <2>5. CASE p.gen = mem.gen
    <3>1. \A q \in pending : q.kind # "error"
      BY <2>1, <2>5, FailedAlone
    <3>2. ~Running
      BY <2>5 DEF RunsNow, Owed
    <3> QED BY <2>1, <2>3, <3>1, <3>2, NoFailures
  <2> QED BY <2>1, <2>4, <2>5
<1>7. CASE HandlerResolves
  <2>1. /\ mem'.status = mem.status /\ mem'.gen = mem.gen /\ UNCHANGED <<fetch, watch>>
        /\ holder.kind = "start" /\ holder.pc = "resolve"
    BY <1>7, HandlerResolvesEffect
  <2>2. Running' => Running
    BY <2>1 DEF Running
  <2>3. CASE holder'.kind = "start" /\ holder'.gen = holder.gen /\ UNCHANGED pending
    <3>1. AtStart' => AtStart
      BY <2>1, <2>3 DEF AtStart
    <3> QED BY <2>1, <2>2, <2>3, <3>1, FailuresKept
  <2>4. CASE holder' = Free /\ UNCHANGED pending
    <3>1. ~AtStart'
      BY <2>4 DEF AtStart, Free
    <3> QED BY <2>1, <2>2, <2>4, <3>1, FailuresKept
  <2>5. CASE holder' = Free /\ mem.gen = holder.gen /\ Adds("error", holder.gen)
    <3>1. AtStart
      BY <2>1, <2>5 DEF AtStart
    <3>2. ~Running'
      BY <2>2, <3>1 DEF RunsNow
    <3>3. ~AtStart'
      BY <2>5 DEF AtStart, Free
    <3>4. mem.status = "running"
      BY <2>1, <2>5 DEF NewestActs
    <3>5. watch'.pc # "errs"
      BY <2>1 DEF LockIsHeld
    <3>6. \A p \in pending : p.kind # "error"
      BY <3>1, FailedAlone
    <3>7. \A p \in pending' : p.gen = mem.gen => p.kind = "error"
      BY <2>1, <2>5 DEF StartIsTaken, Adds
    <3>8. \A p \in pending' : p.kind = "error" => p.gen = mem.gen
      BY <2>5, <3>6 DEF Adds
    <3>9. StartsFailed'
      BY <2>1, <3>2, <3>3, <3>4, <3>5, <3>7, <3>8 DEF StartsFailed, StartFailed
    <3> QED BY <3>2, <3>9 DEF RunsNow
  <2> QED BY <1>7, <2>3, <2>4, <2>5, HandlerResolvesEffect
<1>8. CASE HandlerStarts
  <2>1. /\ UNCHANGED <<mem, watch>>
        /\ holder.kind = "start" /\ holder.pc = "start"
    BY <1>8, HandlerStartsEffect
  <2>2. CASE holder' = Free /\ UNCHANGED <<fetch, pending>>
    <3>1. ~AtStart'
      BY <2>2 DEF AtStart, Free
    <3>2. Running' => Running
      BY <2>1, <2>2 DEF Running
    <3> QED BY <2>1, <2>2, <3>1, <3>2, FailuresKept
  <2>3. CASE mem.gen = holder.gen /\ holder'.pc = "stats" /\ UNCHANGED pending
    <3>1. AtStart
      BY <2>1, <2>3 DEF AtStart
    <3>2. \A p \in pending' : p.kind # "error"
      BY <2>3, <3>1, FailedAlone
    <3>3. mem'.status = "running"
      BY <2>1, <2>3 DEF NewestActs
    <3>4. ~Owed'
      BY <2>1, <2>3 DEF StartIsTaken, Owed
    <3>5. ~AtStart'
      BY <2>3 DEF AtStart
    <3> QED BY <3>2, <3>3, <3>4, <3>5 DEF StartsFailed, RunsNow
  <2>4. CASE /\ holder' = Free /\ UNCHANGED fetch /\ mem.gen = holder.gen
             /\ Adds("error", holder.gen)
    <3>1. AtStart
      BY <2>1, <2>4 DEF AtStart
    <3>2. ~Running'
      BY <2>1, <2>4, <3>1 DEF RunsNow, Running
    <3>3. ~AtStart'
      BY <2>4 DEF AtStart, Free
    <3>4. mem.status = "running"
      BY <2>1, <2>4 DEF NewestActs
    <3>5. watch'.pc # "errs"
      BY <2>1 DEF LockIsHeld
    <3>6. \A p \in pending : p.kind # "error"
      BY <3>1, FailedAlone
    <3>7. \A p \in pending' : p.gen = mem.gen => p.kind = "error"
      BY <2>1, <2>4 DEF StartIsTaken, Adds
    <3>8. \A p \in pending' : p.kind = "error" => p.gen = mem.gen
      BY <2>4, <3>6 DEF Adds
    <3>9. StartsFailed'
      BY <2>1, <3>2, <3>3, <3>4, <3>5, <3>7, <3>8 DEF StartsFailed, StartFailed
    <3> QED BY <3>2, <3>9 DEF RunsNow
  <2> QED BY <1>8, <2>2, <2>3, <2>4, HandlerStartsEffect
<1>9. CASE HandlerPauses
  <2>1. holder.kind = "pause"
    BY <1>9, HandlerPausesEffect
  <2> QED BY <2>1 DEF NoPausing
<1>10. CASE HandlerStats
  <2>1. mem'.status = mem.status /\ mem'.gen = mem.gen /\ UNCHANGED pending
    BY <1>10, HandlerStatsEffect
  <2>2. Running' => Running
    BY <1>10, HandlerStatsEffect DEF Running
  <2>3. watch'.pc = "errs" => watch.pc = "errs"
    BY <1>10, HandlerStatsEffect
  <2>5. AtStart' => AtStart
    BY <1>10, <2>1, HandlerStatsEffect DEF AtStart
  <2> QED BY <2>1, <2>2, <2>3, <2>5, FailuresKept
<1>11. CASE HandlerSaves
  <2>1. mem'.status = mem.status /\ mem'.gen = mem.gen /\ UNCHANGED pending
    BY <1>11, HandlerSavesEffect
  <2>2. Running' => Running
    BY <1>11, HandlerSavesEffect DEF Running
  <2>3. watch'.pc = "errs" => watch.pc = "errs"
    BY <1>11, HandlerSavesEffect
  <2>5. AtStart' => AtStart
    BY <1>11, <2>1, HandlerSavesEffect DEF AtStart
  <2> QED BY <2>1, <2>2, <2>3, <2>5, FailuresKept
<1>12. CASE HandlerEnds
  <2>1. mem'.status = mem.status /\ mem'.gen = mem.gen /\ UNCHANGED pending
    BY <1>12, HandlerEndsEffect
  <2>2. Running' => Running
    BY <1>12, HandlerEndsEffect DEF Running
  <2>3. watch'.pc = "errs" => watch.pc = "errs"
    BY <1>12, HandlerEndsEffect
  <2>4. holder' = Free
    BY <1>12, HandlerEndsEffect
  <2>5. ~AtStart'
    BY <2>4 DEF AtStart, Free
  <2> QED BY <2>1, <2>2, <2>3, <2>5, FailuresKept
<1>13. CASE HandlerErrs
  <2>1. PICK p \in pending : p.kind = "error" /\ pending' = pending \ {p}
    BY <1>13, HandlerErrsEffect
  <2>2. UNCHANGED <<fetch, watch>>
    BY <1>13, HandlerErrsEffect
  <2>3. ~Running'
    BY <2>1, <2>2, FailedAlone DEF Running
  <2>4. CASE mem.status = "running"
    <3>1. \A q \in pending : q.kind = "error" => q.gen = p.gen
      BY <2>1, <2>4, FailedAlone
    <3>2. \A q \in pending : q.kind = "error" => q = p
      BY <2>1, <3>1, SamePending
    <3> QED BY <2>1, <2>3, <3>2, NoFailures
  <2>5. CASE UNCHANGED <<mem, holder>>
    <3>1. AtStart' => AtStart
      BY <2>5 DEF AtStart
    <3> QED BY <2>1, <2>2, <2>3, <2>5, <3>1, FailuresKept
  <2> QED BY <1>13, <2>4, <2>5, HandlerErrsEffect
<1>14. CASE ExtensionAsked
  <2>1. UNCHANGED <<fetch, watch>> /\ holder'.pc \in {"stats", "remove"}
    BY <1>14, ExtensionAskedEffect
  <2>2. ~AtStart' /\ (Running' => Running)
    BY <2>1 DEF AtStart, Running
  <2>3. CASE UNCHANGED <<mem, pending>>
    BY <2>1, <2>2, <2>3, FailuresKept
  <2>4. CASE holder.kind = "error" /\ Adds("start", mem.gen + 1)
    <3>1. watch.pc = "errs"
      BY <2>4 DEF LockIsHeld
    <3>2. \A p \in pending' : p.kind # "error"
      BY <2>4, <3>1, FailedAlone DEF Adds
    <3>3. ~Running'
      BY <2>1, <3>1 DEF Running, ErrorIsIdle
    <3> QED BY <3>2, <3>3, NoFailures
  <2> QED BY <1>14, <2>3, <2>4, ExtensionAskedEffect
<1>15. CASE ResetRemoves
  <2>1. mem'.status = mem.status /\ mem'.gen = mem.gen /\ UNCHANGED pending
    BY <1>15, ResetRemovesEffect
  <2>2. Running' => Running
    BY <1>15, ResetRemovesEffect DEF Running
  <2>3. watch'.pc = "errs" => watch.pc = "errs"
    BY <1>15, ResetRemovesEffect
  <2>5. AtStart' => AtStart
    BY <1>15, <2>1, ResetRemovesEffect DEF AtStart
  <2> QED BY <2>1, <2>2, <2>3, <2>5, FailuresKept
<1>16. CASE ResetRenews
  <2>1. mem'.status = mem.status /\ mem'.gen = mem.gen /\ UNCHANGED pending
    BY <1>16, ResetRenewsEffect
  <2>2. Running' => Running
    BY <1>16, ResetRenewsEffect DEF Running
  <2>3. watch'.pc = "errs" => watch.pc = "errs"
    BY <1>16, ResetRenewsEffect
  <2>5. AtStart' => AtStart
    BY <1>16, <2>1, ResetRenewsEffect DEF AtStart
  <2> QED BY <2>1, <2>2, <2>3, <2>5, FailuresKept
<1>17. CASE ResetErases
  <2>1. mem'.status = mem.status /\ mem'.gen = mem.gen /\ UNCHANGED pending
    BY <1>17, ResetErasesEffect
  <2>2. Running' => Running
    BY <1>17, ResetErasesEffect DEF Running
  <2>3. watch'.pc = "errs" => watch.pc = "errs"
    BY <1>17, ResetErasesEffect
  <2>5. AtStart' => AtStart
    BY <1>17, <2>1, ResetErasesEffect DEF AtStart
  <2> QED BY <2>1, <2>2, <2>3, <2>5, FailuresKept
<1>18. CASE ErrorEnds
  <2>1. mem'.status = mem.status /\ mem'.gen = mem.gen /\ UNCHANGED pending
    BY <1>18, ErrorEndsEffect
  <2>2. Running' => Running
    BY <1>18, ErrorEndsEffect DEF Running, Quiet
  <2>3. watch'.pc = "errs" => watch.pc = "errs"
    BY <1>18, ErrorEndsEffect DEF Quiet
  <2>4. holder' = Free
    BY <1>18, ErrorEndsEffect
  <2>5. ~AtStart'
    BY <2>4 DEF AtStart, Free
  <2> QED BY <2>1, <2>2, <2>3, <2>5, FailuresKept
<1>19. CASE WatcherErrs
  <2>1. watch.pc = "error" /\ UNCHANGED <<fetch, pending>> /\ (watch'.pc = "errs" \/ watch' = Quiet)
    BY <1>19, WatcherErrsEffect
  <2>2. Running /\ watch'.pc # "error"
    BY <2>1 DEF Running, Quiet
  <2>3. \A p \in pending' : p.kind # "error"
    BY <2>1, <2>2, FailedAlone
  <2>4. ~Running'
    BY <2>1, <2>2 DEF Running, ErrorIsIdle
  <2> QED BY <2>3, <2>4, NoFailures
<1>20. CASE WatcherHears
  <2>1. mem'.status = mem.status /\ mem'.gen = mem.gen /\ UNCHANGED pending
    BY <1>20, WatcherHearsEffect
  <2>2. Running' => Running
    BY <1>20, WatcherHearsEffect DEF Running
  <2>3. watch'.pc = "errs" => watch.pc = "errs"
    BY <1>20, WatcherHearsEffect
  <2>5. AtStart' => AtStart
    BY <1>20, <2>1, WatcherHearsEffect DEF AtStart
  <2> QED BY <2>1, <2>2, <2>3, <2>5, FailuresKept
<1>21. CASE WatcherMarks
  <2>1. /\ UNCHANGED <<fetch, pending, holder>> /\ holder = Free /\ watch.pc = "mark"
        /\ watch'.pc = "stats" \/ watch' = Quiet
    BY <1>21, WatcherMarksEffect
  <2>2. ~AtStart' /\ (Running' => Running) /\ watch'.pc # "errs"
    BY <2>1 DEF AtStart, Running, Free, Quiet
  <2>3. CASE UNCHANGED mem
    BY <2>1, <2>2, <2>3, FailuresKept
  <2>4. CASE mem'.status = "done" /\ mem'.gen = mem.gen + 1
    <3>1. \A p \in pending' : p.gen # mem'.gen
      BY <2>1, <2>4, Numbers
    <3>2. \A p \in pending' : p.kind = "error" => ~Running
      BY <2>1, FailedAlone
    <3>3. StartsFailed'
      BY <2>2, <2>4, <3>1, <3>2 DEF StartsFailed, StartFailed
    <3> QED BY <2>2, <2>4, <3>1, <3>3 DEF RunsNow, Owed
  <2> QED BY <1>21, <2>3, <2>4, WatcherMarksEffect
<1>22. CASE WatcherStats
  <2>1. mem'.status = mem.status /\ mem'.gen = mem.gen /\ UNCHANGED pending
    BY <1>22, WatcherStatsEffect
  <2>2. Running' => Running
    BY <1>22, WatcherStatsEffect DEF Running
  <2>3. watch'.pc = "errs" => watch.pc = "errs"
    BY <1>22, WatcherStatsEffect
  <2>5. AtStart' => AtStart
    BY <1>22, <2>1, WatcherStatsEffect DEF AtStart
  <2> QED BY <2>1, <2>2, <2>3, <2>5, FailuresKept
<1>23. CASE WatcherPuts
  <2>1. mem'.status = mem.status /\ mem'.gen = mem.gen /\ UNCHANGED pending
    BY <1>23, WatcherPutsEffect
  <2>2. Running' => Running
    BY <1>23, WatcherPutsEffect DEF Running, Quiet
  <2>3. watch'.pc = "errs" => watch.pc = "errs"
    BY <1>23, WatcherPutsEffect DEF Quiet
  <2>5. AtStart' => AtStart
    BY <1>23, <2>1, WatcherPutsEffect DEF AtStart
  <2> QED BY <2>1, <2>2, <2>3, <2>5, FailuresKept
<1>24. CASE TickLooks
  <2>1. mem'.status = mem.status /\ mem'.gen = mem.gen /\ UNCHANGED pending
    BY <1>24, TickLooksEffect
  <2>2. Running' => Running
    BY <1>24, TickLooksEffect DEF Running
  <2>3. watch'.pc = "errs" => watch.pc = "errs"
    BY <1>24, TickLooksEffect
  <2>5. AtStart' => AtStart
    BY <1>24, <2>1, TickLooksEffect DEF AtStart
  <2> QED BY <2>1, <2>2, <2>3, <2>5, FailuresKept
<1>25. CASE DeleteBegins
  <2>1. mem'.status = mem.status /\ mem'.gen = mem.gen /\ UNCHANGED pending
    BY <1>25, DeleteBeginsEffect
  <2>2. Running' => Running
    BY <1>25, DeleteBeginsEffect DEF Running
  <2>3. watch'.pc = "errs" => watch.pc = "errs"
    BY <1>25, DeleteBeginsEffect
  <2>5. AtStart' => AtStart
    BY <1>25, <2>1, DeleteBeginsEffect DEF AtStart
  <2> QED BY <2>1, <2>2, <2>3, <2>5, FailuresKept
<1>26. CASE DeleteGoesOn
  <2>1. mem'.status = mem.status /\ mem'.gen = mem.gen /\ UNCHANGED pending
    BY <1>26, DeleteGoesOnEffect
  <2>2. Running' => Running
    BY <1>26, DeleteGoesOnEffect DEF Running
  <2>3. watch'.pc = "errs" => watch.pc = "errs"
    BY <1>26, DeleteGoesOnEffect
  <2>5. AtStart' => AtStart
    BY <1>26, <2>1, DeleteGoesOnEffect DEF AtStart
  <2> QED BY <2>1, <2>2, <2>3, <2>5, FailuresKept
<1>27. CASE Crash
  <2>1. pending' = {} /\ fetch'.run = "none" /\ watch'.pc = "none"
    BY <1>27, CrashEffect DEF NoFetcher, Quiet
  <2> QED BY <2>1, NoFailures DEF Running
<1>28. CASE \/ TickStores \/ TickSaves \/ TickEnds
  <2>1. UNCHANGED <<mem, fetch, pending, holder, watch>>
    BY <1>28, TickStoresEffect, TickSavesEffect, TickEndsEffect
  <2> QED BY <2>1 DEF StartsFailed, RunsNow, StartFailed, Running, AtStart, Owed
<1>29. CASE UNCHANGED vars
  BY <1>29 DEF vars, StartsFailed, RunsNow, StartFailed, Running, AtStart, Owed
<1> QED BY <1>1, <1>2, <1>3, <1>4, <1>5, <1>6, <1>7, <1>8, <1>9, <1>10, <1>11, <1>12, <1>13, <1>14,
   <1>15, <1>16, <1>17, <1>18, <1>19, <1>20, <1>21, <1>22, <1>23, <1>24, <1>25, <1>26, <1>27,
   <1>28, <1>29 DEF Next, Handler, Error, Watcher, Tick

LEMMA ErrorIsIdleStep ==
  ASSUME TypeInv, LockIsHeld, RunsNow, ErrorIsIdle, [Next]_vars
  PROVE  ErrorIsIdle'
<1>1. CASE FetcherWrites
  BY <1>1, FetcherWritesEffect DEF ErrorIsIdle
<1>2. CASE FetcherEnds
  BY <1>2, FetcherEndsEffect DEF ErrorIsIdle
<1>3. CASE Start
  BY <1>3, StartEffect DEF ErrorIsIdle
<1>4. CASE Patch
  BY <1>4, PatchEffect DEF ErrorIsIdle
<1>5. CASE HandlerStarts
  <2>1. CASE UNCHANGED <<fetch, watch>>
    BY <2>1 DEF ErrorIsIdle
  <2>2. CASE mem.gen = holder.gen
    <3>1. AtStart /\ holder.kind = "start" /\ UNCHANGED watch
      BY <1>5, <2>2, HandlerStartsEffect DEF AtStart
    <3>2. watch.pc \notin {"error", "errs"}
      BY <3>1 DEF RunsNow, Running, LockIsHeld
    <3> QED BY <3>1, <3>2 DEF ErrorIsIdle
  <2> QED BY <1>5, <2>1, <2>2, HandlerStartsEffect
<1>6. CASE HandlerPauses
  BY <1>6, HandlerPausesEffect DEF ErrorIsIdle
<1>7. CASE HandlerEnds
  BY <1>7, HandlerEndsEffect DEF ErrorIsIdle
<1>8. CASE ResetRenews
  BY <1>8, ResetRenewsEffect DEF ErrorIsIdle
<1>9. CASE ErrorEnds
  BY <1>9, ErrorEndsEffect DEF ErrorIsIdle, Quiet
<1>10. CASE WatcherErrs
  BY <1>10, WatcherErrsEffect DEF ErrorIsIdle, Quiet
<1>11. CASE WatcherHears
  BY <1>11, WatcherHearsEffect DEF ErrorIsIdle
<1>12. CASE WatcherMarks
  BY <1>12, WatcherMarksEffect DEF ErrorIsIdle, Quiet
<1>13. CASE WatcherStats
  BY <1>13, WatcherStatsEffect DEF ErrorIsIdle
<1>14. CASE WatcherPuts
  BY <1>14, WatcherPutsEffect DEF ErrorIsIdle, Quiet
<1>15. CASE DeleteGoesOn
  BY <1>15, DeleteGoesOnEffect DEF ErrorIsIdle
<1>16. CASE Crash
  BY <1>16, CrashEffect DEF ErrorIsIdle, Quiet
<1>17. CASE \/ Pause \/ HandlerLocks \/ HandlerResolves \/ HandlerStats \/ HandlerSaves
            \/ HandlerErrs \/ ExtensionAsked \/ ResetRemoves \/ ResetErases \/ TickLooks
            \/ DeleteBegins \/ TickStores \/ TickSaves \/ TickEnds
  <2>1. UNCHANGED <<fetch, watch>>
    BY <1>17, PauseEffect, HandlerLocksEffect, HandlerResolvesEffect, HandlerStatsEffect,
       HandlerSavesEffect, HandlerErrsEffect, ExtensionAskedEffect, ResetRemovesEffect,
       ResetErasesEffect, TickLooksEffect, DeleteBeginsEffect, TickStoresEffect, TickSavesEffect,
       TickEndsEffect
  <2> QED BY <2>1 DEF ErrorIsIdle
<1>18. CASE UNCHANGED vars
  BY <1>18 DEF vars, ErrorIsIdle
<1> QED BY <1>1, <1>2, <1>3, <1>4, <1>5, <1>6, <1>7, <1>8, <1>9, <1>10, <1>11, <1>12, <1>13, <1>14,
   <1>15, <1>16, <1>17, <1>18 DEF Next, Handler, Error, Watcher, Tick

LEMMA StartIsTakenStep ==
  ASSUME TypeInv, LockIsHeld, NoPausing, StartsFailed, StartIsTaken, [Next]_vars
  PROVE  StartIsTaken'
<1>1. CASE Start
  BY <1>1, StartEffect, Numbers DEF StartIsTaken, Adds, LockIsHeld
<1>2. CASE Pause
  BY <1>2, PauseEffect, Numbers DEF StartIsTaken, Adds, LockIsHeld
<1>3. CASE Patch
  BY <1>3, PatchEffect DEF StartIsTaken
<1>4. CASE HandlerLocks
  <2>1. PICK p \in pending :
          /\ p.kind \in {"start", "pause"} /\ pending' = pending \ {p}
          /\ holder' = Free \/ (p.gen = mem.gen /\ holder'.gen = p.gen)
    BY <1>4, HandlerLocksEffect
  <2>2. CASE holder' = Free
    BY <2>2 DEF StartIsTaken, Free
  <2>3. CASE p.gen = mem.gen /\ holder'.gen = p.gen
    <3>1. \A q \in pending : q.kind \in {"start", "pause", "error"}
      BY DEF TypeInv, TypeOK, Waiting
    <3>2. \A q \in pending : q.kind = "start"
      BY <2>1, <2>3, <3>1, FailedAlone DEF NoPausing
    <3>3. \A q \in pending : q.gen = p.gen => q = p
      BY <2>1, <3>2, SamePending
    <3> QED BY <2>1, <2>3, <3>3 DEF StartIsTaken
  <2> QED BY <2>1, <2>2, <2>3
<1>5. CASE HandlerResolves
  <2>1. CASE holder' = Free
    BY <2>1 DEF StartIsTaken, Free
  <2>2. CASE holder'.gen = holder.gen /\ UNCHANGED pending
    <3>1. holder.kind = "start"
      BY <1>5, HandlerResolvesEffect
    <3> QED BY <2>2, <3>1 DEF StartIsTaken
  <2> QED BY <1>5, <2>1, <2>2, HandlerResolvesEffect
<1>6. CASE HandlerStarts
  <2>1. CASE holder' = Free
    BY <2>1 DEF StartIsTaken, Free
  <2>2. CASE holder'.gen = holder.gen /\ UNCHANGED <<mem, pending>>
    <3>1. holder.kind = "start"
      BY <1>6, HandlerStartsEffect
    <3> QED BY <2>2, <3>1 DEF StartIsTaken
  <2> QED BY <1>6, <2>1, <2>2, HandlerStartsEffect
<1>7. CASE HandlerPauses
  BY <1>7, HandlerPausesEffect DEF StartIsTaken
<1>8. CASE HandlerStats
  BY <1>8, HandlerStatsEffect DEF StartIsTaken
<1>9. CASE HandlerSaves
  BY <1>9, HandlerSavesEffect DEF StartIsTaken
<1>10. CASE HandlerEnds
  BY <1>10, HandlerEndsEffect DEF StartIsTaken, Free
<1>11. CASE HandlerErrs
  BY <1>11, HandlerErrsEffect DEF StartIsTaken, Free
<1>12. CASE ExtensionAsked
  <2>1. holder.pc = "ask" /\ holder'.kind = holder.kind
    BY <1>12, ExtensionAskedEffect
  <2>2. holder.kind # "start"
    BY <2>1 DEF LockIsHeld
  <2> QED BY <2>1, <2>2 DEF StartIsTaken
<1>13. CASE ResetRemoves
  BY <1>13, ResetRemovesEffect DEF StartIsTaken
<1>14. CASE ResetRenews
  BY <1>14, ResetRenewsEffect DEF StartIsTaken
<1>15. CASE ResetErases
  BY <1>15, ResetErasesEffect DEF StartIsTaken
<1>16. CASE ErrorEnds
  BY <1>16, ErrorEndsEffect DEF StartIsTaken, Free
<1>17. CASE WatcherErrs
  BY <1>17, WatcherErrsEffect DEF StartIsTaken, Free
<1>18. CASE Crash
  BY <1>18, CrashEffect DEF StartIsTaken, Free
<1>19. CASE \/ FetcherWrites \/ FetcherEnds \/ WatcherHears \/ WatcherMarks \/ WatcherStats
            \/ WatcherPuts \/ TickLooks \/ DeleteBegins \/ DeleteGoesOn \/ TickStores
            \/ TickSaves \/ TickEnds
  <2>1. UNCHANGED <<pending, holder>>
    BY <1>19, FetcherWritesEffect, FetcherEndsEffect, WatcherHearsEffect, WatcherMarksEffect,
       WatcherStatsEffect, WatcherPutsEffect, TickLooksEffect, DeleteBeginsEffect,
       DeleteGoesOnEffect, TickStoresEffect, TickSavesEffect, TickEndsEffect
  <2> QED BY <2>1 DEF StartIsTaken
<1>20. CASE UNCHANGED vars
  BY <1>20 DEF vars, StartIsTaken
<1> QED BY <1>1, <1>2, <1>3, <1>4, <1>5, <1>6, <1>7, <1>8, <1>9, <1>10, <1>11, <1>12, <1>13, <1>14,
   <1>15, <1>16, <1>17, <1>18, <1>19, <1>20 DEF Next, Handler, Error, Watcher, Tick


\* Only a fault fails a download.
LEMMA CalmStep ==
  ASSUME TypeInv, setup.faults = 0, fetch.run # "failed", [Next]_vars
  PROVE  fetch'.run # "failed"
<1>0. ~(setup.faults > 0)
  BY DEF TypeInv, Setup
<1>1. CASE FetcherWrites
  BY <1>1, FetcherWritesEffect, <1>0
<1>2. CASE FetcherEnds
  BY <1>2, FetcherEndsEffect, <1>0
<1>3. CASE Start
  BY <1>3, StartEffect, <1>0
<1>4. CASE Patch
  BY <1>4, PatchEffect, <1>0
<1>5. CASE HandlerStarts
  BY <1>5, HandlerStartsEffect, <1>0
<1>6. CASE HandlerPauses
  BY <1>6, HandlerPausesEffect, <1>0
<1>7. CASE ResetRenews
  BY <1>7, ResetRenewsEffect, <1>0
<1>8. CASE WatcherHears
  BY <1>8, WatcherHearsEffect, <1>0
<1>9. CASE DeleteGoesOn
  BY <1>9, DeleteGoesOnEffect, <1>0
<1>10. CASE Crash
  BY <1>10, CrashEffect, <1>0 DEF NoFetcher
<1>11. CASE \/ Pause \/ HandlerLocks \/ HandlerResolves \/ HandlerStats \/ HandlerSaves
            \/ HandlerEnds \/ HandlerErrs \/ ExtensionAsked \/ ResetRemoves \/ ResetErases
            \/ ErrorEnds \/ WatcherErrs \/ WatcherMarks \/ WatcherStats \/ WatcherPuts
            \/ TickLooks \/ DeleteBegins \/ TickStores \/ TickSaves \/ TickEnds
  <2>1. UNCHANGED fetch
    BY <1>11, PauseEffect, HandlerLocksEffect, HandlerResolvesEffect, HandlerStatsEffect,
       HandlerSavesEffect, HandlerEndsEffect, HandlerErrsEffect, ExtensionAskedEffect,
       ResetRemovesEffect, ResetErasesEffect, ErrorEndsEffect, WatcherErrsEffect,
       WatcherMarksEffect, WatcherStatsEffect, WatcherPutsEffect, TickLooksEffect,
       DeleteBeginsEffect, TickStoresEffect, TickSavesEffect, TickEndsEffect
  <2> QED BY <2>1
<1>12. CASE UNCHANGED vars
  BY <1>12 DEF vars
<1> QED BY <1>1, <1>2, <1>3, <1>4, <1>5, <1>6, <1>7, <1>8, <1>9, <1>10, <1>11, <1>12 DEF Next, Handler,
   Error, Watcher, Tick


-----------------------------------------------------------------------------
(* The invariants together.                                                *)

LEMMA NoPausesStep ==
  ASSUME TypeInv, LockIsHeld, NewestActs, NoPauses, [Next]_vars
  PROVE  NoPauses'
<1>1. NoPausing /\ StartsFailed /\ RunsNow /\ ErrorIsIdle /\ StartIsTaken
  BY NoPausesParts
<1>2. NoPausing' /\ StartsFailed' /\ RunsNow' /\ ErrorIsIdle' /\ StartIsTaken'
  BY <1>1, NoPausingStep, FailuresStep, ErrorIsIdleStep, StartIsTakenStep
<1> QED BY <1>2 DEF NoPauses, NoPausing, StartsFailed, RunsNow, ErrorIsIdle, StartIsTaken

LEMMA OneAtATimeStep ==
  ASSUME TypeInv, LockIsHeld, TickIsPrompt, NewestActs, WatcherKnows, OneAtATime, [Next]_vars
  PROVE  OneAtATime'
<1>1. setup \in Setup /\ setup.prompt
  BY DEF TypeInv, OneAtATime
<1>2. SetupShrinks
  BY <1>1, SetupStep
<1>3. setup'.prompt /\ setup'.apart
  BY <1>2 DEF SetupShrinks, OneAtATime
<1>4. OneSource' \/ NoPauses'
  BY <1>1, OneSourceStep, NoPausesStep DEF OneAtATime
<1>5. /\ setup.deletes \in Nat /\ setup'.deletes \in Nat /\ setup'.deletes <= setup.deletes
      /\ setup.faults \in Nat /\ setup'.faults \in Nat /\ setup'.faults <= setup.faults
  BY <1>1, <1>2 DEF SetupShrinks, Setup
<1>6. setup.deletes = 0 => setup'.deletes = 0
  BY <1>5
<1>7. setup.faults = 0 /\ fetch.run # "failed" => setup'.faults = 0 /\ fetch'.run # "failed"
  BY <1>5, CalmStep
<1> QED BY <1>3, <1>4, <1>6, <1>7 DEF OneAtATime

LEMMA PromptStep ==
  ASSUME TypeInv, PromptInv, [Next]_vars
  PROVE  PromptInv'
<1>1. setup'.prompt = setup.prompt
  BY SetupStep DEF SetupShrinks, TypeInv
<1>2. CASE setup.prompt
  <2>1. LockIsHeld /\ TickIsPrompt /\ EndIsKept /\ ListedIsStored
    BY <1>2 DEF PromptInv
  <2>2. LockIsHeld' /\ TickIsPrompt' /\ EndIsKept' /\ ListedIsStored'
    BY <1>2, <2>1, LockStep, TickStep, EndStep, ListedStep
  <2> QED BY <2>2 DEF PromptInv
<1>3. CASE ~setup.prompt
  BY <1>1, <1>3 DEF PromptInv
<1> QED BY <1>2, <1>3

LEMMA RegularStep ==
  ASSUME TypeInv, PromptInv, RegularInv, [Next]_vars
  PROVE  RegularInv'
<1>1. setup.prompt /\ LockIsHeld /\ TickIsPrompt /\ EndIsKept /\ ListedIsStored
  BY DEF RegularInv, OneAtATime, PromptInv
<1>2. /\ OneAtATime /\ NewestActs /\ WatcherKnows /\ DeletedIsQuiet /\ RestartIsClean
      /\ BytesAreThere /\ DoneHasBytes /\ DebtIsOwed
  BY DEF RegularInv
<1>3. OneAtATime' /\ NewestActs'
  BY <1>1, <1>2, OneAtATimeStep, NewestStep
<1>4. WatcherKnows' /\ DeletedIsQuiet' /\ RestartIsClean'
  BY <1>1, <1>2, KnowsStep, QuietStep, CleanStep
<1>5. BytesAreThere'
  BY <1>1, <1>2, BytesStep
<1>6. DoneHasBytes' /\ DebtIsOwed'
  BY <1>1, <1>2, DoneStep, DebtStep
<1> QED BY <1>3, <1>4, <1>5, <1>6 DEF RegularInv

LEMMA InitPrompt == Init => PromptInv
<1> SUFFICES ASSUME Init
             PROVE  PromptInv
  OBVIOUS
<1>1. holder.kind = "none" /\ holder.pc = "none" /\ holder.gen = 0 /\ holder = Free
  BY DEF Init, Free
<1>2. mem.gen = 1 /\ told = "none" /\ del.pc = "none" /\ tick.pc = "none" /\ db.task # {}
  BY DEF Init
<1>3. watch.pc = "none"
  BY DEF Init, Quiet
<1> QED BY <1>1, <1>2, <1>3 DEF PromptInv, LockIsHeld, TickIsPrompt, EndIsKept, ListedIsStored

\* The setups the records are true in: a prompt tick loop, a source that is replaced apart
\* from deaths and pauses, and deletions apart from faults.
Regular ==
  /\ setup.prompt /\ setup.apart
  /\ setup.recovers = 0 \/ setup.pauses = 0
  /\ setup.deletes = 0 \/ setup.faults = 0

LEMMA InitRegular == Init /\ Regular => RegularInv
<1> SUFFICES ASSUME Init, Regular
             PROVE  RegularInv
  OBVIOUS
<1>1. /\ fetch.run = "idle" /\ fetch.pos = 0 /\ holder = Free /\ tick.pc = "none"
      /\ watch = Quiet /\ del.pc = "none" /\ mem.listed /\ mem.status = "running"
      /\ mem.gen = 1 /\ mem.url = 1 /\ db.save = None
  BY DEF Init, NoFetcher
<1>2. pending = {[kind |-> "start", gen |-> 1]}
  BY DEF Init
<1>3. \A p \in pending : p.kind = "start" /\ p.gen = 1
  BY <1>2
<1>4. PICK r : db.task = {r} /\ r = [status |-> "pause", url |-> 1, res |-> setup.known]
  BY DEF Init
<1>r. r.url = 1 /\ r.status = "pause"
  BY <1>4
<1>5. holder.kind = "none" /\ holder.pc = "none" /\ watch.pc = "none"
  BY <1>1 DEF Free, Quiet
<1>6. Owed
  BY <1>1, <1>2 DEF Owed
<1>7. NewestActs /\ DebtIsOwed /\ RestartIsClean
  BY <1>1, <1>3, <1>5, <1>6 DEF NewestActs, DebtIsOwed, RestartIsClean
<1>8. WatcherKnows /\ DeletedIsQuiet
  BY <1>1, <1>4, <1>5, <1>r DEF WatcherKnows, DeletedIsQuiet
<1>9. \A b \in Byte : ~(b <= 0) /\ ~(b <= None)
  BY DEF Byte, None
<1>10. BytesAreThere /\ DoneHasBytes
  BY <1>1, <1>4, <1>5, <1>9, <1>r DEF BytesAreThere, DoneHasBytes, Has, Removing, Replacing
<1>11. setup.recovers = 0 => OneSource
  BY <1>1, <1>4, <1>5, <1>r DEF OneSource, Replacing
<1>12. setup.pauses = 0 => NoPauses
  BY <1>1, <1>3, <1>5 DEF NoPauses, Running
<1>13. OneAtATime
  BY <1>1, <1>11, <1>12 DEF OneAtATime, Regular
<1> QED BY <1>7, <1>8, <1>10, <1>13 DEF RegularInv

-----------------------------------------------------------------------------
(* What follows.                                                           *)

LEMMA EndFollows ==
  ASSUME TypeInv, PromptInv, setup.prompt
  PROVE  EndIsStored
<1>1. EndIsKept /\ ListedIsStored
  BY DEF PromptInv
<1> QED BY <1>1 DEF EndIsStored, EndIsKept, ListedIsStored

LEMMA RecordsFollow ==
  ASSUME TypeInv, PromptInv, RegularInv
  PROVE  RecordsAreTrue
<1>1. setup.prompt /\ LockIsHeld /\ TickIsPrompt /\ EndIsKept /\ ListedIsStored
  BY DEF RegularInv, OneAtATime, PromptInv
<1>2. /\ OneAtATime /\ NewestActs /\ WatcherKnows /\ DeletedIsQuiet /\ RestartIsClean
      /\ BytesAreThere /\ DoneHasBytes /\ DebtIsOwed
  BY DEF RegularInv
<1>3. fetch.pos \in 0 .. Len_ /\ mem.url \in {1, 2} /\ \A r \in db.task : r.url \in {1, 2}
  BY DEF TypeInv, TypeOK, Fetcher, Position, Task, Source, Buckets, Record
<1>4. CountedBytesAreThere
  <2> SUFFICES ASSUME mem.listed, fetch.run \in {"run", "done", "over"}
               PROVE  file.there /\ \A b \in 1 .. fetch.pos : file.cells[b] = mem.url
    BY DEF CountedBytesAreThere
  <2>1. PICK r \in db.task : TRUE
    BY <1>1 DEF ListedIsStored
  <2>2. ~Removing
    <3>1. Removing => holder.kind = "error" /\ Replacing
      BY <1>1, Replaces DEF Removing, Replacing
    <3> QED BY <1>1, <1>2, <3>1, Idle
  <2>3. file.there /\ Has(fetch.pos, mem.url)
    BY <1>2, <2>1, <2>2 DEF BytesAreThere
  <2> QED BY <1>3, <2>3 DEF Has, Byte
<1>5. DoneIsWhole
  <2> SUFFICES ASSUME mem.listed, mem.status = "done" \/ \E r \in db.task : r.status = "done",
                      NEW b \in Byte
               PROVE  file.cells[b] = file.cells[1] /\ file.cells[b] # 0
    BY DEF DoneIsWhole
  <2>1. PICK r \in db.task : mem.status = "done" \/ r.status = "done"
    BY <1>1 DEF ListedIsStored
  <2>2. Has(Len_, mem.url)
    BY <1>2, <2>1 DEF DoneHasBytes
  <2>3. b <= Len_ /\ 1 \in Byte /\ 1 <= Len_
    BY DEF Byte
  <2> QED BY <1>3, <2>2, <2>3 DEF Has
<1>6. RecordFollowsTask
  <2> SUFFICES ASSUME Settled, mem.listed
               PROVE  \E r \in db.task :
                        /\ Reloaded(r.status) = Reloaded(mem.status) /\ r.url = mem.url
                        /\ r.res = mem.res /\ \A b \in Byte : b <= db.save => file.cells[b] = r.url
    BY DEF RecordFollowsTask
  <2>1. PICK r \in db.task : TRUE
    BY <1>1 DEF ListedIsStored
  <2>2. Matches(r)
    BY <1>2, <2>1 DEF DebtIsOwed, Settled, Owed
  <2>3. ~Replacing
    BY DEF Settled, Free, Replacing
  <2>4. Has(db.save, mem.url)
    BY <1>2, <2>1, <2>3 DEF BytesAreThere
  <2> QED BY <2>2, <2>4 DEF Matches, Has
<1>7. EndIsStored
  BY <1>1, EndFollows
<1>8. DeletedIsGone
  BY <1>2 DEF DeletedIsGone, DeletedIsQuiet
<1> QED BY <1>4, <1>5, <1>6, <1>7, <1>8 DEF RecordsAreTrue

\* The task, its records, its handlers and the loops that save it are always what their
\* types say, at most one record is stored of it, and nobody waits for a generation that
\* is still to come, whatever the setup.
THEOREM TypeCorrect == Spec => []TypeOK
<1>1. TypeInv /\ [Next]_vars => TypeInv'
  BY TypeStep
<1>2. TypeInv => TypeOK
  BY DEF TypeInv
<1> QED BY <1>1, <1>2, InitType, PTL DEF Spec

\* Whatever else happens: when the tick loop is not overtaken while it saves, what listeners
\* were told of the end is what a restart finds, with any number of starts, pauses, faults,
\* replaced sources, deletions and deaths of the process, in any order.
THEOREM EndStays == Spec /\ setup.prompt => []EndIsStored
<1> DEFINE Inv == TypeInv /\ PromptInv /\ setup.prompt
<1>1. Init /\ setup.prompt => Inv
  BY InitType, InitPrompt
<1>2. Inv /\ [Next]_vars => Inv'
  <2> SUFFICES ASSUME Inv, [Next]_vars
               PROVE  Inv'
    OBVIOUS
  <2>1. setup'.prompt
    BY SetupStep DEF SetupShrinks, TypeInv
  <2> QED BY <2>1, TypeStep, PromptStep
<1>3. Inv => EndIsStored
  BY EndFollows
<1> QED BY <1>1, <1>2, <1>3, PTL DEF Spec

\* In every regular setup, for a resource of any length and after any sequence of starts,
\* pauses, failures, replaced sources, deletions and deaths of the process: the fetcher
\* counts only bytes that are in the file and of the task's source, a task that is done
\* has all of them, the record of a task at rest says what the task is, what listeners
\* were told is stored, and nothing is left of a task that was deleted.
THEOREM RecordsStayTrue == Spec /\ Regular => []RecordsAreTrue
<1> DEFINE Inv == TypeInv /\ PromptInv /\ RegularInv
<1>1. Init /\ Regular => Inv
  BY InitType, InitPrompt, InitRegular
<1>2. Inv /\ [Next]_vars => Inv'
  BY TypeStep, PromptStep, RegularStep
<1>3. Inv => RecordsAreTrue
  BY RecordsFollow
<1> QED BY <1>1, <1>2, <1>3, PTL DEF Spec

=============================================================================
