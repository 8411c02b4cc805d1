----------------------------- MODULE Extraction -----------------------------
(***************************************************************************)
(* What a finished download triggers when it is an archive                 *)
(* (pkg/download/downloader.go, enqueueExtraction and below; names and     *)
(* parts from pkg/download/extract.go).                                    *)
(*                                                                         *)
(* Every part of an archive is a task of its own with its own watcher.     *)
(* The watcher of a part that ends looks, under d.lock, whether the other  *)
(* parts have ended; the last one claims the archive and sends one job to  *)
(* the extraction queue, whose worker extracts, writes the result to every *)
(* part and gives the claim back.                                          *)
(*                                                                         *)
(* A file is a record: its directory, its base name, how the archive is    *)
(* split (style) and the number of the part.  Styles: "seq" is x.7z.001,   *)
(* x.zip.001 or x.part1.rar, numbered from 1; "old" is x.rar (0), x.r00    *)
(* (1) and so on; "zsplit" is x.z01 (1) ... and x.zip (0); "single" is one *)
(* file.                                                                   *)
(***************************************************************************)
EXTENDS ExtractionQueue

CONSTANTS
  Setups  \* the initial files and budgets; the fields are those of setup below

Task == Job
None == Nobody

VARIABLES
  setup,     \* [file, begun, delete, prompt, faults, deletes, stops]
  pc,        \* where the watcher of a task is
  gone,      \* the tasks that Delete has taken out of d.tasks
  present,   \* the files on disk
  status,    \* task.Progress.ExtractStatus
  mbase,     \* task.Progress.MultiPartBaseName
  kind,      \* the job a task has sent: "none", "single" or "multi"
  claims,    \* d.claimedExtractions
  sending,   \* the goroutines that are about to call Enqueue
  phase,     \* where the job of the worker is
  outcome,   \* extractErr of that job: "none", "done" or "error"
  release,   \* fullBaseName of performMultiPartExtraction
  extracted, \* how often the archive of a file was extracted with success
  result     \* the last result of the archive of a file

taskVars == <<setup, pc, gone, present, status, mbase, kind, claims, sending,
              extracted, result>>
workVars == <<phase, outcome, release>>
vars == <<queueVars, taskVars, workVars>>

File(t) == setup.file[t]
Series(f) == <<f.dir, f.base, f.style>>
Archives == {Series(File(t)) : t \in Task}
PartsOf(a) == {t \in Task : Series(File(t)) = a}

\* getArchivePartInfo: x.rar counts as a part only while x.r00 is on disk, and
\* x.zip never.
IsMultiPart(f) ==
  CASE f.style = "seq" -> TRUE
    [] f.style = "old" -> f.no > 0 \/ [f EXCEPT !.no = 1] \in present
    [] f.style = "zsplit" -> f.no > 0
    [] OTHER -> FALSE

\* GetMultiPartArchiveBaseName: the directory and the base name.
FullBaseName(f) == IF IsMultiPart(f) THEN <<f.dir, f.base>> ELSE None

\* determineFirstPartPath.
FirstPart(f) == [f EXCEPT !.no = IF f.style = "old" THEN 0 ELSE 1]

\* collectMultiPartFiles and its four collectors: part 1, part 2 ... up to the first
\* that is missing, and the file without a number.
CollectParts(f) ==
  IF ~IsMultiPart(FirstPart(f)) THEN {}
  ELSE {g \in present : /\ Series(g) = Series(f)
                        /\ \A n \in 1 .. g.no - 1 : [g EXCEPT !.no = n] \in present}

\* The archive library needs every part of the archive, whole and on disk.
Extractable(f) ==
  \A t \in PartsOf(Series(f)) :
    File(t) \in present /\ pc[t] \notin {"idle", "loading"}

TypeOK ==
  /\ QueueTypeOK
  /\ pc \in [Task -> {"idle", "loading", "done", "check", "wait", "claim", "denied", "end"}]
  /\ gone \subseteq Task /\ sending \subseteq Task
  /\ present \subseteq {File(t) : t \in Task}
  /\ status \in [Task -> {"", "queued", "waitingParts", "extracting", "done", "error"}]
  /\ kind \in [Task -> {"none", "single", "multi"}]
  /\ phase \in {"idle", "begin", "extract", "result", "siblings", "release", "return"}
  /\ outcome \in {"none", "done", "error"}
  /\ DOMAIN result = Archives /\ DOMAIN extracted = Archives

Init ==
  /\ QueueInit
  /\ setup \in Setups
  /\ pc = [t \in Task |-> IF setup.begun THEN "loading" ELSE "idle"]
  /\ present = IF setup.begun THEN {File(t) : t \in Task} ELSE {}
  /\ gone = {} /\ claims = {} /\ sending = {}
  /\ status = [t \in Task |-> ""] /\ mbase = [t \in Task |-> None]
  /\ kind = [t \in Task |-> "none"]
  /\ phase = "idle" /\ outcome = "none" /\ release = None
  /\ extracted = [a \in Archives |-> 0] /\ result = [a \in Archives |-> "none"]

Goto(t, to) == pc' = [pc EXCEPT ![t] = to]
SetStatus(t, s) == status' = [status EXCEPT ![t] = s]

-----------------------------------------------------------------------------
(* The watcher of a task.                                                  *)

\* The download creates its file at once.
Begin(t) ==
  /\ pc[t] = "idle" /\ t \notin gone
  /\ Goto(t, "loading")
  /\ present' = present \cup {File(t)}
  /\ UNCHANGED <<queueVars, workVars, setup, gone, status, mbase, kind, claims, sending,
                 extracted, result>>

\* markTaskDone; the record, the events, the webhooks and the scripts come before the
\* extraction is considered.
Complete(t) ==
  /\ pc[t] = "loading" /\ t \notin gone
  /\ Goto(t, "done")
  /\ UNCHANGED <<queueVars, workVars, setup, gone, present, status, mbase, kind, claims,
                 sending, extracted, result>>

\* The job is made and sent by a goroutine of its own.
Send(t, k) ==
  /\ kind' = [kind EXCEPT ![t] = k]
  /\ sending' = sending \cup {t}
  /\ SetStatus(t, "queued")
  /\ Goto(t, "end")

\* enqueueExtraction and enqueueSingleExtraction.
EnqueueExtraction(t) ==
  /\ pc[t] = "done"
  /\ \/ /\ ~IsMultiPart(File(t))
        /\ Send(t, "single")
        /\ UNCHANGED mbase
     \/ /\ IsMultiPart(File(t))
        /\ mbase' = [mbase EXCEPT ![t] = File(t).base]
        /\ Goto(t, "check")
        /\ UNCHANGED <<kind, sending, status>>
  /\ UNCHANGED <<queueVars, workVars, setup, gone, present, claims, extracted, result>>

\* checkMultiPartArchiveReady and checkAllMultiPartTasksDone.
AllPartsReady(name) ==
  LET related == {u \in Task \ gone : FullBaseName(File(u)) = name}
  IN \/ name = None
     \/ related # {} /\ \A u \in related : pc[u] \notin {"idle", "loading"}

\* The tasks are read under d.lock; what follows from it happens outside.
CheckParts(t) ==
  /\ pc[t] = "check"
  /\ Goto(t, IF AllPartsReady(FullBaseName(File(t))) THEN "claim" ELSE "wait")
  /\ UNCHANGED <<queueVars, workVars, setup, gone, present, status, mbase, kind, claims,
                 sending, extracted, result>>

WaitForParts(t) ==
  /\ pc[t] = "wait"
  /\ SetStatus(t, "waitingParts")
  /\ Goto(t, "end")
  /\ UNCHANGED <<queueVars, workVars, setup, gone, present, mbase, kind, claims, sending,
                 extracted, result>>

\* Mutant: the claim is stored without being looked at.
ClaimableAlways(name) == TRUE

\* LoadOrStore in tryClaimMultiPartExtraction.
Claimable(name) == name \notin claims

ClaimExtraction(t) ==
  LET name == FullBaseName(File(t)) IN
  /\ pc[t] = "claim"
  /\ \/ /\ Claimable(name)
        /\ claims' = claims \cup {name}
        /\ Send(t, "multi")
     \/ /\ ~Claimable(name)
        /\ Goto(t, "denied")
        /\ UNCHANGED <<claims, kind, sending, status>>
  /\ UNCHANGED <<queueVars, workVars, setup, gone, present, mbase, extracted, result>>

\* Another part has the claim: this one is done, whatever the extraction will say.
HandledByAnother(t) ==
  /\ pc[t] = "denied"
  /\ SetStatus(t, "done")
  /\ Goto(t, "end")
  /\ UNCHANGED <<queueVars, workVars, setup, gone, present, mbase, kind, claims, sending,
                 extracted, result>>

SendJob(t) ==
  /\ t \in sending
  /\ Enqueue(t)
  /\ sending' = sending \ {t}
  /\ UNCHANGED <<workVars, setup, pc, gone, present, status, mbase, kind, claims,
                 extracted, result>>

-----------------------------------------------------------------------------
(* The worker: performExtraction and performMultiPartExtraction.           *)

Take ==
  /\ Dequeue
  /\ phase' = "begin"
  /\ UNCHANGED <<taskVars, outcome, release>>

BeginJob ==
  /\ phase = "begin"
  /\ release' = IF kind[executing] = "multi"
                THEN FullBaseName(FirstPart(File(executing))) ELSE None
  /\ SetStatus(executing, "extracting")
  /\ phase' = "extract"
  /\ UNCHANGED <<queueVars, setup, pc, gone, present, mbase, kind, claims, sending,
                 extracted, result, outcome>>

\* extractMultiPartArchive or extractArchive.
Extract ==
  LET f == File(executing) IN
  /\ phase = "extract"
  /\ \/ /\ Extractable(f)
        /\ outcome' = "done"
        /\ extracted' = [extracted EXCEPT ![Series(f)] = @ + 1]
        /\ UNCHANGED setup
     \/ /\ ~Extractable(f) \/ setup.faults > 0
        /\ outcome' = "error"
        /\ setup' = IF Extractable(f) THEN [setup EXCEPT !.faults = @ - 1] ELSE setup
        /\ UNCHANGED extracted
  /\ result' = [result EXCEPT ![Series(f)] = outcome']
  /\ phase' = "result"
  /\ UNCHANGED <<queueVars, pc, gone, present, status, mbase, kind, claims, sending, release>>

\* The watchers that are between the end of a part and the last step about it.
Deciding(a) == {t \in PartsOf(a) : pc[t] \in {"done", "check", "wait", "claim", "denied"}}

\* handleExtractionResult, with the files collected before it.  setup.prompt: no watcher of
\* a part is so slow that the result comes first.
HandleExtractionResult ==
  LET f == File(executing)
      archiveFiles == IF kind[executing] = "multi" THEN CollectParts(f) ELSE {f}
  IN
  /\ phase = "result"
  /\ setup.prompt => Deciding(Series(f)) = {}
  /\ SetStatus(executing, outcome)
  /\ present' = IF outcome = "done" /\ setup.delete THEN present \ archiveFiles ELSE present
  /\ phase' = IF kind[executing] = "multi" THEN "siblings" ELSE "return"
  /\ UNCHANGED <<queueVars, setup, pc, gone, mbase, kind, claims, sending, extracted,
                 result, outcome, release>>

\* Mutant: a part that was told to wait is left alone.
SiblingsNotWaiting(t) == {u \in Task \ (gone \cup {t}) :
                            mbase[u] = mbase[t] /\ status[u] # "waitingParts"}

\* updateMultiPartTasksStatus compares base names, without their directories.
Siblings(t) == {u \in Task \ (gone \cup {t}) : mbase[u] = mbase[t]}

UpdateMultiPartTasksStatus ==
  /\ phase = "siblings"
  /\ status' = [u \in Task |-> IF u \in Siblings(executing) THEN outcome ELSE status[u]]
  /\ phase' = "release"
  /\ UNCHANGED <<queueVars, setup, pc, gone, present, mbase, kind, claims, sending,
                 extracted, result, outcome, release>>

\* releaseMultiPartExtractionClaim.
Released == claims \ {release}

ReleaseClaim ==
  /\ phase = "release"
  /\ claims' = Released
  /\ phase' = "return"
  /\ UNCHANGED <<queueVars, setup, pc, gone, present, status, mbase, kind, sending,
                 extracted, result, outcome, release>>

Return ==
  /\ phase = "return"
  /\ Executed
  /\ phase' = "idle" /\ outcome' = "none" /\ release' = None
  /\ UNCHANGED taskVars

-----------------------------------------------------------------------------
(* The user deletes a task, with or without its file; a job it has sent    *)
(* stays in the queue.                                                     *)
Delete(t) ==
  /\ setup.deletes > 0 /\ t \notin gone
  /\ setup' = [setup EXCEPT !.deletes = @ - 1]
  /\ gone' = gone \cup {t}
  /\ present' \in {present, present \ {File(t)}}
  /\ pc' = IF pc[t] \in {"idle", "loading"} THEN [pc EXCEPT ![t] = "end"] ELSE pc
  /\ UNCHANGED <<queueVars, workVars, status, mbase, kind, claims, sending, extracted, result>>

\* Stop, Start and RemovePendingJob are offered by the queue and called by its tests.
StopQueue ==
  /\ setup.stops > 0
  /\ StopBegins
  /\ setup' = [setup EXCEPT !.stops = @ - 1]
  /\ UNCHANGED <<workVars, pc, gone, present, status, mbase, kind, claims, sending,
                 extracted, result>>

RemoveJob(t) ==
  /\ setup.stops > 0
  /\ RemovePendingJob(t)
  /\ setup' = [setup EXCEPT !.stops = @ - 1]
  /\ UNCHANGED <<workVars, pc, gone, present, status, mbase, kind, claims, sending,
                 extracted, result>>

Administer == (QueueStart \/ StopEnds) /\ UNCHANGED <<taskVars, workVars>>
Leave == WorkerLeaves /\ UNCHANGED <<taskVars, workVars>>

Watcher(t) ==
  \/ Complete(t) \/ EnqueueExtraction(t) \/ CheckParts(t) \/ WaitForParts(t)
  \/ ClaimExtraction(t) \/ HandledByAnother(t) \/ SendJob(t)

Worker ==
  \/ Take \/ BeginJob \/ Extract \/ HandleExtractionResult
  \/ UpdateMultiPartTasksStatus \/ ReleaseClaim \/ Return \/ Leave

Next ==
  \/ \E t \in Task : Begin(t) \/ Watcher(t) \/ Delete(t) \/ RemoveJob(t)
  \/ Worker \/ StopQueue \/ Administer

Spec == Init /\ [][Next]_vars

-----------------------------------------------------------------------------

\* When the worker extracts, every part of the archive has been downloaded
\* (checkAllMultiPartTasksDone looks at the tasks, long before the worker does).
ExtractsWholeArchives ==
  phase = "extract" =>
    \A t \in PartsOf(Series(File(executing))) \ gone : pc[t] \notin {"idle", "loading"}

\* An archive is in the hands of one job at a time, from the claim to its release: in a
\* goroutine that sends it, in the queue or with the worker.
InHand(t) ==
  /\ kind[t] = "multi"
  /\ t \in sending \cup ToSet(jobs) \/ (executing = t /\ phase # "return")

\* However many watchers see that all its parts are there (tryClaimMultiPartExtraction, the
\* release of the claim); and it is extracted once, unless a watcher comes after the release
\* and claims it again.
ExtractedOnce ==
  /\ \A t, u \in Task : InHand(t) /\ InHand(u) /\ Series(File(t)) = Series(File(u)) => t = u
  /\ setup.prompt => \A a \in Archives : extracted[a] <= 1

AtRest ==
  /\ sending = {} /\ jobs = <<>> /\ phase = "idle"
  /\ \A t \in Task : pc[t] = "end"

\* When all is over the parts of an archive say what its extraction said: no part waits
\* for the others, none hides a failure, unless a watcher was so late that it wrote after
\* the result (enqueueMultiPartExtraction against updateMultiPartTasksStatus).
PartsSayTheResult ==
  setup.prompt /\ AtRest /\ gone = {} /\ discarded = {} =>
    \A t \in Task : status[t] = result[Series(File(t))]
=============================================================================
