----------------------------- MODULE MCServices -----------------------------
(***************************************************************************)
(* Model-checking instance of what surrounds the fetchers: the extraction  *)
(* of finished archives, the spool of an FFmpeg input, the durable records *)
(* of a task, the map of its pieces, and the API server.  A behaviour is   *)
(* one of one of them; the variables only the others have keep the value   *)
(* Parked gives them.  The records are extended and not instantiated: what *)
(* is proved of them names the properties that are checked here.           *)
(***************************************************************************)
EXTENDS TaskRecords, Sequences, TLC

CONSTANTS Services,     \* of "extraction", "spool", "records", "pieces" and "api"
          SpoolSetups,  \* the setups of the spool
          Job, Nobody, t1, t2, t3,
          Size, BlockLen, FirstBytes,
          PerByte, MaxCount, Addr, a1, a2

VARIABLES
  service,
  closed,                                                             \* of several
  jobs, running, shutdown, workers, executing, discarded, stopping,   \* of extraction
  pc, gone, present, status, mbase, kind, claims, sending, phase, outcome, release,
  extracted, result,
  origin, cells, err, ended, demand, network, fetcher, ver, reader, heard, cancelled, \* of spool
  map, list, pieces, disk, stored, shown,                             \* of pieces
  core, config, manager, servers, call                                \* of the API server

extractionVars ==
  <<jobs, running, shutdown, workers, executing, discarded, stopping, pc, gone, present, status,
    mbase, kind, claims, sending, phase, outcome, release, extracted, result>>
spoolVars ==
  <<origin, cells, err, ended, demand, network, fetcher, ver, reader, heard, cancelled>>
recordVars == <<mem, fetch, file, db, pending, holder, tick, watch, del, told>>
pieceVars == <<map, list, pieces, disk, stored, shown>>
apiVars == <<core, config, manager, servers, call>>
allVars ==
  <<service, setup, closed, extractionVars, spoolVars, recordVars, pieceVars, apiVars>>

-----------------------------------------------------------------------------
(* Archives.                                                               *)

Part(dir, base, style, no) == [dir |-> dir, base |-> base, style |-> style, no |-> no]
Files(f, g, h) == (t1 :> f) @@ (t2 :> g) @@ (t3 :> h)

\* Three parts; two parts and another archive; the old style.
Three == Files(Part("d", "x", "seq", 1), Part("d", "x", "seq", 2), Part("d", "x", "seq", 3))
Two == Files(Part("d", "x", "seq", 1), Part("d", "x", "seq", 2), Part("d", "y", "single", 0))
Old == Files(Part("d", "x", "old", 0), Part("d", "x", "old", 1), Part("d", "x", "old", 2))

Calm == [file |-> Three, begun |-> FALSE, delete |-> FALSE, prompt |-> TRUE,
         faults |-> 0, deletes |-> 0, stops |-> 0]

\* Left out: archives of one name in two directories, split ZIP archives and an x.rar that
\* ends before x.r00 begins; see the README.
ArchiveSetups ==
  { [Calm EXCEPT !.delete = TRUE, !.faults = 1],
    [Calm EXCEPT !.file = Two, !.faults = 1, !.stops = 2],
    [Calm EXCEPT !.file = Old, !.begun = TRUE, !.delete = TRUE, !.faults = 1],
    [Calm EXCEPT !.file = Two, !.deletes = 2],
    \* A watcher may be so late that it finds the claim given back.
    [Calm EXCEPT !.prompt = FALSE, !.faults = 1] }

-----------------------------------------------------------------------------
(* FFmpeg inputs.                                                          *)

Ahead == [ranged |-> TRUE, tells |-> TRUE, faults |-> 1, changes |-> 0, seeks |-> 0,
          closes |-> 0, forward |-> TRUE]

\* Left out: a source that changes without validators.
CalmSpools ==
  { [Ahead EXCEPT !.changes = 1],
    [Ahead EXCEPT !.closes = 1],
    [Ahead EXCEPT !.ranged = FALSE, !.closes = 1],
    \* FFmpeg seeks, and a read of it may not return; see the README.
    [Ahead EXCEPT !.faults = 0, !.changes = 1, !.seeks = 1, !.forward = FALSE] }

SeekingSpools == { [Ahead EXCEPT !.faults = 0, !.seeks = 1, !.forward = FALSE] }

-----------------------------------------------------------------------------
(* Lives of a task.                                                        *)

Life == [known |-> TRUE, cleans |-> FALSE, prompt |-> TRUE, apart |-> TRUE,
         starts |-> 2, pauses |-> 1, patches |-> 0, ticks |-> 2, deletes |-> 0,
         crashes |-> 1, faults |-> 1, recovers |-> 0]

\* Left out: a tick loop that is overtaken while it saves, a deletion while a handler is
\* under way or the download fails, a death while the source is replaced, a source that is
\* replaced where a pause could overtake the error; see the README.
RecordSetups ==
  { \* A pause, a patch or a failure, and a death, in every order.
    [Life EXCEPT !.ticks = 1, !.patches = 1, !.faults = 0],
    [Life EXCEPT !.ticks = 0, !.patches = 1, !.pauses = 0],
    [Life EXCEPT !.ticks = 1, !.known = FALSE, !.cleans = TRUE],
    \* An extension replaces the source; the process dies twice.
    [Life EXCEPT !.recovers = 1, !.crashes = 2, !.starts = 3, !.pauses = 0],
    \* The task is deleted at any moment of its download.
    [Life EXCEPT !.deletes = 1, !.faults = 0] }

-----------------------------------------------------------------------------

Editing == [edits |-> 4, protocol |-> "none", restarts |-> 0]
PieceSetups ==
  { Editing, [Editing EXCEPT !.edits = 0, !.protocol = "bt", !.restarts = 2],
    [Editing EXCEPT !.edits = 0, !.protocol = "ed2k", !.restarts = 1] }

Applications == { [native |-> native, calls |-> 4] : native \in BOOLEAN }

-----------------------------------------------------------------------------

X == INSTANCE Extraction WITH Setups <- ArchiveSetups
S == INSTANCE MediaSpool WITH Setups <- SpoolSetups
P == INSTANCE PieceMap WITH MapSetups <- PieceSetups
A == INSTANCE ApiServer WITH ApiSetups <- Applications

ASSUME SpoolIsAdmissible == S!Admissible

ExtractionParked ==
  /\ jobs = <<>> /\ running = FALSE /\ shutdown = FALSE /\ workers = 0 /\ executing = Nobody
  /\ discarded = {} /\ stopping = 0 /\ pc = <<>> /\ gone = {} /\ present = {} /\ status = <<>>
  /\ mbase = <<>> /\ kind = <<>> /\ claims = {} /\ sending = {} /\ phase = "idle"
  /\ outcome = "none" /\ release = Nobody /\ extracted = <<>> /\ result = <<>>
SpoolParked ==
  /\ origin = 0 /\ cells = <<>> /\ err = FALSE /\ ended = FALSE /\ demand = 0
  /\ network = "none" /\ fetcher = <<>> /\ ver = <<>> /\ heard = {} /\ cancelled = FALSE
  /\ reader = [pc |-> "idle"]

\* A task that is not listed and of which nothing is stored.
RecordsParked ==
  /\ mem = [listed |-> FALSE, status |-> "pause", gen |-> 0, url |-> 1, res |-> FALSE,
            progress |-> 0]
  /\ fetch = NoFetcher /\ file = NoFile /\ db = [task |-> {}, save |-> None, stats |-> None]
  /\ pending = {} /\ holder = Free /\ tick = [pc |-> "none", save |-> 0, rec |-> NoRec]
  /\ watch = Quiet /\ del = [pc |-> "none", force |-> FALSE] /\ told = "none"
PiecesParked ==
  map = <<>> /\ list = <<>> /\ pieces = <<>> /\ disk = {} /\ stored = <<>> /\ shown = {}
ApiParked ==
  core = "none" /\ config = <<>> /\ manager = <<>> /\ servers = <<>> /\ call = <<>>

Idle(parked, which) == service # which /\ parked

MCInit ==
  /\ service \in Services
  /\ Idle(ExtractionParked, "extraction") \/ (service = "extraction" /\ X!Init)
  /\ Idle(SpoolParked, "spool") \/ (service = "spool" /\ S!Init)
  /\ Idle(RecordsParked, "records") \/ (service = "records" /\ Init)
  /\ Idle(PiecesParked, "pieces") \/ (service = "pieces" /\ P!Init)
  /\ Idle(ApiParked, "api") \/ (service = "api" /\ A!Init)
  /\ service \in {"extraction", "spool"} \/ closed = FALSE

Extracting(B) ==
  /\ service = "extraction" /\ B
  /\ UNCHANGED <<service, spoolVars, recordVars, pieceVars, apiVars>>
Spooling(B) ==
  /\ service = "spool" /\ B
  /\ UNCHANGED <<service, extractionVars, recordVars, pieceVars, apiVars>>
Recording(B) ==
  /\ service = "records" /\ B
  /\ UNCHANGED <<service, closed, extractionVars, spoolVars, pieceVars, apiVars>>
Mapping(B) ==
  /\ service = "pieces" /\ B
  /\ UNCHANGED <<service, closed, extractionVars, spoolVars, recordVars, apiVars>>
Managing(B) ==
  /\ service = "api" /\ B
  /\ UNCHANGED <<service, closed, extractionVars, spoolVars, recordVars, pieceVars>>

MCNext ==
  \/ Extracting(X!Next) \/ Spooling(S!Next) \/ Recording(Next) \/ Mapping(P!Next)
  \/ Managing(A!Next)

\* The watchers, the worker and the goroutines of the spool go on, and a silent network is
\* an error after 15 seconds (idleMediaBody); nobody has to start a download, delete a task,
\* stop or start the queue, nor make FFmpeg read or the job close its input.
FairSpec ==
  /\ MCInit /\ [][MCNext]_allVars
  /\ WF_allVars(Extracting(X!Worker) \/ Spooling(S!Prefetcher))
  /\ WF_allVars(Spooling(S!Demander)) /\ WF_allVars(Spooling(S!Reading))
  /\ WF_allVars(Spooling(S!CloseEnds))
  /\ \A t \in Job : WF_allVars(Extracting(X!Watcher(t)))

-----------------------------------------------------------------------------

\* An archive is extracted with all its parts, by one job at a time, and by one only unless
\* a watcher comes after the claim was given back, whichever part ends last and whatever
\* fails or is deleted meanwhile (checkAllMultiPartTasksDone, tryClaimMultiPartExtraction).
\* A job of the queue is in one place, so that no channel is closed twice and no job is
\* executed twice, and one worker executes them (Enqueue, RemovePendingJob, worker, Start).
ExtractedOnceAndWhole ==
  service = "extraction" =>
    /\ X!TypeOK /\ X!ExtractedOnce /\ X!ExtractsWholeArchives
    /\ X!JobsHaveOnePlace /\ X!OneWorker

\* When all is over the parts of an archive say what its extraction said
\* (enqueueMultiPartExtraction against updateMultiPartTasksStatus).
PartsSayTheResult == service = "extraction" => X!PartsSayTheResult

\* FFmpeg gets bytes of one version of its source, and the end of the file only at the end
\* (readAt, fetch, DiskInput.Read); nothing of a closed input is left on disk (Close).
ReadsAreOfOneVersion == service = "spool" => S!ReadsAreOfOneVersion

\* The map of a task's pieces shows what is there, whatever was done to it, and its snapshot
\* forgets no piece that it has shown (PieceMap, Stats, captureTaskStats).  What the
\* manager says of the API server is so, and none outlives the core (serve, stopLocked, Stop).
ShownIsTrue ==
  /\ service = "pieces" => P!TypeOK /\ P!MapIsExact /\ P!SnapshotIsTrusted
  /\ service = "api" => A!TypeOK /\ A!StateIsTrue /\ A!NoServerWithoutCore

\* Whoever waits for a job of the queue goes on, and a claim comes back (worker,
\* performMultiPartExtraction); a read of an FFmpeg that does not seek returns, and so does
\* Close (HTTPSpool.Read, DiskInput.Read).
Waits(t) ==
  CASE service = "extraction" -> t \in sending
    [] service = "spool" -> setup.forward /\ reader.pc # "idle"
    [] OTHER -> FALSE
GoesOn(t) ==
  CASE service = "extraction" -> closed[t] = 1
    [] service = "spool" -> reader.pc = "idle"
    [] OTHER -> TRUE
Taken ==
  CASE service = "extraction" -> claims # {}
    [] service = "spool" -> cancelled
    [] OTHER -> FALSE
GivenBack ==
  CASE service = "extraction" -> claims = {} \/ discarded # {}
    [] service = "spool" -> closed
    [] OTHER -> TRUE
NothingIsHeld ==
  /\ \A t \in Job : Waits(t) ~> GoesOn(t)
  /\ Taken ~> GivenBack

\* A read returns whatever was evicted or demanded before, after a seek too
\* (HTTPSpool.Read).
ReadsReturn == reader.pc # "idle" ~> reader.pc = "idle"
=============================================================================
