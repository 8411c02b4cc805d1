---------------------------- MODULE MCProtocols ----------------------------
(***************************************************************************)
(* Model-checking instance of the fetchers that do not download in chunks: *)
(* HLS, HTTP over one connection, BitTorrent and ed2k.  A behaviour is one *)
(* of one of them; the variables only the others have keep the value       *)
(* HlsParked or Parked gives them.                                         *)
(***************************************************************************)
EXTENDS HlsFetcher, TLC

CONSTANTS Protocols,   \* of "hls", "http", "bt" and "ed2k"
          HttpSetups,  \* the setups of the HTTP fetcher
          Task, t1, t2,
          File,        \* of a torrent
          Path         \* of an ed2k target

VARIABLES
  protocol,
  setup, client, call, wait,                                    \* of several of the others
  origin, state, loop, signal, resource, conn, resp, file, snapshot,   \* of http
  added, handle, ready, seeding, dropped, box, want, wanted, allowed, bytes, removed,
  closer, panics,                                               \* of bt
  transfer, destination, path, life, told                       \* of ed2k

hlsVars == vars
httpVars == <<origin, state, loop, signal, resource, conn, resp, file, snapshot>>
btVars == <<added, handle, ready, seeding, dropped, box, want, wanted, allowed, bytes, removed,
            closer, panics>>
ed2kVars == <<transfer, destination, path, life, told>>
peerVars == <<client, call, wait>>
otherVars == <<setup, httpVars, btVars, ed2kVars, peerVars>>
allVars == <<protocol, hlsVars, otherVars>>

-----------------------------------------------------------------------------
(* What the environment of an HLS download may do.                         *)

CalmHls == [starts |-> 2, pauses |-> 0, patches |-> 0, closes |-> 0, deaths |-> 0,
            faults |-> 0, vanish |-> 0, prompt |-> TRUE]

HlsBudgets ==
  { \* Failures of every kind, a retry by the user and a lost file.
    [CalmHls EXCEPT !.faults = 2, !.vanish = 1],
    \* Pause at every moment, another URL, failures.
    [CalmHls EXCEPT !.starts = 3, !.pauses = 1, !.patches = 1, !.faults = 1],
    \* Death at every moment, with a pause and a patch or a lost file.
    [CalmHls EXCEPT !.pauses = 1, !.patches = 1, !.deaths = 1],
    [CalmHls EXCEPT !.pauses = 1, !.deaths = 1, !.vanish = 1],
    \* Deletion at every moment.
    [CalmHls EXCEPT !.closes = 1, !.pauses = 1, !.faults = 1] }

-----------------------------------------------------------------------------
(* The origins of a download, and what may happen to it.                   *)

Origin(r, t, v) == [ver |-> 1, ranges |-> r, tells |-> t, validates |-> v]
Origins == {Origin(r, t, v) : r \in BOOLEAN, t \in BOOLEAN, v \in BOOLEAN}
Ranging == {o \in Origins : o.ranges /\ o.validates}

Quiet(o) == [origin |-> o, faults |-> 1, kinds |-> {"net", "counted"}, changes |-> 2,
             starts |-> 2, pauses |-> 1, saves |-> 0, crashes |-> 0,
             settled |-> TRUE, fresh |-> TRUE, late |-> FALSE]
Dying(o) == [Quiet(o) EXCEPT !.pauses = 0, !.saves = 1, !.crashes = 1]

SafeSetups ==
  { \* Two changes of the origin, a failure and a pause.
    Quiet(o) : o \in Origins } \cup
  { \* Failures until the connection gives up.
    [Quiet(o) EXCEPT !.changes = 1, !.faults = 4] : o \in Ranging } \cup
  { \* The death of the process, with a snapshot of any moment.
    [Dying(o) EXCEPT !.fresh = FALSE, !.changes = 1] : o \in Ranging } \cup
  { \* The death of the process on the way back to range mode.
    Dying(Origin(TRUE, TRUE, TRUE)) }

\* A body breaks after its first byte in a request that is made without the response of
\* Resolve.
AppendSetups == {[Quiet(o) EXCEPT !.settled = FALSE, !.changes = 0] : o \in Origins}

Own == (t1 :> t1) @@ (t2 :> t2)
Peers == [hash |-> Own, resolved |-> {t1, t2}, starts |-> 2, pauses |-> 0, patches |-> 0,
          closes |-> 0, seeds |-> 0, faults |-> 0, apart |-> TRUE]
BtSetups ==
  { \* Close at every moment, also while the torrent is looked for, and failures.
    [Peers EXCEPT !.closes = 2, !.resolved = {}, !.faults = 1],
    [Peers EXCEPT !.closes = 1, !.pauses = 1, !.starts = 3, !.faults = 1],
    [Peers EXCEPT !.patches = 2],
    \* The end of seeding, with a selection that changes after the end.
    [Peers EXCEPT !.seeds = 2, !.starts = 3, !.faults = 1],
    [Peers EXCEPT !.seeds = 1, !.patches = 1] }

Links == [hash |-> Own, starts |-> 3, pauses |-> 1, patches |-> 0, deletes |-> 1,
          closes |-> 0, faults |-> 1, apart |-> TRUE]
Ed2kSetups ==
  { [Links EXCEPT !.patches = 2],
    [Links EXCEPT !.closes = 1, !.pauses = 2],
    \* The path before the first start, a restart, and attempts to change it after it.
    [Links EXCEPT !.closes = 1, !.patches = 2, !.faults = 0] }

-----------------------------------------------------------------------------

H == INSTANCE SequentialFetcher
       WITH Setups <- HttpSetups, Len_ <- <<3, 2, 3>>, res <- resource, disk <- file,
            saved <- snapshot
B == INSTANCE BtFetcher WITH Setups <- BtSetups, op <- call, got <- bytes
E == INSTANCE Ed2kFetcher
       WITH Setups <- Ed2kSetups, op <- call, target <- destination, status <- life

HlsParked == Init /\ res /\ budget = CHOOSE b \in Budgets : TRUE
HttpParked ==
  /\ state = "none" /\ loop = "none" /\ signal = FALSE /\ snapshot = "none"
  /\ origin = "none" /\ resource = "none" /\ conn = "none" /\ resp = "none" /\ file = "none"
BtParked ==
  /\ added = {} /\ handle = {} /\ ready = {} /\ seeding = {} /\ dropped = {}
  /\ allowed = {} /\ panics = {} /\ box = 0
  /\ want = {} /\ wanted = {} /\ bytes = {} /\ removed = {}
  /\ closer = "none"
Ed2kParked ==
  /\ transfer = "none" /\ destination = "none" /\ path = "none" /\ life = "none" /\ told = {}
PeersParked == client = "none" /\ call = "none" /\ wait = "none"
OthersParked == setup = "none" /\ HttpParked /\ BtParked /\ Ed2kParked /\ PeersParked

MCInit ==
  /\ protocol \in Protocols
  /\ \/ protocol = "hls" /\ Init /\ OthersParked
     \/ /\ HlsParked
        /\ \/ protocol = "http" /\ H!Init /\ BtParked /\ Ed2kParked /\ PeersParked
           \/ protocol = "bt" /\ B!Init /\ HttpParked /\ Ed2kParked
           \/ protocol = "ed2k" /\ E!Init /\ HttpParked /\ BtParked

Hls(A) == protocol = "hls" /\ A /\ UNCHANGED <<protocol, otherVars>>
Http(A) ==
  /\ protocol = "http" /\ A
  /\ UNCHANGED <<protocol, hlsVars, btVars, ed2kVars, peerVars>>
Bt(A) ==
  /\ protocol = "bt" /\ A
  /\ UNCHANGED <<protocol, hlsVars, httpVars, ed2kVars>>
Ed2k(A) ==
  /\ protocol = "ed2k" /\ A
  /\ UNCHANGED <<protocol, hlsVars, httpVars, btVars>>

MCNext == Hls(Next) \/ Http(H!Next) \/ Bt(B!Next) \/ Ed2k(E!Next)

\* The fairness of the modules.  A behaviour is of one of them, so that fairness of a
\* disjunction of actions of different modules is fairness of each.
MCSpec ==
  /\ MCInit /\ [][MCNext]_allVars
  /\ WF_allVars(Hls(SupervisorGoesOn) \/ Http(H!Loop))
  /\ WF_allVars(Hls(WorkerGoesOn(1)) \/ Http(H!Connection) \/ Bt(B!Handler(t1)) \/ Ed2k(E!Handler(t1)))
  /\ WF_allVars(Hls(WorkerGoesOn(2)) \/ Bt(B!Handler(t2)) \/ Ed2k(E!Handler(t2)))
  /\ WF_allVars(Hls(Sends) \/ Bt(B!Watcher(t1)) \/ Ed2k(E!Watcher(t1)))
  /\ WF_allVars(Hls(WatcherTakes) \/ Bt(B!Watcher(t2)) \/ Ed2k(E!Watcher(t2)))
  /\ WF_allVars(Hls(Returns) \/ Bt(B!WaitUpload(t1)))
  /\ WF_allVars(Bt(B!WaitUpload(t2)))
  /\ \A c \in Task \X B!Caller : WF_allVars(Bt(B!Closer(c)))

-----------------------------------------------------------------------------

\* Done is what it says in every protocol: one version of the resource from its first byte
\* to its last, every selected file of the torrent on disk, the task's own transfer
\* finished (onDownloadComplete, Wait).
DoneIsWhole ==
  /\ protocol = "http" => H!TypeOK /\ H!DoneMeansOneVersion
  /\ protocol = "bt" => B!TypeOK /\ B!DoneMeansSelected
  /\ protocol = "ed2k" => E!TypeOK /\ E!DoneMeansFinished


\* A running connection ends or is paused (downloadLoop), a Close returns and ends the Wait
\* of its task (Close), the watcher of a deleted task goes (Wait).
Awaited(t) ==
  CASE protocol = "http" -> state = "running"
    [] protocol = "bt" -> \E c \in B!Caller : closer[<<t, c>>] = "drop"
    [] protocol = "ed2k" -> life[t] = "deleted"
    [] OTHER -> FALSE
Ended(t) ==
  CASE protocol = "http" -> state # "running"
    [] protocol = "bt" -> /\ \A c \in B!Caller : closer[<<t, c>>] \in {"no", "end"}
                          /\ wait[t] \in {"none", "done", "closed"}
    [] protocol = "ed2k" -> wait[t] = "none"
    [] OTHER -> TRUE
EndsAreHeard == \A t \in Task : Awaited(t) ~> Ended(t)
=============================================================================
