----------------------------- MODULE BtFetcher -----------------------------
(***************************************************************************)
(* The BitTorrent fetchers of several tasks over the one torrent client    *)
(* they share (internal/protocol/bt/fetcher.go).                           *)
(*                                                                         *)
(* The client is a global: initClient makes it under a lock, the fetcher   *)
(* that closes the last torrent destroys it, and everybody in between      *)
(* reads the variable without the lock.  A method called on a client or a  *)
(* torrent that is nil is a panic.  The torrent library is external: it    *)
(* has a set of torrents, fetches the files that are wanted, and closes    *)
(* nobody's channels when a torrent is dropped.                            *)
(***************************************************************************)
EXTENDS Integers, FiniteSets

CONSTANTS
  Task,    \* one fetcher each
  File,    \* the files of a torrent
  Setups   \* the initial values of setup

VARIABLES
  setup,   \* the budgets: [hash, resolved, starts, pauses, patches, closes, seeds, faults, apart]
  client,  \* "none", "open", or "shut": closed with an error, and kept
  added,   \* client.Torrents()
  handle,  \* f.torrent # nil
  ready,   \* f.torrentReady
  seeding, \* f.torrentUpload, a doUpload goroutine runs
  dropped, \* f.torrentDropCtx is cancelled
  box,     \* the number of values in f.uploadDoneCh, which holds one
  want,    \* f.meta.Opts.SelectFiles
  wanted,  \* the files the library fetches for a torrent
  allowed, \* the torrents that may download
  got,     \* the files of a torrent that are complete on disk
  removed, \* the files Wait has removed for a task
  op,      \* where Start or Resolve of a task is
  closer,  \* where the Close of a caller is
  wait,    \* the watcher: "none", "waiting", "removing", "done", "closed"
  panics   \* the methods that were called on nil

vars == <<setup, client, added, handle, ready, seeding, dropped, box, want, wanted, allowed,
          got, removed, op, closer, wait, panics>>

Hash == Task          \* a torrent is named by a task that downloads it
Caller == {"user", "seed"}
hash(t) == setup.hash[t]

TypeOK ==
  /\ client \in {"none", "open", "shut"}
  /\ added \subseteq Hash /\ allowed \subseteq Hash
  /\ handle \subseteq Task /\ ready \subseteq handle
  /\ seeding \subseteq Task /\ dropped \subseteq Task
  /\ box \in [Task -> 0 .. 1]
  /\ want \in [Task -> SUBSET File] /\ removed \in [Task -> SUBSET File]
  /\ wanted \in [Hash -> SUBSET File] /\ got \in [Hash -> SUBSET File]
  /\ op \in [Task -> {"idle", "init", "add", "info", "begin"}]
  /\ closer \in [Task \X Caller -> {"no", "drop", "send", "test", "close", "end"}]
  /\ wait \in [Task -> {"none", "waiting", "removing", "done", "closed"}]
  /\ panics \subseteq {"Pause", "Torrents", "AddTorrentSpec"}

\* Setup: a fetcher without a torrent, or one that Resolve has given its torrent.
Init ==
  /\ setup \in Setups
  /\ client = IF setup.resolved = {} THEN "none" ELSE "open"
  /\ handle = setup.resolved /\ ready = setup.resolved /\ seeding = setup.resolved
  /\ added = {hash(t) : t \in setup.resolved}
  /\ dropped = {} /\ allowed = {}
  /\ box = [t \in Task |-> 0]
  /\ want = [t \in Task |-> File] /\ removed = [t \in Task |-> {}]
  /\ wanted = [h \in Hash |-> {}] /\ got = [h \in Hash |-> {}]
  /\ op = [t \in Task |-> "idle"]
  /\ closer = [c \in Task \X Caller |-> "no"]
  /\ wait = [t \in Task |-> "none"]
  /\ panics = {}

Spend(what) == setup[what] > 0 /\ setup' = [setup EXCEPT ![what] = @ - 1]
Goto(t, to) == op' = [op EXCEPT ![t] = to]
Panic(where) == panics' = panics \cup {where}
ClosersRest == \A c \in Task \X Caller : closer[c] \in {"no", "end"}
Closing(t) == \E c \in Caller : closer[<<t, c>>] # "no"

-----------------------------------------------------------------------------
(* Start and Resolve (addTorrent); the task's lock is held by the caller.  *)

\* A torrent that is ready is only told to go on.
Start(t) ==
  /\ op[t] = "idle" /\ ~Closing(t) /\ wait[t] \notin {"done", "closed"}
  /\ hash(t) \notin allowed \/ wait[t] = "none"
  /\ Spend("starts")
  /\ Goto(t, IF t \in ready THEN "begin" ELSE "init")
  /\ UNCHANGED <<client, added, handle, ready, seeding, dropped, box, want, wanted, allowed,
                 got, removed, closer, wait, panics>>

\* A call of addTorrent that returns an error ends the Start.
StartFails(t) == Spend("faults") /\ Goto(t, "idle")

\* initClient, under the lock: a client that is there is taken as it is, a new one may not
\* get its port.  setup.apart: nobody closes a fetcher at the same time.
InitClient(t) ==
  /\ op[t] = "init"
  /\ setup.apart => ClosersRest
  /\ \/ /\ client' = IF client = "none" THEN "open" ELSE client
        /\ Goto(t, "add")
        /\ UNCHANGED setup
     \/ /\ client = "none"
        /\ StartFails(t)
        /\ UNCHANGED client
  /\ UNCHANGED <<added, handle, ready, seeding, dropped, box, want, wanted, allowed,
                 got, removed, closer, wait, panics>>

\* client.AddTorrentSpec reads the global without the lock.  A torrent that is there
\* already is shared.  An error leaves no new torrent and any value in f.torrent.
AddTorrentSpec(t) ==
  /\ op[t] = "add"
  /\ \/ /\ client # "none"
        /\ added' = added \cup {hash(t)}
        /\ handle' = handle \cup {t}
        /\ Goto(t, "info")
        /\ UNCHANGED <<setup, panics>>
     \/ /\ client # "none"
        /\ StartFails(t)
        /\ handle' \in {handle, handle \cup {t}}
        /\ UNCHANGED <<added, panics>>
     \/ /\ client = "none"
        /\ Panic("AddTorrentSpec")
        /\ Goto(t, "idle")
        /\ UNCHANGED <<setup, added, handle>>
  /\ UNCHANGED <<client, ready, seeding, dropped, box, want, wanted, allowed, got,
                 removed, closer, wait>>

\* <-GotInfo(): comes at once with a torrent file, from a peer with a magnet link, and
\* never for a torrent that was dropped.  Then doUpload is started, once.
GotInfo(t) ==
  /\ op[t] = "info" /\ hash(t) \in added
  /\ ready' = ready \cup {t}
  /\ seeding' = seeding \cup {t}
  /\ Goto(t, "begin")
  /\ UNCHANGED <<setup, client, added, handle, dropped, box, want, wanted, allowed, got,
                 removed, closer, wait, panics>>

\* The rest of Start: the selected files are wanted and data may flow; then the
\* downloader starts a watcher if the task has none.
BeginDownload(t) ==
  /\ op[t] = "begin"
  /\ wanted' = [wanted EXCEPT ![hash(t)] = @ \cup want[t]]
  /\ allowed' = allowed \cup {hash(t)}
  /\ Goto(t, "idle")
  /\ wait' = IF wait[t] = "none" THEN [wait EXCEPT ![t] = "waiting"] ELSE wait
  /\ UNCHANGED <<setup, client, added, handle, ready, seeding, dropped, box, want, got,
                 removed, closer, panics>>

-----------------------------------------------------------------------------

\* Pause holds the task's lock too, and may come before the first Start.
Pause(t) ==
  /\ op[t] = "idle" /\ ~Closing(t) /\ wait[t] \in {"none", "waiting"}
  /\ Spend("pauses")
  /\ \/ /\ t \in handle
        /\ allowed' = allowed \ {hash(t)}
        /\ UNCHANGED panics
     \/ /\ t \notin handle
        /\ Panic("Pause")
        /\ UNCHANGED allowed
  /\ UNCHANGED <<client, added, handle, ready, seeding, dropped, box, want, wanted, got,
                 removed, op, closer, wait>>

\* The files Patch keeps from a selection: those that exist.
ValidFiles(select) == select \cap File

\* All pieces are cancelled and the selected files wanted again.
PatchSelection(t, select) ==
  /\ want' = [want EXCEPT ![t] = ValidFiles(select)]
  /\ wanted' = IF t \in handle THEN [wanted EXCEPT ![hash(t)] = ValidFiles(select)] ELSE wanted

\* A task that has ended, or seeds, or has ended its seeding is patched like any other; only
\* a deleted one is not found.  setup.apart: Patch does not come between Wait's look at the
\* files and its end.
Patch(t, select) ==
  /\ op[t] = "idle" /\ closer[<<t, "user">>] = "no"
  /\ setup.apart => wait[t] # "removing"
  /\ Spend("patches")
  /\ PatchSelection(t, select)
  /\ UNCHANGED <<client, added, handle, ready, seeding, dropped, box, allowed, got, removed,
                 op, closer, wait, panics>>

\* The library: a wanted file is completed while data may flow.
Download(h, f) ==
  /\ h \in added \cap allowed /\ f \in wanted[h] \ got[h]
  /\ got' = [got EXCEPT ![h] = @ \cup {f}]
  /\ UNCHANGED <<setup, client, added, handle, ready, seeding, dropped, box, want, wanted,
                 allowed, removed, op, closer, wait, panics>>

\* Mutant: the last of the selected files to be looked at decides.
IsDoneLast(t) == want[t] \cap got[hash(t)] # {}

IsDone(t) == want[t] \subseteq got[hash(t)]

\* Wait looks once a second; a torrent without a selected file is never done.
WaitSeesDone(t) ==
  /\ wait[t] = "waiting" /\ t \notin dropped
  /\ t \in ready /\ want[t] # {} /\ IsDone(t)
  /\ wait' = [wait EXCEPT ![t] = "removing"]
  /\ UNCHANGED <<setup, client, added, handle, ready, seeding, dropped, box, want, wanted,
                 allowed, got, removed, op, closer, panics>>

\* The files that are not selected now are removed, and Wait returns.
RemoveUnselected(t) ==
  /\ wait[t] = "removing"
  /\ removed' = [removed EXCEPT ![t] = File \ want[t]]
  /\ wait' = [wait EXCEPT ![t] = "done"]
  /\ UNCHANGED <<setup, client, added, handle, ready, seeding, dropped, box, want, wanted,
                 allowed, got, op, closer, panics>>

WaitSeesDrop(t) ==
  /\ wait[t] = "waiting" /\ t \in dropped
  /\ wait' = [wait EXCEPT ![t] = "closed"]
  /\ UNCHANGED <<setup, client, added, handle, ready, seeding, dropped, box, want, wanted,
                 allowed, got, removed, op, closer, panics>>

-----------------------------------------------------------------------------
(* Close, called by Delete without the task's lock, and by doUpload when   *)
(* the seed ratio or the seed time is reached.                             *)

Step(c, from, to) == closer[c] = from /\ closer' = [closer EXCEPT ![c] = to]

CallClose(t) ==
  /\ Spend("closes")
  /\ setup.apart =>
       client # "none" /\ ClosersRest /\ op[t] # "init" /\ \A u \in Task : op[u] # "add"
  /\ Step(<<t, "user">>, "no", "drop")
  /\ UNCHANGED <<client, added, handle, ready, seeding, dropped, box, want, wanted, allowed,
                 got, removed, op, wait, panics>>

\* doUpload looks once a second at a torrent that is done.
SeedLimit(t) ==
  /\ t \in seeding \ dropped /\ t \in ready /\ IsDone(t)
  /\ setup.apart => wait[t] = "done" /\ ClosersRest /\ \A u \in Task : op[u] # "add"
  /\ Spend("seeds")
  /\ Step(<<t, "seed">>, "no", "drop")
  /\ UNCHANGED <<client, added, handle, ready, seeding, dropped, box, want, wanted, allowed,
                 got, removed, op, wait, panics>>

\* Mutant: the torrent is dropped and the context is not cancelled.
CloseDropsTorrent(c) ==
  /\ Step(c, "drop", "send")
  /\ added' = added \ {hash(c[1])}
  /\ UNCHANGED <<setup, client, handle, ready, seeding, dropped, box, want, wanted, allowed,
                 got, removed, op, wait, panics>>

\* safeDrop and torrentDropFunc.
CloseDrops(c) ==
  LET t == c[1] IN
  /\ Step(c, "drop", "send")
  /\ added' = IF t \in handle THEN added \ {hash(t)} ELSE added
  /\ dropped' = dropped \cup {t}
  /\ UNCHANGED <<setup, client, handle, ready, seeding, box, want, wanted, allowed, got,
                 removed, op, wait, panics>>

\* uploadDoneCh <- nil
CloseSends(c) ==
  /\ box[c[1]] = 0
  /\ Step(c, "send", "test")
  /\ box' = [box EXCEPT ![c[1]] = 1]
  /\ UNCHANGED <<setup, client, added, handle, ready, seeding, dropped, want, wanted, allowed,
                 got, removed, op, wait, panics>>


\* len(client.Torrents()), without the lock.
CloseTests(c) ==
  /\ \/ /\ client = "none"
        /\ Panic("Torrents")
        /\ Step(c, "test", "end")
     \/ /\ client # "none"
        /\ Step(c, "test", IF added = {} THEN "close" ELSE "end")
        /\ UNCHANGED panics
  /\ UNCHANGED <<setup, client, added, handle, ready, seeding, dropped, box, want, wanted,
                 allowed, got, removed, op, wait>>

\* closeClient closes whatever the client has by now.  After an error the closed client
\* stays in the global, for everybody who comes later.
CloseClient(c) ==
  /\ Step(c, "close", "end")
  /\ \/ client' = "none" /\ UNCHANGED setup
     \/ client # "none" /\ client' = "shut" /\ Spend("faults")
  /\ added' = {}
  /\ UNCHANGED <<handle, ready, seeding, dropped, box, want, wanted, allowed, got,
                 removed, op, wait, panics>>

\* The goroutine of the downloader's watch in WaitUpload: a task that was created in
\* this process has one.
WaitUpload(t) ==
  /\ box[t] = 1 /\ wait[t] # "none"
  /\ box' = [box EXCEPT ![t] = 0]
  /\ UNCHANGED <<setup, client, added, handle, ready, seeding, dropped, want, wanted, allowed,
                 got, removed, op, closer, wait, panics>>

UploadLeaves(t) ==
  /\ t \in seeding \cap dropped
  /\ closer[<<t, "seed">>] \in {"no", "end"}
  /\ seeding' = seeding \ {t}
  /\ UNCHANGED <<setup, client, added, handle, ready, dropped, box, want, wanted, allowed,
                 got, removed, op, closer, wait, panics>>

Handler(t) == InitClient(t) \/ AddTorrentSpec(t) \/ BeginDownload(t)
Watcher(t) == WaitSeesDone(t) \/ RemoveUnselected(t) \/ WaitSeesDrop(t)
Closer(c) == CloseDrops(c) \/ CloseSends(c) \/ CloseTests(c) \/ CloseClient(c)

Next ==
  \/ \E t \in Task :
       \/ Start(t) \/ Handler(t) \/ GotInfo(t) \/ Watcher(t) \/ Pause(t)
       \/ \E select \in SUBSET (File \cup {0}) : Patch(t, select)
       \/ CallClose(t) \/ SeedLimit(t) \/ WaitUpload(t) \/ UploadLeaves(t)
  \/ \E h \in Hash, f \in File : Download(h, f)
  \/ \E c \in Task \X Caller : Closer(c)

Spec == Init /\ [][Next]_vars

\* The goroutines go on; peers need not answer and users need not call.
FairSpec ==
  /\ Spec
  /\ \A t \in Task : WF_vars(Handler(t)) /\ WF_vars(Watcher(t)) /\ WF_vars(WaitUpload(t))
  /\ \A c \in Task \X Caller : WF_vars(Closer(c))

-----------------------------------------------------------------------------

\* No method is called on a client or a torrent that is not there (the global client is
\* read outside its lock by addTorrent and Close).
NobodyPanics == panics = {}

\* A task that downloads has its torrent in a client that is open, whatever the other
\* tasks close meanwhile; unless closing the client has failed before, since then the
\* closed one is all there is (Close, closeClient).
RunningHasTorrent ==
  \A t \in Task : wait[t] = "waiting" /\ ~Closing(t) /\ client # "shut" =>
    client = "open" /\ hash(t) \in added

\* When a watcher reports the end, what it has not removed, the files selected by then, is
\* complete, and whatever is selected afterwards, no Patch of a task that has ended changes
\* that (Wait, Patch).
DoneMeansSelected ==
  \A t \in Task : wait[t] = "done" => File \ removed[t] \subseteq got[hash(t)]

\* A file that is selected is one the torrent fetches, after every Patch: else the
\* watcher waits for a file nobody fetches (Start, Patch).
SelectedIsWanted ==
  \A t \in Task : wait[t] = "waiting" /\ ~Closing(t) => want[t] \subseteq wanted[hash(t)]

\* When the last torrent has gone, so has the client with its port and its goroutines, or
\* its closing has failed (Close).
ClientIsGiven ==
  ClosersRest /\ dropped = Task /\ (\A t \in Task : op[t] = "idle")
    => client \in {"none", "shut"}

\* A Close ends, and so does the Wait of the task it was for.
CloseEnds ==
  \A c \in Task \X Caller :
    closer[c] = "drop" ~> (closer[c] = "end" /\ wait[c[1]] \in {"none", "done", "closed"})
=============================================================================
