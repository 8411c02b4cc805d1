---------------------------- MODULE Ed2kFetcher ----------------------------
(***************************************************************************)
(* The ed2k fetchers of several tasks over the one client of their manager *)
(* (internal/protocol/ed2k/fetcher.go), with what the downloader makes of  *)
(* the end of Wait.                                                        *)
(*                                                                         *)
(* The client names its transfers by hash, keeps them over a restart (its  *)
(* state is stored under the protocol's name) and is external: it fetches  *)
(* what is resumed and publishes the state of its transfers again and      *)
(* again; a removal is published once, to who listens then.                *)
(***************************************************************************)
EXTENDS Integers, FiniteSets

CONSTANTS
  Task,
  Path,    \* the target paths a user may choose
  Setups

VARIABLES
  setup,    \* the budgets: [hash, starts, pauses, patches, deletes, closes, faults, apart]
  client,   \* fm.client is not nil
  transfer, \* per hash: the state the client has of it, "none" without one
  target,   \* per hash: the path the transfer writes to
  path,     \* f.meta: the path of the task
  status,   \* the downloader's status: "pause", "running", "done", "error", "deleted"
  op,       \* where Start is: "idle", "client", "find"
  wait,     \* where the watcher is: "none", "begin", "listen", "return"
  told      \* the watchers whose context is cancelled or whose channel says "removed" or is closed

vars == <<setup, client, transfer, target, path, status, op, wait, told>>

Hash == Task
hash(t) == setup.hash[t]
TypeOK ==
  /\ client \in BOOLEAN
  /\ transfer \in [Hash -> {"none", "paused", "running", "finished"}]
  /\ target \in [Hash -> Path] /\ path \in [Task -> Path]
  /\ status \in [Task -> {"pause", "running", "done", "error", "deleted"}]
  /\ op \in [Task -> {"idle", "client", "find"}]
  /\ wait \in [Task -> {"none", "begin", "listen", "return"}]
  /\ told \subseteq Task

Init ==
  /\ setup \in Setups
  /\ client = FALSE /\ told = {}
  /\ transfer = [h \in Hash |-> "none"]
  /\ \E p \in Path : target = [h \in Hash |-> p] /\ path = [t \in Task |-> p]
  /\ status = [t \in Task |-> "pause"]
  /\ op = [t \in Task |-> "idle"] /\ wait = [t \in Task |-> "none"]

Spend(what) == setup[what] > 0 /\ setup' = [setup EXCEPT ![what] = @ - 1]
SetStatus(t, s) == status' = [status EXCEPT ![t] = s]
Goto(t, to) == op' = [op EXCEPT ![t] = to]

\* currentHandle().IsValid(): the handle kept, or the one the client finds by hash.
HandleIsValid(t) == client /\ transfer[hash(t)] # "none"

-----------------------------------------------------------------------------

\* setup.apart: after a Close only another process starts tasks, without old watchers.
Start(t) ==
  /\ op[t] = "idle" /\ status[t] \in {"pause", "error"}
  /\ setup.apart => client \/ \A u \in Task : wait[u] = "none"
  /\ Spend("starts")
  /\ SetStatus(t, "running")
  /\ Goto(t, "client")
  /\ UNCHANGED <<client, transfer, target, path, wait, told>>

\* A step of Start that returns an error.
StartFails(t) ==
  /\ Spend("faults")
  /\ SetStatus(t, IF status[t] = "running" THEN "error" ELSE status[t])
  /\ Goto(t, "idle")

\* getClient, under the manager's mutex: loading its state or starting it may fail, and
\* then there is no client.
GetClient(t) ==
  /\ op[t] = "client"
  /\ \/ /\ client' = TRUE
        /\ Goto(t, "find")
        /\ UNCHANGED <<setup, status>>
     \/ /\ ~client /\ StartFails(t)
        /\ UNCHANGED client
  /\ UNCHANGED <<transfer, target, path, wait, told>>

\* A transfer that is added gets the task's path; one that is found keeps its own.
Targeted(t) == IF transfer[hash(t)] = "none" THEN [target EXCEPT ![hash(t)] = path[t]] ELSE target

\* FindTransfer, or AddTransfer with the task's path; a paused one is resumed.  The
\* downloader then starts a watcher if the task has none.
FindOrAddTransfer(t) ==
  LET h == hash(t) IN
  /\ op[t] = "find"
  /\ transfer' = [transfer EXCEPT ![h] = IF @ = "finished" THEN @ ELSE "running"]
  /\ target' = Targeted(t)
  /\ wait' = IF wait[t] = "none" THEN [wait EXCEPT ![t] = "begin"] ELSE wait
  /\ Goto(t, "idle")
  /\ UNCHANGED <<setup, client, path, status, told>>

\* The folder cannot be made, the transfer not be added, or, once it is there, not resumed.
FindOrAddFails(t) ==
  /\ op[t] = "find"
  /\ StartFails(t)
  /\ \/ UNCHANGED <<transfer, target>>
     \/ /\ transfer' = [transfer EXCEPT ![hash(t)] = IF @ = "none" THEN "paused" ELSE @]
        /\ target' = Targeted(t)
  /\ UNCHANGED <<client, path, wait, told>>

\* The status changes first; PauseTransfer only for a transfer the client has.
Pause(t) ==
  /\ op[t] = "idle" /\ status[t] = "running"
  /\ Spend("pauses")
  /\ SetStatus(t, "pause")
  /\ transfer' = IF HandleIsValid(t) /\ transfer[hash(t)] = "running"
                 THEN [transfer EXCEPT ![hash(t)] = "paused"] ELSE transfer
  /\ UNCHANGED <<client, target, path, op, wait, told>>

\* "cannot change ed2k target path after transfer started"
PatchAllowed(t) == ~HandleIsValid(t)

\* setup.apart: the path is not patched while the client is closed and has a transfer stored,
\* which the next Start finds again with its old path.
Patch(t) ==
  /\ op[t] = "idle" /\ status[t] # "deleted"
  /\ setup.apart => client \/ transfer[hash(t)] = "none"
  /\ Spend("patches")
  /\ \/ PatchAllowed(t) /\ \E p \in Path : path' = [path EXCEPT ![t] = p]
     \/ ~PatchAllowed(t) /\ UNCHANGED path
  /\ UNCHANGED <<client, transfer, target, status, op, wait, told>>

\* Delete comes without the task's lock, in the middle of a Start too: the task's context
\* is cancelled and the transfer removed, which the watchers that listen for the same
\* hash are told.
Delete(t) ==
  /\ status[t] # "deleted"
  /\ Spend("deletes")
  /\ SetStatus(t, "deleted")
  /\ LET h == hash(t)
         removes == HandleIsValid(t)
     IN /\ transfer' = IF removes THEN [transfer EXCEPT ![h] = "none"] ELSE transfer
        /\ told' = told \cup {t}
             \cup (IF removes THEN {u \in Task : hash(u) = h /\ wait[u] = "listen"} ELSE {})
  /\ UNCHANGED <<client, target, path, op, wait>>

\* The manager's Close: the client goes with its channels, its transfers are stored.
\* setup.apart: every task has been paused, as Downloader.Close does before.
CloseManager ==
  /\ client
  /\ Spend("closes")
  /\ setup.apart => \A t \in Task : status[t] # "running" /\ op[t] = "idle" /\ wait[t] # "begin"
  /\ client' = FALSE
  /\ told' = told \cup {t \in Task : wait[t] = "listen"}
  /\ UNCHANGED <<transfer, target, path, status, op, wait>>

\* The client's own progress.
Download(h) ==
  /\ client /\ transfer[h] = "running"
  /\ transfer' = [transfer EXCEPT ![h] = "finished"]
  /\ UNCHANGED <<setup, client, target, path, status, op, wait, told>>

-----------------------------------------------------------------------------
(* Wait, and the downloader's watch behind it.                             *)

\* Wait gets the client too, and makes one if it has gone.
WaitBegins(t) ==
  /\ wait[t] = "begin"
  /\ client' = TRUE
  /\ wait' = [wait EXCEPT ![t] = IF transfer[hash(t)] = "finished" THEN "return" ELSE "listen"]
  /\ UNCHANGED <<setup, transfer, target, path, status, op, told>>

\* Of an event only the transfers with the task's hash count.
Heard(t) == t \in told \/ transfer[hash(t)] = "finished"

WaitEnds(t) ==
  /\ wait[t] = "listen"
  /\ Heard(t)
  /\ wait' = [wait EXCEPT ![t] = "return"]
  /\ UNCHANGED <<setup, client, transfer, target, path, status, op, told>>

\* Every end of Wait is nil.  The watcher marks a task done that is running and there.  A
\* cancelled context stays cancelled: the watcher a late Start begins ends at once too.
Watched(t) ==
  /\ wait[t] = "return"
  /\ wait' = [wait EXCEPT ![t] = "none"]
  /\ told' = IF status[t] = "deleted" THEN told ELSE told \ {t}
  /\ SetStatus(t, IF status[t] = "running" THEN "done" ELSE status[t])
  /\ UNCHANGED <<setup, client, transfer, target, path, op>>

Handler(t) == GetClient(t) \/ FindOrAddTransfer(t) \/ FindOrAddFails(t)
Watcher(t) == WaitBegins(t) \/ WaitEnds(t) \/ Watched(t)

Next ==
  \/ \E t \in Task : Start(t) \/ Handler(t) \/ Watcher(t) \/ Pause(t) \/ Patch(t) \/ Delete(t)
  \/ CloseManager
  \/ \E h \in Hash : Download(h)

Spec == Init /\ [][Next]_vars

FairSpec == Spec /\ \A t \in Task : WF_vars(Handler(t)) /\ WF_vars(Watcher(t))

-----------------------------------------------------------------------------

\* A task is done when its own transfer has finished; that Wait also ends for a removal,
\* a cancelled context and a closed channel must not show (Wait, watch).
DoneMeansFinished ==
  \A t \in Task : status[t] = "done" => transfer[hash(t)] = "finished"

\* The transfer of a running task writes to the path the task shows, whatever the user
\* patched before, and after a restart of the manager too (Start, Patch).
RunningWritesItsTarget ==
  \A t \in Task :
    status[t] = "running" /\ op[t] = "idle" /\ wait[t] # "none" => target[hash(t)] = path[t]

\* The watcher of a deleted task ends.
DeleteEndsWait == \A t \in Task : status[t] = "deleted" ~> wait[t] = "none"
=============================================================================
