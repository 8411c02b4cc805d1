------------------------------ MODULE ApiServer ------------------------------
(***************************************************************************)
(* The API server of the application and the core it needs                 *)
(* (rest/api_server_manager.go; Start, Stop, buildServer, initializeCore). *)
(*                                                                         *)
(* The calls hold runtimeMu.  The goroutine that serves a listener takes   *)
(* it only to report an error, PutConfig never does, and the http.Server   *)
(* closes a listener only once that goroutine has come to it.  A call is   *)
(* one step, but Restart, which waits for a server to shut down.  Handlers *)
(* and sessions, and the networks other than TCP, are left out, and so is  *)
(* a StartAPIServer or RestartAPIServer after Stop (see the README).       *)
(***************************************************************************)
EXTENDS Integers, Sequences

CONSTANTS
  Addr,       \* the addresses a user may choose
  ApiSetups   \* [native, calls]: of an application with a window or a web server; bound

VARIABLES
  setup,
  core,       \* APIService and Downloader: "none", "open" or "closed"
  config,     \* the persisted config.API: [enable, addr, token]
  manager,    \* apiServerManager: [server: 0 or which, active: its config, failed: lastError]
  servers,    \* every http.Server: [config, pc: its goroutine, shut]
  call        \* who holds runtimeMu while a server shuts down: [restarts, desired]

vars == <<setup, core, config, manager, servers, call>>

Configs == [enable : BOOLEAN, addr : Addr, token : 0 .. 1]
NoConfig == <<>>
NoManager == [server |-> 0, active |-> NoConfig, failed |-> FALSE]
Free == [restarts |-> FALSE, desired |-> NoConfig]

TypeOK ==
  /\ setup \in [native : BOOLEAN, calls : Nat]
  /\ core \in {"none", "open", "closed"} /\ config \in Configs
  /\ servers \in Seq([config : Configs, pc : {"start", "serving", "failed", "gone"},
                      shut : BOOLEAN])
  /\ manager.server \in 0 .. Len(servers)
  /\ manager.active \in Configs \/ manager.active = NoConfig
  /\ call = Free \/ call.desired \in Configs

Called == setup.calls > 0 /\ setup' = [setup EXCEPT !.calls = @ - 1]

Init ==
  /\ setup \in ApiSetups
  /\ core = "none" /\ manager = NoManager /\ servers = <<>> /\ call = Free
  /\ config \in {c \in Configs : c.token = 0}

-----------------------------------------------------------------------------
(* startLocked, stopLocked.                                                *)

Listens(s) == servers[s].pc \in {"start", "serving"}
Taken(addr) == \E s \in DOMAIN servers : Listens(s) /\ servers[s].config.addr = addr

\* startWithConfigLocked: listen, which may fail, and serve in a goroutine.
StartsWith(c) ==
  \/ /\ ~Taken(c.addr)
     /\ servers' = Append(servers, [config |-> c, pc |-> "start", shut |-> FALSE])
     /\ manager' = [server |-> Len(servers) + 1, active |-> c, failed |-> FALSE]
  \/ manager' = [manager EXCEPT !.failed = TRUE] /\ UNCHANGED servers

\* startLocked: the server that is running stays, and a config that differs is an error.
StartLocked(c) ==
  \/ manager.server = 0 /\ StartsWith(c)
  \/ /\ manager.server # 0
     /\ manager' = [manager EXCEPT !.failed = manager.active # c]
     /\ UNCHANGED servers

\* Server.Shutdown: a goroutine that has not come to its listener closes it only then.
Shut(s) == [s EXCEPT !.shut = TRUE, !.pc = IF @ = "serving" THEN "gone" ELSE @]

\* stopLocked: a Shutdown that takes too long is an error, and the server is closed.
StopLocked(failed) ==
  /\ failed => manager.server # 0
  /\ servers' = IF manager.server = 0 THEN servers
                ELSE [servers EXCEPT ![manager.server] = Shut(@)]
  /\ manager' = [NoManager EXCEPT !.failed = failed]

-----------------------------------------------------------------------------
(* The calls.                                                              *)

\* Start, once: the core, and the server if the config, or the command line, wants one.
Start ==
  /\ call = Free /\ core # "open" /\ Called
  /\ core' = "open"
  /\ \/ setup.native /\ config.enable /\ StartsWith(config)
     \/ setup.native /\ ~config.enable /\ UNCHANGED <<manager, servers>>
     \/ ~setup.native /\ \E c \in Configs : StartsWith([c EXCEPT !.enable = TRUE])
  /\ UNCHANGED <<config, call>>

\* StartAPIServer.
StartAPIServer ==
  /\ call = Free /\ core = "open" /\ Called
  /\ IF config.enable THEN StartLocked(config)
     ELSE manager' = [manager EXCEPT !.failed = TRUE] /\ UNCHANGED servers
  /\ UNCHANGED <<core, config, call>>

\* StopAPIServer.
StopAPIServer ==
  /\ call = Free /\ core = "open" /\ Called
  /\ \E failed \in BOOLEAN : StopLocked(failed)
  /\ UNCHANGED <<core, config, call>>

\* RestartAPIServer: nothing to do for a server that has the config, and no start after a
\* failed shutdown ...
RestartAPIServer ==
  /\ call = Free /\ core = "open" /\ Called
  /\ IF ~config.enable
     THEN manager' = [manager EXCEPT !.failed = TRUE] /\ UNCHANGED <<servers, call>>
     ELSE IF manager.server # 0 /\ manager.active # config
     THEN \/ StopLocked(FALSE) /\ call' = [restarts |-> TRUE, desired |-> config]
          \/ StopLocked(TRUE) /\ UNCHANGED call
     ELSE StartLocked(config) /\ UNCHANGED call
  /\ UNCHANGED <<core, config>>

\* ... and one that differs is shut down before the next one is started, with the config
\* that was read before.
Restarts ==
  /\ call.restarts
  /\ StartLocked(call.desired)
  /\ call' = Free
  /\ UNCHANGED <<setup, core, config>>

\* Stop: a new manager and no core, whatever the shutdown says.
Stop ==
  /\ call = Free /\ core = "open" /\ Called
  /\ StopLocked(FALSE) /\ core' = "closed"
  /\ UNCHANGED <<config, call>>

PutConfig(c) ==
  /\ core = "open" /\ Called
  /\ config' = c
  /\ UNCHANGED <<core, manager, servers, call>>

-----------------------------------------------------------------------------
(* serve.                                                                  *)

Serves(s) ==
  /\ s \in DOMAIN servers
  /\ \/ /\ servers[s].pc = "start"
        /\ servers' = [servers EXCEPT ![s].pc = IF servers[s].shut THEN "gone" ELSE "serving"]
     \/ servers[s].pc = "serving" /\ servers' = [servers EXCEPT ![s].pc = "failed"]
  /\ UNCHANGED <<setup, core, config, manager, call>>

\* Mutant: whichever server fails.
ForgetsAny(s) == [NoManager EXCEPT !.failed = TRUE]

\* The error of a server that is not the manager's any more is none of its own.
Forgets(s) == IF manager.server = s THEN [NoManager EXCEPT !.failed = TRUE] ELSE manager

Reports(s) ==
  /\ s \in DOMAIN servers /\ servers[s].pc = "failed" /\ call = Free
  /\ servers' = [servers EXCEPT ![s].pc = "gone"]
  /\ manager' = Forgets(s)
  /\ UNCHANGED <<setup, core, config, call>>

Next ==
  \/ Start \/ StartAPIServer \/ StopAPIServer \/ RestartAPIServer \/ Restarts \/ Stop
  \/ \E c \in Configs : PutConfig(c)
  \/ \E s \in DOMAIN servers : Serves(s) \/ Reports(s)

Spec == Init /\ [][Next]_vars

-----------------------------------------------------------------------------

\* What the manager says is so: its server is there, or its goroutine is about to report,
\* and has the config it names; and nothing listens that the manager has lost, only what is
\* being shut down.  A failure that is late takes no later server with it (serve,
\* stateLocked).
StateIsTrue ==
  /\ manager.server # 0 =>
       /\ ~servers[manager.server].shut /\ servers[manager.server].pc # "gone"
       /\ servers[manager.server].config = manager.active
  /\ manager.server = 0 => manager.active = NoConfig
  /\ \A s \in DOMAIN servers : Listens(s) => s = manager.server \/ servers[s].shut

\* Without a core there is no server (Stop).
NoServerWithoutCore == core # "open" => manager.server = 0
=============================================================================
