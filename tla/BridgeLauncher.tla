--------------------------- MODULE BridgeLauncher ---------------------------
(***************************************************************************)
(* bridge-launcher.js: a node.script of Max that starts and stops the      *)
(* bridge as a child process.                                              *)
(*                                                                         *)
(* The launcher keeps one handle, that of the bridge it started last.      *)
(* kill() only sends a signal; that the process has ended comes back later *)
(* as its "close" event, and the handler of that event does not look whose *)
(* event it is.                                                            *)
(*                                                                         *)
(* External: a bridge ends at SIGTERM, or on its own when its connection   *)
(* closes or fails; spawn may throw; node.script ends the launcher, or an  *)
(* error of the child that nobody listens to does.                         *)
(***************************************************************************)


CONSTANTS Bridges,  \* bound: the processes spawned
          Urls,     \* server addresses, the default one included
          Default,  \* the member of Urls to begin with
          None

VARIABLES
  up,             \* the launcher runs
  wsUrl,          \* the address for the next bridge
  bridgeProcess,  \* the handle, None for null
  process,        \* of each bridge: unborn, running, ended, and closed once
                  \* its close event was handled
  killed,         \* bridges that were sent SIGTERM
  serves          \* the address each bridge was given

vars == <<up, wsUrl, bridgeProcess, process, killed, serves>>

Init ==
  /\ up = TRUE
  /\ wsUrl = Default
  /\ bridgeProcess = None
  /\ process = [b \in Bridges |-> "unborn"]
  /\ killed = {}
  /\ serves = [b \in Bridges |-> None]

(* The url message: for the bridges started from now on.                   *)
SetUrl(u) ==
  /\ up
  /\ wsUrl' = u
  /\ UNCHANGED <<up, bridgeProcess, process, killed, serves>>

Start(b) ==
  /\ up /\ bridgeProcess = None
  /\ process[b] = "unborn"
  /\ bridgeProcess' = b
  /\ process' = [process EXCEPT ![b] = "running"]
  /\ serves' = [serves EXCEPT ![b] = wsUrl]
  /\ UNCHANGED <<up, wsUrl, killed>>

Kill(b) == killed' = killed \cup {b}

Stop ==
  /\ up /\ bridgeProcess # None
  /\ Kill(bridgeProcess)
  /\ bridgeProcess' = None
  /\ UNCHANGED <<up, wsUrl, process, serves>>

(* A bridge ends, by the signal or by itself.                              *)
Ends(b) ==
  /\ process[b] = "running"
  /\ process' = [process EXCEPT ![b] = "ended"]
  /\ UNCHANGED <<up, wsUrl, bridgeProcess, killed, serves>>

(* The close event of any bridge takes the handle.                         *)
CloseEvent(b) ==
  /\ up /\ process[b] = "ended"
  /\ process' = [process EXCEPT ![b] = "closed"]
  /\ bridgeProcess' = None
  /\ UNCHANGED <<up, wsUrl, killed, serves>>

(* The exit handler kills the bridge it has the handle of.                 *)
Exit ==
  /\ up
  /\ up' = FALSE
  /\ IF bridgeProcess = None THEN UNCHANGED killed ELSE Kill(bridgeProcess)
  /\ UNCHANGED <<wsUrl, bridgeProcess, process, serves>>

Next ==
  \/ \E u \in Urls : SetUrl(u)
  \/ \E b \in Bridges : Start(b) \/ Ends(b) \/ CloseEvent(b)
  \/ Stop \/ Exit

Spec == Init /\ [][Next]_vars

-----------------------------------------------------------------------------
(* bridge-launcher.js:71 calls the exit handler "Cleanup on exit": when    *)
(* the launcher is gone, each bridge it started has ended or was told to.  *)
CleanupOnExit ==
  ~up => \A b \in Bridges : process[b] = "running" => b \in killed
=============================================================================
