--------------------------------- MODULE WsHub ----------------------------------
(***************************************************************************)
(* The TA service's WebSocket hub (ta-service/internal/ws/server.go) and   *)
(* the end of its process (ta-service/cmd/main.go): an HTTP handler        *)
(* registers the connection it upgraded and starts a writer for it; the    *)
(* writer sends a snapshot every 5 s, without the hub's lock and without a *)
(* deadline; Broadcast, called once Shutdown has returned, writes to every *)
(* registered connection under the lock.  Nobody reads a connection.       *)
(*                                                                         *)
(* gorilla/websocket is external: a write to a peer that does not read     *)
(* waits until the connection is closed; Close makes waiting writes fail;  *)
(* two writes to a connection at a time may be noticed, and then panic.    *)
(***************************************************************************)
EXTENDS FiniteSets

CONSTANT Conns   \* the connections ever opened

VARIABLES
  process,    \* up, stopping (the signal came), exited or panicked
  handler,    \* per connection: its HTTP handler
  writer,     \* per connection: its writer goroutine
  socket,     \* per connection: open, or closed by the service
  peer,       \* per connection: reading, stalled or gone
  clients,    \* Hub.clients
  broadcast,  \* the broadcast: waiting, on (it holds Hub.mu) or done
  todo,       \* the connections the broadcast has left
  sending     \* the connection it writes to

vars == <<process, handler, writer, socket, peer, clients, broadcast, todo, sending>>

Init ==
  /\ process = "up"
  /\ handler = [c \in Conns |-> "none"] /\ writer = [c \in Conns |-> "none"]
  /\ socket = [c \in Conns |-> "closed"] /\ peer = [c \in Conns |-> "reading"]
  /\ clients = {} /\ broadcast = "waiting" /\ todo = {} /\ sending = {}

Alive == process \in {"up", "stopping"}

(* Mutant: a writer holds the lock while it writes. *)
LockFreeOfWrites == broadcast # "on" /\ \A c \in Conns : writer[c] # "writing"

(* Every other holder of Hub.mu leaves it in the step that took it. *)
LockFree == broadcast # "on"

(* A peer stops reading, reads again, or goes away for good. *)
PeerChanges(c) ==
  /\ Alive /\ handler[c] # "none"
  /\ \/ peer[c] = "reading" /\ peer' = [peer EXCEPT ![c] = "stalled"]
     \/ peer[c] = "stalled" /\ peer' = [peer EXCEPT ![c] = "reading"]
     \/ peer[c] # "gone" /\ peer' = [peer EXCEPT ![c] = "gone"]
  /\ UNCHANGED <<process, handler, writer, socket, clients, broadcast, todo, sending>>

(* Handle: a connection whose upgrade fails never gets here.  Shutdown lets *)
(* the requests that arrived go on, so this is also a step while stopping.  *)
Upgrade(c) ==
  /\ Alive /\ handler[c] = "none"
  /\ handler' = [handler EXCEPT ![c] = "upgraded"]
  /\ socket' = [socket EXCEPT ![c] = "open"]
  /\ UNCHANGED <<process, writer, peer, clients, broadcast, todo, sending>>

Register(c) ==
  /\ Alive /\ handler[c] = "upgraded" /\ LockFree
  /\ handler' = [handler EXCEPT ![c] = "registered"]
  /\ clients' = clients \cup {c}
  /\ UNCHANGED <<process, writer, socket, peer, broadcast, todo, sending>>

(* Mutant: the writer is started before the connection is registered. *)
SpawnEarly(c) ==
  /\ Alive /\ handler[c] # "none" /\ writer[c] = "none"
  /\ writer' = [writer EXCEPT ![c] = "waiting"]
  /\ UNCHANGED <<process, handler, socket, peer, clients, broadcast, todo, sending>>

Spawn(c) ==
  /\ Alive /\ handler[c] = "registered" /\ writer[c] = "none"
  /\ writer' = [writer EXCEPT ![c] = "waiting"]
  /\ UNCHANGED <<process, handler, socket, peer, clients, broadcast, todo, sending>>

Succeeds(c) == socket[c] = "open" /\ peer[c] # "stalled"
Fails(c)    == socket[c] = "closed" \/ peer[c] = "gone"

(* The ticker fires: the writer computes a snapshot and writes it.          *)
Tick(c) ==
  /\ Alive /\ writer[c] = "waiting"
  /\ writer' = [writer EXCEPT ![c] = "writing"]
  /\ UNCHANGED <<process, handler, socket, peer, clients, broadcast, todo, sending>>

Written(c) ==
  /\ Alive /\ writer[c] = "writing"
  /\ \/ /\ Succeeds(c)
        /\ writer' = [writer EXCEPT ![c] = "waiting"]
        /\ UNCHANGED socket
     \/ /\ Fails(c)
        /\ writer' = [writer EXCEPT ![c] = "leaving"]
        /\ socket' = [socket EXCEPT ![c] = "closed"]
  /\ UNCHANGED <<process, handler, peer, clients, broadcast, todo, sending>>

(* The writer's deferred function, after Close. *)
Leave(c) ==
  /\ Alive /\ writer[c] = "leaving" /\ LockFree
  /\ writer' = [writer EXCEPT ![c] = "done"]
  /\ clients' = clients \ {c}
  /\ UNCHANGED <<process, handler, socket, peer, broadcast, todo, sending>>

(* main: the signal cancels ctx, Shutdown is called. *)
Signal ==
  /\ process = "up"
  /\ process' = "stopping"
  /\ UNCHANGED <<handler, writer, socket, peer, clients, broadcast, todo, sending>>

(* Mutant: a broadcast while the service runs. *)
BroadcastAnyTime ==
  /\ Alive /\ broadcast = "waiting"
  /\ broadcast' = "on" /\ todo' = clients
  /\ UNCHANGED <<process, handler, writer, socket, peer, clients, sending>>

(* Shutdown has returned, or its 5 s are over; it does not wait for         *)
(* connections that were upgraded.                                          *)
BroadcastBegins ==
  /\ process = "stopping" /\ broadcast = "waiting"
  /\ broadcast' = "on" /\ todo' = clients
  /\ UNCHANGED <<process, handler, writer, socket, peer, clients, sending>>

BroadcastWrites ==
  /\ Alive /\ broadcast = "on" /\ sending = {}
  /\ \E c \in todo : sending' = {c} /\ todo' = todo \ {c}
  /\ UNCHANGED <<process, handler, writer, socket, peer, clients, broadcast>>

BroadcastWritten ==
  /\ Alive
  /\ \E c \in sending :
       \/ Succeeds(c) /\ UNCHANGED <<socket, clients>>
       \/ /\ Fails(c)
          /\ socket' = [socket EXCEPT ![c] = "closed"]
          /\ clients' = clients \ {c}
  /\ sending' = {}
  /\ UNCHANGED <<process, handler, writer, peer, broadcast, todo>>

BroadcastEnds ==
  /\ Alive /\ broadcast = "on" /\ todo = {} /\ sending = {}
  /\ broadcast' = "done"
  /\ UNCHANGED <<process, handler, writer, socket, peer, clients, todo, sending>>

(* Two writes to a connection meet. *)
Panic ==
  /\ Alive /\ \E c \in sending : writer[c] = "writing"
  /\ process' = "panicked"
  /\ UNCHANGED <<handler, writer, socket, peer, clients, broadcast, todo, sending>>

(* ListenAndServe returned when Shutdown was called, so main returns and    *)
(* the process ends, whatever its goroutines do.                            *)
Exit ==
  /\ process = "stopping"
  /\ process' = "exited"
  /\ UNCHANGED <<handler, writer, socket, peer, clients, broadcast, todo, sending>>

Next ==
  \/ Signal \/ Panic \/ Exit
  \/ BroadcastBegins \/ BroadcastWrites \/ BroadcastWritten \/ BroadcastEnds
  \/ \E c \in Conns : \/ PeerChanges(c) \/ Upgrade(c) \/ Register(c) \/ Spawn(c)
                      \/ Tick(c) \/ Written(c) \/ Leave(c)

Spec == Init /\ [][Next]_vars

(* Goroutines that can run do, tickers fire, main returns. *)
Fairness ==
  /\ WF_vars(Exit)
  /\ \A c \in Conns : /\ WF_vars(Register(c)) /\ WF_vars(Spawn(c))
                      /\ WF_vars(Tick(c)) /\ WF_vars(Written(c)) /\ WF_vars(Leave(c))

FairSpec == Spec /\ Fairness
-------------------------------------------------------------------------------
(* Handle and writer: the hub never keeps a connection whose writer is      *)
(* through, and no connection stays open without a writer or a handler to   *)
(* start one.                                                               *)
NoOrphans ==
  \A c \in Conns : /\ c \in clients => writer[c] # "done"
                   /\ socket[c] = "open" => writer[c] \notin {"leaving", "done"}

(* writer and main: a client that does not read delays nobody: whoever      *)
(* connects is registered and has a writer in the end, and a client that    *)
(* keeps reading gets snapshot after snapshot, unless the service stops;    *)
(* and the signal ends the process, also while the broadcast waits.         *)
SlowClientsHurtThemselves ==
  /\ process = "stopping" ~> ~Alive
  /\ \A c \in Conns :
       /\ handler[c] = "upgraded" ~> (writer[c] # "none" \/ process # "up")
       /\ <>[](process = "up" /\ writer[c] # "none" /\ peer[c] = "reading")
            => \/ []<>(writer[c] = "writing") /\ []<>(writer[c] = "waiting")
               \/ <>(socket[c] = "closed" /\ handler[c] # "none")

(* Broadcast: only while the service stops can two writes to a connection   *)
(* meet and take the process down.                                          *)
PanicsOnlyWhileStopping == [][process = "up" => process' # "panicked"]_vars
===============================================================================
