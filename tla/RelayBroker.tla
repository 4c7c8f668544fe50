----------------------------- MODULE RelayBroker -----------------------------
(***************************************************************************)
(* The relay broker (core/mesh-relay-broker.ts): control connections of    *)
(* one controller and its workers, the authorization snapshot, stream      *)
(* tickets that are redeemed from two sides, and the live streams made of  *)
(* them.  Every handler is synchronous, so each is one action; what can go *)
(* wrong is what a sequence of them leaves behind.                         *)
(*                                                                         *)
(* A frame that cannot be sent, a malformed frame, a heartbeat that runs   *)
(* out and a peer that hangs up all end in closeControl or closeStream:    *)
(* ControlLost and StreamFails.  Whether an enrollment admission verifies  *)
(* and is not claimed by another identity is a choice.  Left out: the      *)
(* client role, signatures, routes and headers, byte counts and the audit. *)
(***************************************************************************)
EXTENDS Naturals, FiniteSets

CONSTANTS
  Connections,     \* control connections, each opened once
  Tickets,         \* stream tickets, each issued once
  Nodes,           \* node ids of workers
  Keys,            \* public keys: a node may come back with another one
  None,
  MaxConnections,  \* RELAY_MAX_CONNECTIONS
  MaxPending,      \* RELAY_MAX_PENDING_WORKERS
  MaxTickets,      \* RELAY_MAX_TICKETS_PER_NODE
  MaxStreams,      \* RELAY_MAX_STREAMS_PER_NODE
  MaxCommits       \* bound on authorization snapshots

ASSUME NoneAssumption ==
  /\ None \notin Connections /\ None \notin Nodes /\ None \notin Keys
  /\ None \notin {"controller", "worker", "pending", "authorized"}
ASSUME LimitAssumption ==
  /\ MaxConnections \in Nat /\ MaxPending \in Nat /\ MaxCommits \in Nat
  /\ MaxTickets \in Nat \ {0} /\ MaxStreams \in Nat \ {0}

Sides == {"initiator", "receiver"}

VARIABLES
  control,      \* controls and the connections it no longer holds
  controller,   \* controllerConnectionId
  connectionOf, \* workerConnections
  authorized,   \* the store's authorized workers: node to key
  ticket,       \* tickets and streams; a stream keeps its ticket's index
  reservations, \* reservations not yet deleted: <<ticket, side>>
  data,         \* dataConnections: <<ticket, side>>
  socket,       \* the data sockets: none (or closed), upgrading, open
  stopped,
  commits

vars == <<control, controller, connectionOf, authorized, ticket, reservations, data,
          socket, stopped, commits>>

(* staged: the authorization transaction, the keys received of "count".   *)
NoTransaction == [count |-> 0, keys |-> None]
Snapshots == [Nodes -> Keys \cup {None}]
Transaction == {NoTransaction} \cup [count : Nat, keys : Snapshots]
Control == [state : {"new", "open", "live", "closed"}, role : {None, "controller", "worker"},
            node : Nodes \cup {None}, key : Keys \cup {None},
            status : {None, "pending", "authorized"}, staged : Transaction]
Ticket == [phase : {"none", "ticket", "stream", "gone"}, from : Connections \cup {None},
           to : Connections \cup {None}, unused : SUBSET Sides, attached : SUBSET Sides]

Blank(phase) == [phase |-> phase, from |-> None, to |-> None, unused |-> {}, attached |-> {}]
Gone == Blank("gone")
Nobody(state) == [state |-> state, role |-> None, node |-> None, key |-> None,
                  status |-> None, staged |-> NoTransaction]

TypeOK ==
  /\ control \in [Connections -> Control]
  /\ controller \in Connections \cup {None}
  /\ connectionOf \in [Nodes -> Connections \cup {None}]
  /\ authorized \in Snapshots
  /\ ticket \in [Tickets -> Ticket]
  /\ reservations \subseteq Tickets \X Sides /\ data \subseteq Tickets \X Sides
  /\ socket \in [Tickets -> [Sides -> {"none", "upgrading", "open"}]]
  /\ stopped \in BOOLEAN /\ commits \in 0 .. MaxCommits

Init ==
  /\ control = [c \in Connections |-> Nobody("new")]
  /\ controller = None /\ connectionOf = [n \in Nodes |-> None]
  /\ authorized = [n \in Nodes |-> None]
  /\ ticket = [t \in Tickets |-> Blank("none")]
  /\ reservations = {} /\ data = {}
  /\ socket = [t \in Tickets |-> [s \in Sides |-> "none"]]
  /\ stopped = FALSE /\ commits = 0

-----------------------------------------------------------------------------
(* What the broker holds.                                                  *)

Open(c) == control[c].state \in {"open", "live"}
Live(c) == control[c].state = "live"
Worker(c) == Live(c) /\ control[c].role = "worker"
Held(t) == ticket[t].phase \in {"ticket", "stream"}
EndsAt(t, c) == c \in {ticket[t].from, ticket[t].to}
TicketsOf(c) == {t \in Tickets : ticket[t].phase = "ticket" /\ EndsAt(t, c)}
StreamsOf(c) == {t \in Tickets : ticket[t].phase = "stream" /\ EndsAt(t, c)}

Attaching == {p \in Tickets \X Sides : ticket[p[1]].phase = "ticket" /\ p[2] \in ticket[p[1]].attached}
ConnectionCount ==
  Cardinality({c \in Connections : Open(c)}) + Cardinality(data) + Cardinality(Attaching)
Pending == {c \in Connections : Worker(c) /\ control[c].status = "pending"}

-----------------------------------------------------------------------------
(* Cleanup.                                                                *)

(* Defect: only the sockets of live streams are closed. *)
ShutStreams(S, sockets) ==
  [t \in Tickets |-> [s \in Sides |->
     IF t \in S /\ ticket[t].phase = "stream" THEN "none" ELSE sockets[t][s]]]

(* The sockets of cancelled tickets and closed streams: those attached. *)
Shut(S, sockets) ==
  [t \in Tickets |-> [s \in Sides |->
     IF t \in S /\ s \in ticket[t].attached THEN "none" ELSE sockets[t][s]]]

(* cancelTicket and closeStream, which know only what is in their maps. *)
DropWith(S, sockets) ==
  LET held == {t \in S : Held(t)} IN
  /\ ticket' = [t \in Tickets |-> IF t \in held THEN Gone ELSE ticket[t]]
  /\ reservations' = {p \in reservations : p[1] \notin held}
  /\ data' = {p \in data : p[1] \notin held}
  /\ socket' = Shut(held, sockets)

Drop(S) == DropWith(S, socket)

Kept == UNCHANGED <<ticket, reservations, data, socket>>

(* closeControl gives up the tickets and the streams of a connection. *)
HeldBy(C) == {t \in Tickets : Held(t) /\ \E c \in C : EndsAt(t, c)}

Closing(C, controls) ==
  [c \in Connections |->
     IF c \in C THEN Nobody("closed") ELSE controls[c]]

(* Defect: the table entry of the node goes, whoever it names. *)
ForgottenByNode(C, table) ==
  [n \in Nodes |-> IF \E c \in C : control[c].node = n THEN None ELSE table[n]]

(* A replaced connection must not take its successor's entry along. *)
Forgotten(C, table) == [n \in Nodes |-> IF table[n] \in C THEN None ELSE table[n]]

CloseControls(C) ==
  /\ control' = Closing(C, control)
  /\ controller' = IF controller \in C THEN None ELSE controller
  /\ connectionOf' = Forgotten(C, connectionOf)
  /\ Drop(HeldBy(C))

-----------------------------------------------------------------------------
(* Control connections.  Ids are random: which of the unused ones is taken *)
(* makes no difference.                                                    *)

OpenControl(c) ==
  /\ ~stopped /\ ConnectionCount < MaxConnections
  /\ control[c].state = "new" /\ c = CHOOSE d \in Connections : control[d].state = "new"
  /\ control' = [control EXCEPT ![c] = Nobody("open")]
  /\ UNCHANGED <<controller, connectionOf, authorized, stopped, commits>> /\ Kept

(* handleControlClose, and every closeControl that a frame, a failed send  *)
(* or a timer leads to: authentication that is refused or late, admission  *)
(* that expires, heartbeats that stop.                                     *)
ControlLost(c) ==
  /\ Open(c)
  /\ CloseControls({c})
  /\ UNCHANGED <<authorized, stopped, commits>>

(* A controller replaces the one before it. *)
AuthenticateController(c) ==
  /\ control[c].state = "open"
  /\ control' = Closing({controller} \ {None},
                        [control EXCEPT ![c].state = "live", ![c].role = "controller"])
  /\ controller' = c
  /\ Drop(HeldBy({controller} \ {None}))
  /\ UNCHANGED <<connectionOf, authorized, stopped, commits>>

Replaced(n) == {connectionOf[n]} \ {None}

(* A worker is authorized by the snapshot or pending by an admission; a    *)
(* key that differs from the snapshot's is refused (ControlLost).          *)
AuthenticateWorker(c, n, k) ==
  /\ control[c].state = "open" /\ authorized[n] \in {k, None}
  /\ authorized[n] = None => Cardinality(Pending) < MaxPending
  /\ control' = Closing(Replaced(n),
       [control EXCEPT ![c] = [state |-> "live", role |-> "worker", node |-> n, key |-> k,
                               status |-> IF authorized[n] = k THEN "authorized" ELSE "pending",
                               staged |-> NoTransaction]])
  /\ connectionOf' = Forgotten(Replaced(n), [connectionOf EXCEPT ![n] = c])
  /\ Drop(HeldBy(Replaced(n)))
  /\ UNCHANGED <<controller, authorized, stopped, commits>>

-----------------------------------------------------------------------------
(* The authorization snapshot, sent by the controller in a transaction; no *)
(* two nodes of it have the same key.                                      *)

Controls(c) == Live(c) /\ control[c].role = "controller"
Staged(c) == {n \in Nodes : control[c].staged.keys[n] # None}

BeginAuthorization(c) ==
  /\ Controls(c) /\ commits < MaxCommits
  /\ \E count \in 0 .. Cardinality(Nodes) :
       control' = [control EXCEPT ![c].staged = [count |-> count, keys |-> [n \in Nodes |-> None]]]
  /\ UNCHANGED <<controller, connectionOf, authorized, stopped, commits>> /\ Kept

StageAuthorization(c) ==
  /\ Controls(c) /\ control[c].staged # NoTransaction
  /\ Cardinality(Staged(c)) < control[c].staged.count
  /\ \E n \in Nodes \ Staged(c), k \in Keys \ {control[c].staged.keys[m] : m \in Staged(c)} :
       control' = [control EXCEPT ![c].staged.keys[n] = k]
  /\ UNCHANGED <<controller, connectionOf, authorized, stopped, commits>> /\ Kept

(* A chunk or a commit that is refused, and the transaction's timeout. *)
DiscardAuthorization(c) ==
  /\ Controls(c) /\ control[c].staged # NoTransaction
  /\ control' = [control EXCEPT ![c].staged = NoTransaction]
  /\ UNCHANGED <<controller, connectionOf, authorized, stopped, commits>> /\ Kept

(* Defect: only nodes that are no longer listed are closed. *)
RevokedByNode(keys) ==
  {c \in Connections : Worker(c) /\ control[c].status = "authorized" /\ keys[control[c].node] = None}

(* A pending worker that the snapshot does not know stays pending. *)
Revoked(keys) ==
  {c \in Connections : Worker(c) /\ keys[control[c].node] # control[c].key
                         /\ (keys[control[c].node] = None => control[c].status = "authorized")}

CommitAuthorization(c) ==
  LET keys == control[c].staged.keys
      known == {d \in Connections : Worker(d) /\ keys[control[d].node] = control[d].key}
      settled == [d \in Connections |->
                    IF d = c THEN [control[d] EXCEPT !.staged = NoTransaction]
                    ELSE IF d \in known THEN [control[d] EXCEPT !.status = "authorized"]
                    ELSE control[d]]
  IN /\ Controls(c) /\ control[c].staged # NoTransaction /\ commits < MaxCommits
     /\ Cardinality(Staged(c)) = control[c].staged.count
     /\ authorized' = keys /\ commits' = commits + 1
     /\ control' = Closing(Revoked(keys), settled)
     /\ connectionOf' = Forgotten(Revoked(keys), connectionOf)
     /\ Drop(HeldBy(Revoked(keys)))
     /\ UNCHANGED <<controller, stopped>>

-----------------------------------------------------------------------------
(* Tickets and streams.                                                    *)

(* Defect: only what the connection itself initiated is counted. *)
HasCapacityFrom(c) ==
  /\ Cardinality({t \in TicketsOf(c) : ticket[t].from = c}) < MaxTickets
  /\ Cardinality({t \in StreamsOf(c) : ticket[t].from = c}) < MaxStreams

HasCapacity(c) == Cardinality(TicketsOf(c)) < MaxTickets /\ Cardinality(StreamsOf(c)) < MaxStreams

(* resolveReceiver: workers reach the controller, the controller reaches   *)
(* authorized workers.  A pending worker may ask to be enrolled.           *)
Receives(from, to) ==
  /\ Live(from) /\ Live(to)
  /\ \/ control[from].role = "worker" /\ to = controller
     \/ /\ control[from].role = "controller" /\ control[to].status = "authorized"
        /\ \E n \in Nodes : connectionOf[n] = to

RequestStream(t, from, to) ==
  /\ ticket[t].phase = "none" /\ t = CHOOSE u \in Tickets : ticket[u].phase = "none"
  /\ Receives(from, to)
  /\ HasCapacity(from) /\ HasCapacity(to)
  /\ ticket' = [ticket EXCEPT ![t] = [phase |-> "ticket", from |-> from, to |-> to,
                                      unused |-> Sides, attached |-> {}]]
  /\ UNCHANGED <<control, controller, connectionOf, authorized, reservations, data, socket,
                 stopped, commits>>

(* The initiator cancels its request: ticket or stream. *)
CancelRequest(t) ==
  /\ Held(t) /\ Live(ticket[t].from)
  /\ Drop({t})
  /\ UNCHANGED <<control, controller, connectionOf, authorized, stopped, commits>>

TicketExpires(t) ==
  /\ ticket[t].phase = "ticket"
  /\ Drop({t})
  /\ UNCHANGED <<control, controller, connectionOf, authorized, stopped, commits>>

(* reserveDataSocket: the credential of a side is good for one upgrade. *)
ReserveDataSocket(t, s) ==
  /\ ~stopped /\ ConnectionCount < MaxConnections
  /\ ticket[t].phase = "ticket" /\ s \in ticket[t].unused
  /\ ticket' = [ticket EXCEPT ![t].unused = @ \ {s}]
  /\ reservations' = reservations \cup {<<t, s>>}
  /\ socket' = [socket EXCEPT ![t][s] = "upgrading"]
  /\ UNCHANGED <<control, controller, connectionOf, authorized, data, stopped, commits>>

(* Defect: the close of a socket is taken to be that of a live stream. *)
CloseStreamData(t, s) ==
  /\ socket[t][s] \in {"upgrading", "open"}
  /\ DropWith(IF <<t, s>> \in data THEN {t} ELSE {}, [socket EXCEPT ![t][s] = "none"])
  /\ UNCHANGED <<control, controller, connectionOf, authorized, stopped, commits>>

(* closeData, for the close event of a socket or an upgrade that failed: a *)
(* live stream closes, a reservation takes its ticket along.               *)
CloseData(t, s) ==
  /\ socket[t][s] \in {"upgrading", "open"}
  /\ DropWith(IF <<t, s>> \in data \cup reservations THEN {t} ELSE {},
              [socket EXCEPT ![t][s] = "none"])
  /\ UNCHANGED <<control, controller, connectionOf, authorized, stopped, commits>>

(* attachDataSocket: the second side makes the stream. *)
Pair(t, s) ==
  /\ ticket' = [ticket EXCEPT ![t].phase = "stream", ![t].attached = Sides]
  /\ reservations' = {p \in reservations : p[1] # t}
  /\ data' = data \cup ({t} \X Sides)
  /\ socket' = [socket EXCEPT ![t][s] = "open"]

Attach(t, s) ==
  /\ ticket' = [ticket EXCEPT ![t].attached = @ \cup {s}]
  /\ socket' = [socket EXCEPT ![t][s] = "open"]
  /\ UNCHANGED <<reservations, data>>

AttachDataSocket(t, s) ==
  /\ socket[t][s] = "upgrading"
  /\ IF <<t, s>> \notin reservations \/ ConnectionCount >= MaxConnections
     THEN DropWith(IF <<t, s>> \in reservations THEN {t} ELSE {},
                   [socket EXCEPT ![t][s] = "none"])
     ELSE IF ticket[t].attached \cup {s} = Sides THEN Pair(t, s) ELSE Attach(t, s)
  /\ UNCHANGED <<control, controller, connectionOf, authorized, stopped, commits>>

(* A data frame that is too large or cannot be forwarded. *)
StreamFails(t) ==
  /\ ticket[t].phase = "stream"
  /\ Drop({t})
  /\ UNCHANGED <<control, controller, connectionOf, authorized, stopped, commits>>

Stop ==
  /\ ~stopped /\ stopped' = TRUE
  /\ control' = Closing({c \in Connections : Open(c)}, control)
  /\ controller' = None /\ connectionOf' = [n \in Nodes |-> None]
  /\ Drop(Tickets)
  /\ UNCHANGED <<authorized, commits>>

-----------------------------------------------------------------------------
Authorization(c) == BeginAuthorization(c) \/ StageAuthorization(c) \/ DiscardAuthorization(c)
                    \/ CommitAuthorization(c)
Peers(c) == OpenControl(c) \/ ControlLost(c) \/ AuthenticateController(c)
            \/ \E n \in Nodes, k \in Keys : AuthenticateWorker(c, n, k)
Streams(t) == CancelRequest(t) \/ StreamFails(t) \/ \E c, d \in Connections : RequestStream(t, c, d)
Dial(t, s) == ReserveDataSocket(t, s) \/ CloseData(t, s)

Next ==
  \/ \E c \in Connections : Peers(c) \/ Authorization(c)
  \/ \E t \in Tickets : \/ Streams(t) \/ TicketExpires(t)
                        \/ \E s \in Sides : Dial(t, s) \/ AttachDataSocket(t, s)
  \/ Stop

Spec == Init /\ [][Next]_vars

-----------------------------------------------------------------------------
(* Properties.                                                             *)

(* One live connection per node and one controller, the latest, and the    *)
(* tables name it: a connection that was replaced takes nothing of its     *)
(* successor along when it goes.                                           *)
PeersAreCurrent ==
  \A c \in Connections : Live(c) =>
    IF control[c].role = "worker" THEN connectionOf[control[c].node] = c ELSE controller = c

(* A ticket or a stream connects the controller with a worker, both still  *)
(* connected, and the worker is the one the latest snapshot authorizes, or *)
(* asked for enrollment itself: replacing a peer, losing it or revoking it *)
(* ends what it had.                                                       *)
EndsAreTrusted ==
  \A t \in Tickets : Held(t) =>
    \E w \in {ticket[t].from, ticket[t].to} :
      /\ Worker(w) /\ controller \in {ticket[t].from, ticket[t].to}
      /\ IF control[w].status = "pending" THEN w = ticket[t].from
         ELSE authorized[control[w].node] = control[w].key

(* The maps agree with the sockets: no socket is open that no ticket or    *)
(* stream would close, no reservation outlives its ticket, and frames are  *)
(* routed between the two ends of live streams only.                       *)
NoOrphanSocket ==
  /\ \A t \in Tickets, s \in Sides : socket[t][s] = "open" <=> Held(t) /\ s \in ticket[t].attached
  /\ \A t \in Tickets : ticket[t].phase = "stream" => ticket[t].attached = Sides
  /\ data = {p \in Tickets \X Sides : ticket[p[1]].phase = "stream"}
  /\ reservations = {p \in Tickets \X Sides : ticket[p[1]].phase = "ticket"
                                               /\ p[2] \notin ticket[p[1]].unused}

(* The limits hold although they are checked when a ticket is issued and   *)
(* not when it becomes a stream: a peer that was below both can have that  *)
(* many more streams as it had tickets.                                    *)
LoadIsBounded ==
  /\ ConnectionCount <= MaxConnections
  /\ \A c \in Connections :
       /\ Cardinality(TicketsOf(c)) <= MaxTickets
       /\ Cardinality(TicketsOf(c)) + Cardinality(StreamsOf(c)) < MaxTickets + MaxStreams

(* The broker keeps the promise of a ticket, although half a dozen maps    *)
(* share it and a data socket may come, go or hang between two steps of    *)
(* the other side, the peers and the timers.                               *)
Promised == INSTANCE StreamTickets
  WITH phase <- [t \in Tickets |-> ticket[t].phase],
       unused <- [t \in Tickets |-> ticket[t].unused],
       joined <- [t \in Tickets |-> {s \in Sides : socket[t][s] = "open"}]

ImplementsTickets == Promised!Spec

=============================================================================
