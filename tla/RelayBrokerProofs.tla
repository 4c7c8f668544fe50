-------------------------- MODULE RelayBrokerProofs --------------------------
(***************************************************************************)
(* Proofs about RelayBroker, for every set of connections, tickets, nodes  *)
(* and keys and all limits.  The invariant relates the tables of peers,    *)
(* the authorization snapshot and the maps of tickets and sockets, none of *)
(* which is updated in one place.                                          *)
(***************************************************************************)
EXTENDS RelayBroker, FiniteSetTheorems, TLAPS

(* A connection has a role when it is authenticated, and not before. *)
RolesSound ==
  /\ \A c \in Connections : Live(c) <=> control[c].role # None
  /\ \A c \in Connections : control[c].role = "worker" =>
       /\ control[c].node \in Nodes /\ control[c].key \in Keys
       /\ control[c].status \in {"pending", "authorized"}
  /\ \A c \in Connections : control[c].role # "worker" => control[c].status = None

(* The tables name live connections of the right kind. *)
TablesSound ==
  /\ \A n \in Nodes : connectionOf[n] # None =>
       Worker(connectionOf[n]) /\ control[connectionOf[n]].node = n
  /\ controller # None => Controls(controller)

(* The status of a connected worker is what the snapshot says of it. *)
StatusSound ==
  \A c \in Connections : Worker(c) =>
    authorized[control[c].node] = IF control[c].status = "pending" THEN None ELSE control[c].key

PeersInv == RolesSound /\ TablesSound /\ PeersAreCurrent /\ StatusSound

(* Tickets and streams have two ends, and the credential of an attached    *)
(* side has been used.                                                     *)
TicketsSound ==
  \A t \in Tickets : Held(t) =>
    /\ ticket[t].from \in Connections /\ ticket[t].to \in Connections
    /\ ticket[t].unused \cap ticket[t].attached = {}

StreamsInv == NoOrphanSocket /\ TicketsSound

IInv == TypeOK /\ PeersInv /\ EndsAreTrusted /\ StreamsInv

LEMMA NobodyType == \A state \in {"new", "open", "live", "closed"} : Nobody(state) \in Control
  BY DEF Nobody, Control, Transaction

LEMMA BlankType == \A phase \in {"none", "ticket", "stream", "gone"} : Blank(phase) \in Ticket
  BY DEF Blank, Ticket, Sides

LEMMA InitIInv == Init => IInv
<1> SUFFICES ASSUME Init PROVE IInv
  OBVIOUS
<1>1. TypeOK
  <2>1. control \in [Connections -> Control] /\ ticket \in [Tickets -> Ticket]
    BY NobodyType, BlankType DEF Init
  <2>2. commits \in 0 .. MaxCommits
    BY LimitAssumption DEF Init
  <2>3. socket \in [Tickets -> [Sides -> {"none", "upgrading", "open"}]]
    BY DEF Init
  <2>4. QED
    BY <2>1, <2>2, <2>3 DEF Init, TypeOK, Snapshots
<1>2. PeersInv
  BY NoneAssumption DEF Init, PeersInv, RolesSound, TablesSound, PeersAreCurrent, StatusSound,
     Nobody, Live, Worker, Controls
<1>3. EndsAreTrusted /\ StreamsInv
  BY DEF Init, EndsAreTrusted, StreamsInv, NoOrphanSocket, TicketsSound, Held, Blank, Sides
<1>4. QED
  BY <1>1, <1>2, <1>3 DEF IInv

-----------------------------------------------------------------------------
(* Cancelling tickets and closing streams leaves the maps in agreement.    *)

LEMMA DropType ==
  ASSUME TypeOK, NEW S \in SUBSET Tickets,
         NEW sockets \in [Tickets -> [Sides -> {"none", "upgrading", "open"}]], DropWith(S, sockets)
  PROVE  /\ ticket' \in [Tickets -> Ticket]
         /\ reservations' \subseteq Tickets \X Sides /\ data' \subseteq Tickets \X Sides
         /\ socket' \in [Tickets -> [Sides -> {"none", "upgrading", "open"}]]
<1>1. ticket' \in [Tickets -> Ticket]
  BY BlankType DEF TypeOK, DropWith, Gone
<1>2. reservations' \subseteq Tickets \X Sides /\ data' \subseteq Tickets \X Sides
  BY DEF TypeOK, DropWith
<1>3. socket' \in [Tickets -> [Sides -> {"none", "upgrading", "open"}]]
  BY DEF TypeOK, DropWith, Shut
<1>4. QED
  BY <1>1, <1>2, <1>3

(* What is still held afterwards was held before and is not in S. *)
LEMMA DropHeld ==
  ASSUME TypeOK, NEW S \in SUBSET Tickets,
         NEW sockets \in [Tickets -> [Sides -> {"none", "upgrading", "open"}]], DropWith(S, sockets),
         NEW t \in Tickets
  PROVE  /\ Held(t)' => Held(t) /\ t \notin S /\ ticket'[t] = ticket[t]
         /\ Held(t) /\ t \notin S => Held(t)' /\ ticket'[t] = ticket[t]
         /\ ticket'[t].phase = "ticket" => ticket[t].phase = "ticket"
         /\ ticket'[t].phase = "stream" => ticket[t].phase = "stream"
         /\ Held(t) /\ t \in S => ticket'[t] = Gone
         /\ ~Held(t) => ticket'[t] = ticket[t]
  BY DEF TypeOK, DropWith, Held, Gone, Blank

LEMMA DropStreams ==
  ASSUME TypeOK, StreamsInv, NEW S \in SUBSET Tickets,
         NEW sockets \in [Tickets -> [Sides -> {"none", "upgrading", "open"}]], DropWith(S, sockets),
         \A t \in Tickets \ S, s \in Sides : sockets[t][s] = "open" <=> socket[t][s] = "open",
         \A t \in S, s \in Sides : sockets[t][s] = "open" => socket[t][s] = "open"
  PROVE  StreamsInv'
<1>1. ASSUME NEW t \in Tickets, NEW s \in Sides
      PROVE  socket'[t][s] = "open" <=> Held(t)' /\ s \in ticket'[t].attached
  <2>1. socket[t][s] = "open" <=> Held(t) /\ s \in ticket[t].attached
    BY DEF StreamsInv, NoOrphanSocket
  <2>2. socket'[t][s] = IF t \in {u \in S : Held(u)} /\ s \in ticket[t].attached
                        THEN "none" ELSE sockets[t][s]
    BY DEF DropWith, Shut
  <2>3. CASE t \in S
    BY <2>1, <2>2, <2>3, DropHeld DEF Gone, Blank, Held
  <2>4. CASE t \notin S
    BY <2>1, <2>2, <2>4, DropHeld
  <2>5. QED
    BY <2>3, <2>4
<1>2. ASSUME NEW t \in Tickets, ticket'[t].phase = "stream" PROVE ticket'[t].attached = Sides
  BY <1>2, DropHeld DEF StreamsInv, NoOrphanSocket, Held
<1>3. data' = {p \in Tickets \X Sides : ticket'[p[1]].phase = "stream"}
  BY DEF DropWith, StreamsInv, NoOrphanSocket, TypeOK, Held, Gone, Blank
<1>4. reservations' = {p \in Tickets \X Sides : ticket'[p[1]].phase = "ticket"
                                               /\ p[2] \notin ticket'[p[1]].unused}
  BY DEF DropWith, StreamsInv, NoOrphanSocket, TypeOK, Held, Gone, Blank
<1>5. TicketsSound'
  BY DropHeld DEF StreamsInv, TicketsSound, Held
<1>6. QED
  BY <1>1, <1>2, <1>3, <1>4, <1>5 DEF StreamsInv, NoOrphanSocket, Held

-----------------------------------------------------------------------------
(* The streams and the sockets: every action that gives up tickets and     *)
(* leaves the peers alone.                                                 *)

LEMMA DropAlone ==
  ASSUME IInv, NEW S \in SUBSET Tickets,
         NEW sockets \in [Tickets -> [Sides -> {"none", "upgrading", "open"}]], DropWith(S, sockets),
         \A t \in Tickets \ S, s \in Sides : sockets[t][s] = "open" <=> socket[t][s] = "open",
         \A t \in S, s \in Sides : sockets[t][s] = "open" => socket[t][s] = "open",
         UNCHANGED <<control, controller, connectionOf, authorized, stopped, commits>>
  PROVE  IInv'
<1>1. TypeOK'
  BY DropType DEF IInv, TypeOK
<1>2. PeersInv'
  BY DEF IInv, PeersInv, RolesSound, TablesSound, PeersAreCurrent, StatusSound, Live, Worker, Controls
<1>3. EndsAreTrusted'
  BY DropHeld DEF IInv, EndsAreTrusted, Worker, Live
<1>4. StreamsInv'
  BY DropStreams DEF IInv
<1>5. QED
  BY <1>1, <1>2, <1>3, <1>4 DEF IInv

LEMMA DropStep ==
  ASSUME IInv, NEW S \in SUBSET Tickets, Drop(S),
         UNCHANGED <<control, controller, connectionOf, authorized, stopped, commits>>
  PROVE  IInv'
<1>1. socket \in [Tickets -> [Sides -> {"none", "upgrading", "open"}]] /\ DropWith(S, socket)
  BY DEF IInv, TypeOK, Drop
<1>2. QED
  BY <1>1, DropAlone

LEMMA CloseDataStep ==
  ASSUME IInv, NEW t \in Tickets, NEW s \in Sides, CloseData(t, s)
  PROVE  IInv'
<1> DEFINE sockets == [socket EXCEPT ![t][s] = "none"]
           S == IF <<t, s>> \in data \cup reservations THEN {t} ELSE {}
<1>1. sockets \in [Tickets -> [Sides -> {"none", "upgrading", "open"}]] /\ S \in SUBSET Tickets
  BY DEF IInv, TypeOK
<1>2. ASSUME <<t, s>> \notin data \cup reservations PROVE socket[t][s] # "open"
  BY <1>2 DEF IInv, StreamsInv, NoOrphanSocket, TicketsSound, Held, TypeOK, Ticket
<1>3. /\ \A u \in Tickets \ S, r \in Sides : sockets[u][r] = "open" <=> socket[u][r] = "open"
      /\ \A u \in S, r \in Sides : sockets[u][r] = "open" => socket[u][r] = "open"
  BY <1>2 DEF IInv, TypeOK
<1>4. DropWith(S, sockets) /\ UNCHANGED <<control, controller, connectionOf, authorized, stopped, commits>>
  BY DEF CloseData
<1>5. QED
  BY <1>1, <1>3, <1>4, DropAlone

-----------------------------------------------------------------------------
(* The other steps of tickets and streams.                                 *)

LEMMA RequestStep ==
  ASSUME IInv, NEW t \in Tickets, NEW from \in Connections, NEW to \in Connections,
         RequestStream(t, from, to)
  PROVE  IInv'
<1> DEFINE new == [phase |-> "ticket", from |-> from, to |-> to, unused |-> Sides, attached |-> {}]
<1>1. /\ ticket' = [ticket EXCEPT ![t] = new]
      /\ UNCHANGED <<control, controller, connectionOf, authorized, reservations, data, socket,
                     stopped, commits>>
      /\ Receives(from, to) /\ ticket[t].phase = "none"
  BY DEF RequestStream
<1>2. /\ ticket'[t] = new
      /\ \A u \in Tickets \ {t} : ticket'[u] = ticket[u]
      /\ ticket' \in [Tickets -> Ticket]
  <2>1. new \in Ticket
    BY DEF Ticket
  <2>2. QED
    BY <1>1, <2>1 DEF IInv, TypeOK
<1>3. TypeOK'
  BY <1>1, <1>2 DEF IInv, TypeOK
<1>4. PeersInv'
  BY <1>1 DEF IInv, PeersInv, RolesSound, TablesSound, PeersAreCurrent, StatusSound, Live, Worker, Controls
<1>5. EndsAreTrusted'
  <2> SUFFICES ASSUME NEW u \in Tickets, Held(u)'
               PROVE  (\E w \in {ticket[u].from, ticket[u].to} :
                        /\ Worker(w) /\ controller \in {ticket[u].from, ticket[u].to}
                        /\ IF control[w].status = "pending" THEN w = ticket[u].from
                           ELSE authorized[control[w].node] = control[w].key)'
    BY DEF EndsAreTrusted
  <2>1. CASE u # t
    BY <2>1, <1>1, <1>2 DEF IInv, EndsAreTrusted, Held, Worker, Live
  <2>2. CASE u = t /\ control[from].role = "worker" /\ to = controller
    <3>1. Worker(from)
      BY <1>1, <2>2 DEF Receives, Worker
    <3>2. control[from].status = "pending" \/ authorized[control[from].node] = control[from].key
      BY <3>1 DEF IInv, PeersInv, StatusSound
    <3>3. QED
      BY <1>1, <1>2, <2>2, <3>1, <3>2 DEF Worker, Live
  <2>3. CASE u = t /\ control[from].role = "controller" /\ control[to].status = "authorized"
    <3>1. Worker(to)
      BY <1>1, <2>3, NoneAssumption DEF Receives, Worker, IInv, PeersInv, RolesSound
    <3>2. from = controller
      BY <1>1, <2>3 DEF Receives, IInv, PeersInv, PeersAreCurrent
    <3>3. authorized[control[to].node] = control[to].key
      BY <3>1, <2>3 DEF IInv, PeersInv, StatusSound
    <3>4. QED
      BY <1>1, <1>2, <2>3, <3>1, <3>2, <3>3 DEF Worker, Live
  <2>4. QED
    BY <1>1, <2>1, <2>2, <2>3 DEF Receives
<1>6. StreamsInv'
  <2>1. ~Held(t) /\ Held(t)' /\ \A u \in Tickets \ {t} : Held(u)' <=> Held(u)
    BY <1>1, <1>2 DEF Held
  <2>2. \A u \in Tickets, s \in Sides : socket'[u][s] = "open" <=> Held(u)' /\ s \in ticket'[u].attached
    BY <1>1, <1>2, <2>1 DEF IInv, StreamsInv, NoOrphanSocket
  <2>3. TicketsSound' /\ \A u \in Tickets : ticket'[u].phase = "stream" => ticket'[u].attached = Sides
    BY <1>2, <2>1 DEF IInv, StreamsInv, NoOrphanSocket, TicketsSound
  <2>4. /\ data' = {p \in Tickets \X Sides : ticket'[p[1]].phase = "stream"}
        /\ reservations' = {p \in Tickets \X Sides : ticket'[p[1]].phase = "ticket"
                                                      /\ p[2] \notin ticket'[p[1]].unused}
    BY <1>1, <1>2 DEF IInv, StreamsInv, NoOrphanSocket
  <2>5. QED
    BY <2>2, <2>3, <2>4 DEF StreamsInv, NoOrphanSocket
<1>7. QED
  BY <1>3, <1>4, <1>5, <1>6 DEF IInv

(* Steps that change one ticket and leave its ends alone. *)
LEMMA SameEnds ==
  ASSUME IInv, NEW t \in Tickets, Held(t), ticket' \in [Tickets -> Ticket],
         \A u \in Tickets \ {t} : ticket'[u] = ticket[u],
         ticket'[t].from = ticket[t].from, ticket'[t].to = ticket[t].to,
         UNCHANGED <<control, controller, connectionOf, authorized, stopped, commits>>
  PROVE  PeersInv' /\ EndsAreTrusted'
<1>1. PeersInv'
  BY DEF IInv, PeersInv, RolesSound, TablesSound, PeersAreCurrent, StatusSound, Live, Worker, Controls
<1>2. EndsAreTrusted'
  <2> SUFFICES ASSUME NEW u \in Tickets, Held(u)'
               PROVE  (\E w \in {ticket[u].from, ticket[u].to} :
                        /\ Worker(w) /\ controller \in {ticket[u].from, ticket[u].to}
                        /\ IF control[w].status = "pending" THEN w = ticket[u].from
                           ELSE authorized[control[w].node] = control[w].key)'
    BY DEF EndsAreTrusted
  <2>1. Held(u) /\ ticket'[u].from = ticket[u].from /\ ticket'[u].to = ticket[u].to
    BY DEF Held
  <2>2. QED
    BY <2>1 DEF IInv, EndsAreTrusted, Worker, Live
<1>3. QED
  BY <1>1, <1>2

LEMMA ReserveStep ==
  ASSUME IInv, NEW t \in Tickets, NEW s \in Sides, ReserveDataSocket(t, s)
  PROVE  IInv'
<1>1. /\ ticket[t] \in Ticket /\ ticket[t].phase = "ticket" /\ s \in ticket[t].unused
      /\ ticket' = [ticket EXCEPT ![t].unused = @ \ {s}]
      /\ reservations' = reservations \cup {<<t, s>>}
      /\ socket' = [socket EXCEPT ![t][s] = "upgrading"]
      /\ UNCHANGED <<control, controller, connectionOf, authorized, data, stopped, commits>>
  BY DEF ReserveDataSocket, IInv, TypeOK
<1>2. /\ ticket' \in [Tickets -> Ticket]
      /\ \A u \in Tickets \ {t} : ticket'[u] = ticket[u]
      /\ ticket'[t] = [ticket[t] EXCEPT !.unused = @ \ {s}]
  BY <1>1 DEF IInv, TypeOK, Ticket
<1>3. TypeOK'
  BY <1>1, <1>2 DEF IInv, TypeOK
<1>4. /\ ticket'[t].phase = "ticket" /\ ticket'[t].from = ticket[t].from /\ ticket'[t].to = ticket[t].to
      /\ ticket'[t].attached = ticket[t].attached /\ ticket'[t].unused = ticket[t].unused \ {s}
  BY <1>1, <1>2 DEF Ticket
<1>5. PeersInv' /\ EndsAreTrusted'
  BY <1>1, <1>2, <1>4, SameEnds DEF Held
<1>6. StreamsInv'
  <2>1. s \notin ticket[t].attached
    BY <1>1 DEF IInv, StreamsInv, TicketsSound, Held
  <2>2. \A u \in Tickets, r \in Sides : socket'[u][r] = "open" <=> Held(u)' /\ r \in ticket'[u].attached
    BY <1>1, <1>2, <1>4, <2>1 DEF IInv, StreamsInv, NoOrphanSocket, Held, TypeOK
  <2>3. TicketsSound' /\ \A u \in Tickets : ticket'[u].phase = "stream" => ticket'[u].attached = Sides
    BY <1>1, <1>2, <1>4 DEF IInv, StreamsInv, NoOrphanSocket, TicketsSound, Held
  <2>4. data' = {p \in Tickets \X Sides : ticket'[p[1]].phase = "stream"}
    BY <1>1, <1>2, <1>4 DEF IInv, StreamsInv, NoOrphanSocket
  <2>5. reservations' = {p \in Tickets \X Sides : ticket'[p[1]].phase = "ticket"
                                                   /\ p[2] \notin ticket'[p[1]].unused}
    BY <1>1, <1>2, <1>4 DEF IInv, StreamsInv, NoOrphanSocket
  <2>6. QED
    BY <2>2, <2>3, <2>4, <2>5 DEF StreamsInv, NoOrphanSocket
<1>7. QED
  BY <1>3, <1>5, <1>6 DEF IInv

LEMMA AttachStep ==
  ASSUME IInv, NEW t \in Tickets, NEW s \in Sides, AttachDataSocket(t, s)
  PROVE  IInv'
<1>1. /\ socket[t][s] = "upgrading" /\ ticket[t] \in Ticket
      /\ UNCHANGED <<control, controller, connectionOf, authorized, stopped, commits>>
  BY DEF AttachDataSocket, IInv, TypeOK
<1>2. CASE <<t, s>> \notin reservations \/ ConnectionCount >= MaxConnections
  <2> DEFINE sockets == [socket EXCEPT ![t][s] = "none"]
             S == IF <<t, s>> \in reservations THEN {t} ELSE {}
  <2>1. sockets \in [Tickets -> [Sides -> {"none", "upgrading", "open"}]] /\ S \in SUBSET Tickets
    BY DEF IInv, TypeOK
  <2>2. /\ \A u \in Tickets \ S, r \in Sides : sockets[u][r] = "open" <=> socket[u][r] = "open"
        /\ \A u \in S, r \in Sides : sockets[u][r] = "open" => socket[u][r] = "open"
    BY <1>1 DEF IInv, TypeOK
  <2>3. DropWith(S, sockets)
    BY <1>2 DEF AttachDataSocket
  <2>4. QED
    BY <1>1, <2>1, <2>2, <2>3, DropAlone
<1>3. CASE <<t, s>> \in reservations /\ ~(ConnectionCount >= MaxConnections)
  <2>1. ticket[t].phase = "ticket" /\ Held(t) /\ s \notin ticket[t].unused
    BY <1>3 DEF IInv, StreamsInv, NoOrphanSocket, Held
  <2>2. IF ticket[t].attached \cup {s} = Sides THEN Pair(t, s) ELSE Attach(t, s)
    BY <1>3 DEF AttachDataSocket
  <2>3. CASE ticket[t].attached \cup {s} = Sides /\ Pair(t, s)
    <3>1. /\ ticket' = [ticket EXCEPT ![t].phase = "stream", ![t].attached = Sides]
          /\ reservations' = {p \in reservations : p[1] # t}
          /\ data' = data \cup ({t} \X Sides)
          /\ socket' = [socket EXCEPT ![t][s] = "open"]
      BY <2>3 DEF Pair
    <3>2. /\ ticket' \in [Tickets -> Ticket]
          /\ \A u \in Tickets \ {t} : ticket'[u] = ticket[u]
          /\ ticket'[t] = [ticket[t] EXCEPT !.phase = "stream", !.attached = Sides]
      BY <1>1, <3>1 DEF IInv, TypeOK, Ticket
    <3>3. /\ ticket'[t].phase = "stream" /\ ticket'[t].from = ticket[t].from /\ ticket'[t].to = ticket[t].to
          /\ ticket'[t].attached = Sides /\ ticket'[t].unused = ticket[t].unused
      BY <1>1, <3>2 DEF Ticket
    <3>4. TypeOK'
      BY <1>1, <3>1, <3>2 DEF IInv, TypeOK
    <3>5. PeersInv' /\ EndsAreTrusted'
      BY <1>1, <2>1, <3>2, <3>3, SameEnds
    <3>6. \A u \in Tickets, r \in Sides : socket'[u][r] = "open" <=> Held(u)' /\ r \in ticket'[u].attached
      BY <2>1, <2>3, <3>1, <3>2, <3>3 DEF IInv, StreamsInv, NoOrphanSocket, Held, TypeOK
    <3>7. \A u \in Tickets : ticket'[u].phase = "stream" => ticket'[u].attached = Sides
      BY <3>2, <3>3 DEF IInv, StreamsInv, NoOrphanSocket
    <3>8. TicketsSound'
      <4>1. ticket[t].unused \cap Sides = {}
        BY <1>1, <2>1, <2>3 DEF IInv, StreamsInv, TicketsSound, Ticket
      <4>2. QED
        BY <2>1, <3>2, <3>3, <4>1 DEF IInv, StreamsInv, TicketsSound, Held
    <3>9. data' = {p \in Tickets \X Sides : ticket'[p[1]].phase = "stream"}
      BY <3>1, <3>2, <3>3 DEF IInv, StreamsInv, NoOrphanSocket
    <3>10. reservations' = {p \in Tickets \X Sides : ticket'[p[1]].phase = "ticket"
                                                      /\ p[2] \notin ticket'[p[1]].unused}
      BY <3>1, <3>2, <3>3 DEF IInv, StreamsInv, NoOrphanSocket
    <3>11. QED
      BY <3>4, <3>5, <3>6, <3>7, <3>8, <3>9, <3>10 DEF IInv, StreamsInv, NoOrphanSocket
  <2>4. CASE Attach(t, s)
    <3>1. /\ ticket' = [ticket EXCEPT ![t].attached = @ \cup {s}]
          /\ socket' = [socket EXCEPT ![t][s] = "open"]
          /\ UNCHANGED <<reservations, data>>
      BY <2>4 DEF Attach
    <3>2. /\ ticket' \in [Tickets -> Ticket]
          /\ \A u \in Tickets \ {t} : ticket'[u] = ticket[u]
          /\ ticket'[t] = [ticket[t] EXCEPT !.attached = @ \cup {s}]
      BY <1>1, <3>1 DEF IInv, TypeOK, Ticket
    <3>3. /\ ticket'[t].phase = "ticket" /\ ticket'[t].from = ticket[t].from /\ ticket'[t].to = ticket[t].to
          /\ ticket'[t].attached = ticket[t].attached \cup {s} /\ ticket'[t].unused = ticket[t].unused
      BY <1>1, <2>1, <3>2 DEF Ticket
    <3>4. TypeOK'
      BY <1>1, <3>1, <3>2 DEF IInv, TypeOK
    <3>5. PeersInv' /\ EndsAreTrusted'
      BY <1>1, <2>1, <3>2, <3>3, SameEnds
    <3>6. \A u \in Tickets, r \in Sides : socket'[u][r] = "open" <=> Held(u)' /\ r \in ticket'[u].attached
      BY <2>1, <3>1, <3>2, <3>3 DEF IInv, StreamsInv, NoOrphanSocket, Held, TypeOK
    <3>7. TicketsSound' /\ \A u \in Tickets : ticket'[u].phase = "stream" => ticket'[u].attached = Sides
      <4>1. \A u \in Tickets : ticket'[u].phase = "stream" => ticket'[u].attached = Sides
        BY <3>2, <3>3 DEF IInv, StreamsInv, NoOrphanSocket
      <4>2. ticket'[t].unused \cap ticket'[t].attached = {}
        BY <2>1, <3>3 DEF IInv, StreamsInv, TicketsSound
      <4>3. TicketsSound'
        BY <2>1, <3>2, <3>3, <4>2 DEF IInv, StreamsInv, TicketsSound, Held
      <4>4. QED
        BY <4>1, <4>3
    <3>8. /\ data' = {p \in Tickets \X Sides : ticket'[p[1]].phase = "stream"}
          /\ reservations' = {p \in Tickets \X Sides : ticket'[p[1]].phase = "ticket"
                                                        /\ p[2] \notin ticket'[p[1]].unused}
      BY <2>1, <3>1, <3>2, <3>3 DEF IInv, StreamsInv, NoOrphanSocket
    <3>9. QED
      BY <3>4, <3>5, <3>6, <3>7, <3>8 DEF IInv, StreamsInv, NoOrphanSocket
  <2>5. QED
    BY <2>2, <2>3, <2>4
<1>4. QED
  BY <1>2, <1>3

-----------------------------------------------------------------------------
(* The peers.  Whatever ends a connection gives up what it held.           *)

LEMMA GivenUp ==
  ASSUME IInv, NEW C \in SUBSET Connections, Drop(HeldBy(C))
  PROVE  /\ StreamsInv'
         /\ ticket' \in [Tickets -> Ticket]
         /\ reservations' \subseteq Tickets \X Sides /\ data' \subseteq Tickets \X Sides
         /\ socket' \in [Tickets -> [Sides -> {"none", "upgrading", "open"}]]
         /\ \A t \in Tickets : Held(t)' =>
              /\ Held(t) /\ ticket'[t] = ticket[t]
              /\ ticket[t].from \in Connections \ C /\ ticket[t].to \in Connections \ C
<1>1. /\ socket \in [Tickets -> [Sides -> {"none", "upgrading", "open"}]]
      /\ HeldBy(C) \in SUBSET Tickets /\ DropWith(HeldBy(C), socket)
  BY DEF IInv, TypeOK, Drop, HeldBy
<1>2. StreamsInv'
  BY <1>1, DropStreams DEF IInv
<1>3. /\ ticket' \in [Tickets -> Ticket]
      /\ reservations' \subseteq Tickets \X Sides /\ data' \subseteq Tickets \X Sides
      /\ socket' \in [Tickets -> [Sides -> {"none", "upgrading", "open"}]]
  BY <1>1, DropType DEF IInv
<1>4. ASSUME NEW t \in Tickets, Held(t)'
      PROVE  /\ Held(t) /\ ticket'[t] = ticket[t]
             /\ ticket[t].from \in Connections \ C /\ ticket[t].to \in Connections \ C
  <2>1. Held(t) /\ ticket'[t] = ticket[t] /\ t \notin HeldBy(C)
    BY <1>1, <1>4, DropHeld DEF IInv
  <2>2. ticket[t].from \in Connections /\ ticket[t].to \in Connections
    BY <2>1 DEF IInv, StreamsInv, TicketsSound
  <2>3. QED
    BY <2>1, <2>2 DEF HeldBy, EndsAt
<1>5. QED
  BY <1>2, <1>3, <1>4

(* The ends that are left are who they were. *)
LEMMA EndsLeft ==
  ASSUME IInv, NEW C \in SUBSET Connections, Drop(HeldBy(C)),
         \A c \in Connections \ C : Worker(c) =>
           /\ Worker(c)' /\ control'[c].node = control[c].node /\ control'[c].key = control[c].key
           /\ control'[c].status \in {control[c].status, "authorized"},
         controller \in Connections \ C => controller' = controller,
         StatusSound'
  PROVE  EndsAreTrusted'
<1> SUFFICES ASSUME NEW t \in Tickets, Held(t)'
             PROVE  (\E w \in {ticket[t].from, ticket[t].to} :
                      /\ Worker(w) /\ controller \in {ticket[t].from, ticket[t].to}
                      /\ IF control[w].status = "pending" THEN w = ticket[t].from
                         ELSE authorized[control[w].node] = control[w].key)'
  BY DEF EndsAreTrusted
<1>1. /\ Held(t) /\ ticket'[t] = ticket[t]
      /\ ticket[t].from \in Connections \ C /\ ticket[t].to \in Connections \ C
  BY GivenUp
<1>2. PICK w \in {ticket[t].from, ticket[t].to} :
        /\ Worker(w) /\ controller \in {ticket[t].from, ticket[t].to}
        /\ IF control[w].status = "pending" THEN w = ticket[t].from
           ELSE authorized[control[w].node] = control[w].key
  BY <1>1 DEF IInv, EndsAreTrusted
<1>3. w \in Connections \ C /\ controller' = controller
  BY <1>1, <1>2
<1>4. Worker(w)' /\ (control'[w].status = "pending" => control[w].status = "pending")
  BY <1>2, <1>3
<1>5. control'[w].status # "pending" => authorized'[control'[w].node] = control'[w].key
  BY <1>3, <1>4 DEF StatusSound
<1>6. QED
  BY <1>1, <1>2, <1>3, <1>4, <1>5

LEMMA OpenControlStep ==
  ASSUME IInv, NEW c \in Connections, OpenControl(c)
  PROVE  IInv'
<1>1. /\ control' = [control EXCEPT ![c] = Nobody("open")] /\ control[c].state = "new"
      /\ UNCHANGED <<controller, connectionOf, authorized, ticket, reservations, data, socket,
                     stopped, commits>>
  BY DEF OpenControl, Kept
<1>2. /\ \A d \in Connections \ {c} : control'[d] = control[d]
      /\ control'[c] = Nobody("open") /\ control' \in [Connections -> Control]
  BY <1>1, NobodyType DEF IInv, TypeOK
<1>3. /\ ~Live(c) /\ ~Live(c)' /\ control'[c].role = None /\ control'[c].status = None
      /\ \A d \in Connections \ {c} : Live(d)' <=> Live(d)
  BY <1>1, <1>2 DEF Live, Nobody
<1>4. TypeOK'
  BY <1>1, <1>2 DEF IInv, TypeOK
<1>5. PeersInv'
  <2>1. RolesSound'
    BY <1>2, <1>3, NoneAssumption DEF IInv, PeersInv, RolesSound
  <2>2. TablesSound'
    BY <1>1, <1>2, <1>3 DEF IInv, PeersInv, TablesSound, Worker, Controls, TypeOK
  <2>3. PeersAreCurrent' /\ StatusSound'
    BY <1>1, <1>2, <1>3 DEF IInv, PeersInv, PeersAreCurrent, StatusSound, Worker
  <2>4. QED
    BY <2>1, <2>2, <2>3 DEF PeersInv
<1>6. EndsAreTrusted'
  <2>1. \A w \in Connections : Worker(w) => Worker(w)' /\ control'[w] = control[w]
    BY <1>2, <1>3 DEF Worker
  <2>2. \A t \in Tickets : Held(t) => ticket[t].from \in Connections /\ ticket[t].to \in Connections
    BY DEF IInv, StreamsInv, TicketsSound
  <2>3. QED
    BY <1>1, <2>1, <2>2 DEF IInv, EndsAreTrusted, Held
<1>7. StreamsInv'
  BY <1>1 DEF IInv, StreamsInv, NoOrphanSocket, TicketsSound, Held
<1>8. QED
  BY <1>4, <1>5, <1>6, <1>7 DEF IInv

LEMMA ControlLostStep ==
  ASSUME IInv, NEW c \in Connections, ControlLost(c)
  PROVE  IInv'
<1>1. /\ control' = Closing({c}, control)
      /\ controller' = IF controller \in {c} THEN None ELSE controller
      /\ connectionOf' = Forgotten({c}, connectionOf)
      /\ Drop(HeldBy({c})) /\ UNCHANGED <<authorized, stopped, commits>>
  BY DEF ControlLost, CloseControls
<1>2. /\ \A d \in Connections \ {c} : control'[d] = control[d]
      /\ control'[c] = Nobody("closed") /\ control' \in [Connections -> Control]
  BY <1>1, NobodyType DEF IInv, TypeOK, Closing
<1>3. /\ ~Live(c)' /\ control'[c].role = None /\ control'[c].status = None
      /\ \A d \in Connections \ {c} : Live(d)' <=> Live(d)
  BY <1>2 DEF Live, Nobody
<1>4. \A n \in Nodes : connectionOf'[n] = IF connectionOf[n] = c THEN None ELSE connectionOf[n]
  BY <1>1 DEF Forgotten
<1>5. TypeOK'
  <2>1. connectionOf' \in [Nodes -> Connections \cup {None}]
    BY <1>1 DEF IInv, TypeOK, Forgotten
  <2>2. QED
    BY <1>1, <1>2, <2>1, GivenUp DEF IInv, TypeOK
<1>6. PeersInv'
  <2>1. RolesSound'
    BY <1>2, <1>3, NoneAssumption DEF IInv, PeersInv, RolesSound
  <2>2. TablesSound'
    <3>1. ASSUME NEW n \in Nodes, connectionOf'[n] # None
          PROVE  (Worker(connectionOf[n]) /\ control[connectionOf[n]].node = n)'
      <4>1. connectionOf'[n] = connectionOf[n] /\ connectionOf[n] \in Connections \ {c}
        BY <1>4, <3>1 DEF IInv, TypeOK
      <4>2. Worker(connectionOf[n]) /\ control[connectionOf[n]].node = n
        BY <3>1, <4>1 DEF IInv, PeersInv, TablesSound
      <4>3. QED
        BY <1>2, <1>3, <4>1, <4>2 DEF Worker
    <3>2. ASSUME controller' # None PROVE Controls(controller)'
      <4>1. controller' = controller /\ controller \in Connections \ {c}
        BY <1>1, <3>2 DEF IInv, TypeOK
      <4>2. Controls(controller)
        BY <3>2, <4>1 DEF IInv, PeersInv, TablesSound
      <4>3. QED
        BY <1>2, <1>3, <4>1, <4>2 DEF Controls
    <3>3. QED
      BY <3>1, <3>2 DEF TablesSound
  <2>3. PeersAreCurrent'
    <3>1. ASSUME NEW d \in Connections, Live(d)'
          PROVE  (IF control[d].role = "worker" THEN connectionOf[control[d].node] = d ELSE controller = d)'
      <4>1. Live(d) /\ d # c /\ control'[d] = control[d]
        BY <1>2, <1>3, <3>1
      <4>2. IF control[d].role = "worker" THEN connectionOf[control[d].node] = d ELSE controller = d
        BY <4>1 DEF IInv, PeersInv, PeersAreCurrent
      <4>3. control[d].role = "worker" => control[d].node \in Nodes
        BY DEF IInv, PeersInv, RolesSound
      <4>4. QED
        BY <1>1, <1>4, <4>1, <4>2, <4>3
    <3>2. QED
      BY <3>1 DEF PeersAreCurrent
  <2>4. StatusSound'
    BY <1>1, <1>2, <1>3 DEF IInv, PeersInv, StatusSound, Worker
  <2>5. QED
    BY <2>1, <2>2, <2>3, <2>4 DEF PeersInv
<1>7. EndsAreTrusted'
  <2>1. \A d \in Connections \ {c} : Worker(d) => Worker(d)' /\ control'[d] = control[d]
    BY <1>2, <1>3 DEF Worker
  <2>2. StatusSound'
    BY <1>6 DEF PeersInv
  <2>3. QED
    BY <1>1, <2>1, <2>2, EndsLeft
<1>8. QED
  BY <1>1, <1>5, <1>6, <1>7, GivenUp DEF IInv

LEMMA AuthenticateControllerStep ==
  ASSUME IInv, NEW c \in Connections, AuthenticateController(c)
  PROVE  IInv'
<1> DEFINE C == {controller} \ {None}
<1>1. /\ control[c].state = "open" /\ controller' = c /\ Drop(HeldBy(C))
      /\ control' = Closing(C, [control EXCEPT ![c].state = "live", ![c].role = "controller"])
      /\ UNCHANGED <<connectionOf, authorized, stopped, commits>>
  BY DEF AuthenticateController
<1>2. C \in SUBSET Connections /\ c \notin C /\ ~Live(c)
  BY <1>1 DEF IInv, TypeOK, PeersInv, TablesSound, Controls, Live
<1>3. /\ \A d \in Connections \ (C \cup {c}) : control'[d] = control[d]
      /\ \A d \in C : control'[d] = Nobody("closed")
      /\ control'[c] = [control[c] EXCEPT !.state = "live", !.role = "controller"]
  BY <1>1, <1>2 DEF IInv, TypeOK, Closing
<1>4. control[c] \in Control /\ control' \in [Connections -> Control]
  <2>1. control[c] \in Control
    BY DEF IInv, TypeOK
  <2>2. control'[c] \in Control
    BY <1>3, <2>1 DEF Control
  <2>3. \A d \in Connections : control'[d] \in Control
    BY <1>3, <2>2, NobodyType DEF IInv, TypeOK
  <2>4. QED
    BY <1>1, <2>1, <2>3 DEF Closing
<1>5. /\ control'[c].state = "live" /\ control'[c].role = "controller"
      /\ control'[c].status = control[c].status /\ control[c].status = None
  BY <1>2, <1>3, <1>4, NoneAssumption DEF Control, IInv, PeersInv, RolesSound
<1>6. /\ \A d \in C : ~Live(d)' /\ control'[d].role = None /\ control'[d].status = None
      /\ \A d \in Connections \ (C \cup {c}) : Live(d)' <=> Live(d)
      /\ Live(c)'
  BY <1>3, <1>5 DEF Live, Nobody
<1>7. \A d \in Connections : Worker(d)' => Worker(d) /\ control'[d] = control[d]
  <2>1. ASSUME NEW d \in Connections, Worker(d)' PROVE d \notin C /\ d # c
    BY <1>5, <1>6, <2>1 DEF Worker
  <2>2. QED
    BY <1>3, <1>6, <2>1 DEF Worker
<1>8. TypeOK'
  BY <1>1, <1>2, <1>4, GivenUp DEF IInv, TypeOK
<1>9. \A d \in C : ~Worker(d)
  BY DEF IInv, PeersInv, TablesSound, Controls, Worker
<1>10. PeersInv'
  <2>1. RolesSound'
    <3>1. ASSUME NEW d \in Connections
          PROVE  /\ Live(d)' <=> control'[d].role # None
                 /\ control'[d].role = "worker" => /\ control'[d].node \in Nodes /\ control'[d].key \in Keys
                                                   /\ control'[d].status \in {"pending", "authorized"}
                 /\ control'[d].role # "worker" => control'[d].status = None
      <4>1. CASE d = c
        BY <1>5, <1>6, <4>1, NoneAssumption
      <4>2. CASE d \in C
        BY <1>6, <4>2, NoneAssumption
      <4>3. CASE d \notin C /\ d # c
        BY <1>3, <1>6, <4>3 DEF IInv, PeersInv, RolesSound
      <4>4. QED
        BY <4>1, <4>2, <4>3
    <3>2. QED
      BY <3>1 DEF RolesSound
  <2>2. TablesSound'
    <3>1. Controls(controller)'
      BY <1>1, <1>5, <1>6 DEF Controls
    <3>2. ASSUME NEW n \in Nodes, connectionOf[n] # None
          PROVE  Worker(connectionOf[n])' /\ control'[connectionOf[n]].node = n
      <4>1. connectionOf[n] \in Connections /\ Worker(connectionOf[n]) /\ control[connectionOf[n]].node = n
        BY <3>2 DEF IInv, PeersInv, TablesSound, TypeOK
      <4>2. connectionOf[n] \notin C /\ connectionOf[n] # c
        BY <1>2, <1>9, <4>1 DEF Worker
      <4>3. QED
        BY <1>1, <1>3, <1>6, <4>1, <4>2 DEF Worker
    <3>3. QED
      BY <1>1, <3>1, <3>2 DEF TablesSound
  <2>3. PeersAreCurrent'
    <3>1. ASSUME NEW d \in Connections, Live(d)', control'[d].role # "worker" PROVE d = c
      BY <1>3, <1>6, <3>1, NoneAssumption DEF IInv, PeersInv, PeersAreCurrent
    <3>2. ASSUME NEW d \in Connections, Worker(d)' PROVE connectionOf[control'[d].node] = d
      BY <1>7, <3>2 DEF IInv, PeersInv, PeersAreCurrent, Worker
    <3>3. QED
      BY <1>1, <3>1, <3>2 DEF PeersAreCurrent, Worker
  <2>4. StatusSound'
    BY <1>1, <1>7 DEF IInv, PeersInv, StatusSound
  <2>5. QED
    BY <2>1, <2>2, <2>3, <2>4 DEF PeersInv
<1>11. EndsAreTrusted'
  <2>1. ASSUME NEW t \in Tickets, Held(t)' PROVE FALSE
    <3>1. Held(t) /\ ticket[t].from \in Connections \ C /\ ticket[t].to \in Connections \ C
      BY <1>1, <1>2, <2>1, GivenUp
    <3>2. controller \in {ticket[t].from, ticket[t].to}
      BY <3>1 DEF IInv, EndsAreTrusted
    <3>3. QED
      BY <3>1, <3>2, NoneAssumption
  <2>2. QED
    BY <2>1 DEF EndsAreTrusted
<1>12. QED
  BY <1>1, <1>2, <1>8, <1>10, <1>11, GivenUp DEF IInv

LEMMA AuthenticateWorkerStep ==
  ASSUME IInv, NEW c \in Connections, NEW n \in Nodes, NEW k \in Keys, AuthenticateWorker(c, n, k)
  PROVE  IInv'
<1> DEFINE C == Replaced(n)
           status == IF authorized[n] = k THEN "authorized" ELSE "pending"
           new == [state |-> "live", role |-> "worker", node |-> n, key |-> k, status |-> status,
                   staged |-> NoTransaction]
<1>1. /\ control[c].state = "open" /\ authorized[n] \in {k, None} /\ Drop(HeldBy(C))
      /\ control' = Closing(C, [control EXCEPT ![c] = new])
      /\ connectionOf' = Forgotten(C, [connectionOf EXCEPT ![n] = c])
      /\ UNCHANGED <<controller, authorized, stopped, commits>>
  BY DEF AuthenticateWorker
<1>2. C \in SUBSET Connections /\ c \notin C /\ ~Live(c) /\ C = {connectionOf[n]} \ {None}
  BY <1>1 DEF IInv, TypeOK, PeersInv, TablesSound, Worker, Live, Replaced
<1>3. /\ \A d \in Connections \ (C \cup {c}) : control'[d] = control[d]
      /\ \A d \in C : control'[d] = Nobody("closed")
      /\ control'[c] = new
  BY <1>1, <1>2 DEF IInv, TypeOK, Closing
<1>4. control' \in [Connections -> Control]
  <2>1. new \in Control
    BY DEF Control, Transaction
  <2>2. \A d \in Connections : control'[d] \in Control
    BY <1>3, <2>1, NobodyType DEF IInv, TypeOK
  <2>3. QED
    BY <1>1, <2>2 DEF Closing
<1>5. /\ control'[c].state = "live" /\ control'[c].role = "worker" /\ control'[c].node = n
      /\ control'[c].key = k /\ control'[c].status = status
  BY <1>3
<1>6. /\ \A d \in C : ~Live(d)' /\ control'[d].role = None /\ control'[d].status = None
      /\ \A d \in Connections \ (C \cup {c}) : Live(d)' <=> Live(d)
      /\ Live(c)'
  BY <1>3, <1>5 DEF Live, Nobody
<1>7. \A m \in Nodes : connectionOf'[m] = IF m = n THEN c
                                          ELSE IF connectionOf[m] \in C THEN None ELSE connectionOf[m]
  BY <1>1, <1>2 DEF Forgotten, IInv, TypeOK
<1>8. \A d \in Connections : Live(d)' /\ d # c => Live(d) /\ control'[d] = control[d] /\ d \notin C
  BY <1>3, <1>6
<1>9. TypeOK'
  <2>1. connectionOf' \in [Nodes -> Connections \cup {None}]
    BY <1>1 DEF IInv, TypeOK, Forgotten
  <2>2. QED
    BY <1>1, <1>2, <1>4, <2>1, GivenUp DEF IInv, TypeOK
<1>10. PeersInv'
  <2>1. RolesSound'
    <3>1. ASSUME NEW d \in Connections
          PROVE  /\ Live(d)' <=> control'[d].role # None
                 /\ control'[d].role = "worker" => /\ control'[d].node \in Nodes /\ control'[d].key \in Keys
                                                   /\ control'[d].status \in {"pending", "authorized"}
                 /\ control'[d].role # "worker" => control'[d].status = None
      <4>1. CASE d = c
        BY <1>5, <1>6, <4>1, NoneAssumption
      <4>2. CASE d \in C
        BY <1>6, <4>2, NoneAssumption
      <4>3. CASE d \notin C /\ d # c
        BY <1>3, <1>6, <4>3 DEF IInv, PeersInv, RolesSound
      <4>4. QED
        BY <4>1, <4>2, <4>3
    <3>2. QED
      BY <3>1 DEF RolesSound
  <2>2. TablesSound'
    <3>1. ASSUME NEW m \in Nodes, connectionOf'[m] # None
          PROVE  (Worker(connectionOf[m]) /\ control[connectionOf[m]].node = m)'
      <4>1. CASE m = n
        BY <1>5, <1>6, <1>7, <4>1 DEF Worker
      <4>2. CASE m # n
        <5>1. connectionOf'[m] = connectionOf[m] /\ connectionOf[m] \in Connections \ C
          BY <1>7, <3>1, <4>2 DEF IInv, TypeOK
        <5>2. Worker(connectionOf[m]) /\ control[connectionOf[m]].node = m
          BY <3>1, <5>1 DEF IInv, PeersInv, TablesSound
        <5>3. connectionOf[m] # c
          BY <1>2, <5>2 DEF Worker
        <5>4. QED
          BY <1>3, <1>6, <5>1, <5>2, <5>3 DEF Worker
      <4>3. QED
        BY <4>1, <4>2
    <3>2. ASSUME controller' # None PROVE Controls(controller)'
      <4>1. controller' = controller /\ controller \in Connections /\ Controls(controller)
        BY <1>1, <3>2 DEF IInv, TypeOK, PeersInv, TablesSound
      <4>2. controller \notin C /\ controller # c
        BY <1>2, <4>1 DEF IInv, PeersInv, TablesSound, Controls, Worker
      <4>3. QED
        BY <1>3, <1>6, <4>1, <4>2 DEF Controls
    <3>3. QED
      BY <3>1, <3>2 DEF TablesSound
  <2>3. PeersAreCurrent'
    <3>1. ASSUME NEW d \in Connections, Live(d)', d # c
          PROVE  (IF control[d].role = "worker" THEN connectionOf[control[d].node] = d ELSE controller = d)'
      <4>1. Live(d) /\ control'[d] = control[d] /\ d \notin C
        BY <1>8, <3>1
      <4>2. IF control[d].role = "worker" THEN connectionOf[control[d].node] = d ELSE controller = d
        BY <4>1 DEF IInv, PeersInv, PeersAreCurrent
      <4>3. CASE control[d].role = "worker"
        <5>1. control[d].node \in Nodes /\ connectionOf[control[d].node] = d /\ d # None
          BY <4>2, <4>3, NoneAssumption DEF IInv, PeersInv, RolesSound
        <5>2. control[d].node # n
          BY <1>2, <4>1, <5>1
        <5>3. QED
          BY <1>7, <4>1, <4>3, <5>1, <5>2
      <4>4. CASE control[d].role # "worker"
        BY <1>1, <4>1, <4>2, <4>4
      <4>5. QED
        BY <4>3, <4>4
    <3>2. connectionOf'[control'[c].node] = c
      BY <1>5, <1>7
    <3>3. QED
      BY <1>5, <3>1, <3>2 DEF PeersAreCurrent
  <2>4. StatusSound'
    <3>1. ASSUME NEW d \in Connections, Worker(d)', d # c
          PROVE  authorized[control'[d].node] = IF control'[d].status = "pending" THEN None
                                                ELSE control'[d].key
      BY <1>8, <3>1 DEF IInv, PeersInv, StatusSound, Worker
    <3>2. authorized[n] = IF status = "pending" THEN None ELSE k
      BY <1>1
    <3>3. QED
      BY <1>1, <1>5, <3>1, <3>2 DEF StatusSound
  <2>5. QED
    BY <2>1, <2>2, <2>3, <2>4 DEF PeersInv
<1>11. EndsAreTrusted'
  <2>1. \A d \in Connections \ C : Worker(d) => Worker(d)' /\ control'[d] = control[d]
    BY <1>2, <1>3, <1>6 DEF Worker
  <2>2. StatusSound'
    BY <1>10 DEF PeersInv
  <2>3. QED
    BY <1>1, <1>2, <2>1, <2>2, EndsLeft
<1>12. QED
  BY <1>1, <1>2, <1>9, <1>10, <1>11, GivenUp DEF IInv

-----------------------------------------------------------------------------
(* The authorization snapshot.                                             *)

(* A transaction that is being staged changes nothing else. *)
LEMMA StagingStep ==
  ASSUME IInv, NEW c \in Connections, NEW staged \in Transaction,
         control' = [control EXCEPT ![c].staged = staged],
         UNCHANGED <<controller, connectionOf, authorized, stopped, commits>>, Kept
  PROVE  IInv'
<1>1. /\ control' \in [Connections -> Control]
      /\ \A d \in Connections : /\ control'[d].state = control[d].state /\ control'[d].role = control[d].role
                                /\ control'[d].node = control[d].node /\ control'[d].key = control[d].key
                                /\ control'[d].status = control[d].status
  BY DEF IInv, TypeOK, Control
<1>2. TypeOK'
  BY <1>1 DEF IInv, TypeOK, Kept
<1>3. \A d \in Connections : (Live(d)' <=> Live(d)) /\ (Worker(d)' <=> Worker(d))
  BY <1>1 DEF Live, Worker
<1>4. PeersInv'
  <2>1. RolesSound' /\ PeersAreCurrent' /\ StatusSound'
    BY <1>1, <1>3 DEF IInv, PeersInv, RolesSound, PeersAreCurrent, StatusSound
  <2>2. TablesSound'
    BY <1>1 DEF IInv, PeersInv, TablesSound, TypeOK, Worker, Controls, Live
  <2>3. QED
    BY <2>1, <2>2 DEF PeersInv
<1>5. EndsAreTrusted' /\ StreamsInv'
  <2>1. \A t \in Tickets : Held(t) => ticket[t].from \in Connections /\ ticket[t].to \in Connections
    BY DEF IInv, StreamsInv, TicketsSound
  <2>2. EndsAreTrusted'
    BY <1>1, <1>3, <2>1 DEF IInv, EndsAreTrusted, Held, Kept
  <2>3. StreamsInv'
    BY DEF IInv, StreamsInv, NoOrphanSocket, TicketsSound, Held, Kept
  <2>4. QED
    BY <2>2, <2>3
<1>6. QED
  BY <1>2, <1>4, <1>5 DEF IInv

LEMMA AuthorizationStep ==
  ASSUME IInv, NEW c \in Connections,
         BeginAuthorization(c) \/ StageAuthorization(c) \/ DiscardAuthorization(c)
  PROVE  IInv'
<1>1. control[c] \in Control
  BY DEF IInv, TypeOK
<1>2. CASE BeginAuthorization(c)
  <2>1. PICK count \in 0 .. Cardinality(Nodes) :
          control' = [control EXCEPT ![c].staged = [count |-> count, keys |-> [n \in Nodes |-> None]]]
    BY <1>2 DEF BeginAuthorization
  <2>2. [count |-> count, keys |-> [n \in Nodes |-> None]] \in Transaction
    BY DEF Transaction, Snapshots
  <2>3. QED
    BY <1>2, <2>1, <2>2, StagingStep DEF BeginAuthorization
<1>3. CASE StageAuthorization(c)
  <2>1. PICK n \in Nodes, k \in Keys : control' = [control EXCEPT ![c].staged.keys[n] = k]
    BY <1>3 DEF StageAuthorization, Staged
  <2>2. control[c].staged \in [count : Nat, keys : Snapshots]
    BY <1>1, <1>3 DEF StageAuthorization, Control, Transaction
  <2>3. [control[c].staged EXCEPT !.keys[n] = k] \in Transaction
    BY <2>2 DEF Transaction, Snapshots
  <2>4. control' = [control EXCEPT ![c].staged = [control[c].staged EXCEPT !.keys[n] = k]]
    BY <2>1
  <2>5. QED
    BY <1>3, <2>3, <2>4, StagingStep DEF StageAuthorization
<1>4. CASE DiscardAuthorization(c)
  BY <1>4, StagingStep DEF DiscardAuthorization, Transaction
<1>5. QED
  BY <1>2, <1>3, <1>4

LEMMA CommitStep ==
  ASSUME IInv, NEW c \in Connections, CommitAuthorization(c)
  PROVE  IInv'
<1> DEFINE keys == control[c].staged.keys
           C == Revoked(keys)
           known == {d \in Connections : Worker(d) /\ keys[control[d].node] = control[d].key}
           settled == [d \in Connections |->
                         IF d = c THEN [control[d] EXCEPT !.staged = NoTransaction]
                         ELSE IF d \in known THEN [control[d] EXCEPT !.status = "authorized"]
                         ELSE control[d]]
<1>1. /\ Controls(c) /\ control[c].staged # NoTransaction /\ commits < MaxCommits
      /\ authorized' = keys /\ commits' = commits + 1 /\ control' = Closing(C, settled)
      /\ connectionOf' = Forgotten(C, connectionOf) /\ Drop(HeldBy(C))
      /\ UNCHANGED <<controller, stopped>>
  BY DEF CommitAuthorization
<1>2. C \in SUBSET Connections /\ c \notin C /\ ~Worker(c) /\ \A d \in C : Worker(d)
  BY <1>1 DEF Revoked, Controls, Worker
<1>3. \A d \in Connections : control[d] \in Control
  BY DEF IInv, TypeOK
<1>4. keys \in Snapshots
  BY <1>1, <1>3 DEF Control, Transaction
<1>5. /\ \A d \in C : control'[d] = Nobody("closed")
      /\ \A d \in Connections \ C : control'[d] = settled[d]
  BY <1>1, <1>2 DEF Closing
<1>6. \A d \in Connections \ C :
        /\ control'[d] \in Control
        /\ control'[d].state = control[d].state /\ control'[d].role = control[d].role
        /\ control'[d].node = control[d].node /\ control'[d].key = control[d].key
        /\ control'[d].status = IF d \in known THEN "authorized" ELSE control[d].status
  <2> SUFFICES ASSUME NEW d \in Connections \ C
               PROVE  /\ control'[d] \in Control
                      /\ control'[d].state = control[d].state /\ control'[d].role = control[d].role
                      /\ control'[d].node = control[d].node /\ control'[d].key = control[d].key
                      /\ control'[d].status = IF d \in known THEN "authorized" ELSE control[d].status
    OBVIOUS
  <2>1. CASE d = c
    <3>1. control'[d] = [control[d] EXCEPT !.staged = NoTransaction] /\ d \notin known
      BY <1>2, <1>5, <2>1
    <3>2. QED
      BY <1>3, <3>1 DEF Control, Transaction
  <2>2. CASE d # c /\ d \in known
    <3>1. control'[d] = [control[d] EXCEPT !.status = "authorized"]
      BY <1>5, <2>2
    <3>2. QED
      BY <1>3, <2>2, <3>1 DEF Control
  <2>3. CASE d # c /\ d \notin known
    BY <1>3, <1>5, <2>3
  <2>4. QED
    BY <2>1, <2>2, <2>3
<1>7. /\ \A d \in C : ~Live(d)' /\ control'[d].role = None /\ control'[d].status = None
      /\ \A d \in Connections \ C : (Live(d)' <=> Live(d)) /\ (Worker(d)' <=> Worker(d))
  BY <1>5, <1>6 DEF Live, Worker, Nobody
<1>8. \A n \in Nodes : connectionOf'[n] = IF connectionOf[n] \in C THEN None ELSE connectionOf[n]
  BY <1>1 DEF Forgotten
<1>9. TypeOK'
  <2>1. connectionOf' \in [Nodes -> Connections \cup {None}]
    BY <1>1 DEF IInv, TypeOK, Forgotten
  <2>2. control' \in [Connections -> Control]
    <3>1. \A d \in Connections : control'[d] \in Control
      BY <1>5, <1>6, NobodyType
    <3>2. QED
      BY <1>1, <3>1 DEF Closing
  <2>3. commits' \in 0 .. MaxCommits
    BY <1>1, LimitAssumption DEF IInv, TypeOK
  <2>4. QED
    BY <1>1, <1>2, <1>4, <2>1, <2>2, <2>3, GivenUp DEF IInv, TypeOK
<1>10. PeersInv'
  <2>1. RolesSound'
    <3>1. ASSUME NEW d \in Connections
          PROVE  /\ Live(d)' <=> control'[d].role # None
                 /\ control'[d].role = "worker" => /\ control'[d].node \in Nodes /\ control'[d].key \in Keys
                                                   /\ control'[d].status \in {"pending", "authorized"}
                 /\ control'[d].role # "worker" => control'[d].status = None
      <4>1. CASE d \in C
        BY <1>7, <4>1, NoneAssumption
      <4>2. CASE d \notin C
        BY <1>6, <1>7, <4>2 DEF IInv, PeersInv, RolesSound, Worker
      <4>3. QED
        BY <4>1, <4>2
    <3>2. QED
      BY <3>1 DEF RolesSound
  <2>2. TablesSound'
    <3>1. ASSUME NEW n \in Nodes, connectionOf'[n] # None
          PROVE  (Worker(connectionOf[n]) /\ control[connectionOf[n]].node = n)'
      <4>1. connectionOf'[n] = connectionOf[n] /\ connectionOf[n] \in Connections \ C
        BY <1>8, <3>1 DEF IInv, TypeOK
      <4>2. Worker(connectionOf[n]) /\ control[connectionOf[n]].node = n
        BY <3>1, <4>1 DEF IInv, PeersInv, TablesSound
      <4>3. QED
        BY <1>6, <1>7, <4>1, <4>2 DEF Worker
    <3>2. ASSUME controller' # None PROVE Controls(controller)'
      <4>1. controller' = controller /\ controller \in Connections /\ Controls(controller)
        BY <1>1, <3>2 DEF IInv, TypeOK, PeersInv, TablesSound
      <4>2. controller \notin C
        BY <1>2, <4>1 DEF Controls, Worker
      <4>3. QED
        BY <1>6, <1>7, <4>1, <4>2 DEF Controls
    <3>3. QED
      BY <3>1, <3>2 DEF TablesSound
  <2>3. PeersAreCurrent'
    <3>1. ASSUME NEW d \in Connections, Live(d)'
          PROVE  (IF control[d].role = "worker" THEN connectionOf[control[d].node] = d ELSE controller = d)'
      <4>1. Live(d) /\ d \notin C /\ control'[d].role = control[d].role /\ control'[d].node = control[d].node
        BY <1>6, <1>7, <3>1
      <4>2. IF control[d].role = "worker" THEN connectionOf[control[d].node] = d ELSE controller = d
        BY <4>1 DEF IInv, PeersInv, PeersAreCurrent
      <4>3. control[d].role = "worker" => control[d].node \in Nodes
        BY DEF IInv, PeersInv, RolesSound
      <4>4. QED
        BY <1>1, <1>8, <4>1, <4>2, <4>3
    <3>2. QED
      BY <3>1 DEF PeersAreCurrent
  <2>4. StatusSound'
    <3>1. ASSUME NEW d \in Connections, Worker(d)'
          PROVE  keys[control'[d].node] = IF control'[d].status = "pending" THEN None
                                          ELSE control'[d].key
      <4>1. Worker(d) /\ d \notin C
        BY <1>7, <3>1 DEF Worker
      <4>2. control[d].status \in {"pending", "authorized"}
        BY <4>1 DEF IInv, PeersInv, RolesSound, Worker
      <4>3. CASE d \in known
        BY <1>6, <4>1, <4>3
      <4>4. CASE d \notin known
        BY <1>6, <4>1, <4>2, <4>4 DEF Revoked
      <4>5. QED
        BY <4>3, <4>4
    <3>2. QED
      BY <1>1, <3>1 DEF StatusSound
  <2>5. QED
    BY <2>1, <2>2, <2>3, <2>4 DEF PeersInv
<1>11. EndsAreTrusted'
  <2>1. \A d \in Connections \ C : Worker(d) =>
          /\ Worker(d)' /\ control'[d].node = control[d].node /\ control'[d].key = control[d].key
          /\ control'[d].status \in {control[d].status, "authorized"}
    BY <1>6, <1>7
  <2>2. StatusSound'
    BY <1>10 DEF PeersInv
  <2>3. QED
    BY <1>1, <1>2, <2>1, <2>2, EndsLeft
<1>12. QED
  BY <1>1, <1>2, <1>9, <1>10, <1>11, GivenUp DEF IInv

LEMMA StopStep ==
  ASSUME IInv, Stop
  PROVE  IInv'
<1>1. /\ control' = Closing({c \in Connections : Open(c)}, control) /\ stopped' = TRUE
      /\ controller' = None /\ connectionOf' = [n \in Nodes |-> None]
      /\ Drop(Tickets) /\ UNCHANGED <<authorized, commits>>
  BY DEF Stop
<1>2. /\ \A d \in Connections : ~Live(d)' /\ control'[d] \in {Nobody("closed"), control[d]}
      /\ control' \in [Connections -> Control]
  <2>1. \A d \in Connections : control'[d] = IF Open(d) THEN Nobody("closed") ELSE control[d]
    BY <1>1 DEF Closing
  <2>2. \A d \in Connections : ~Live(d)'
    BY <2>1 DEF Open, Live, Nobody
  <2>3. control' \in [Connections -> Control]
    BY <1>1, NobodyType DEF IInv, TypeOK, Closing
  <2>4. QED
    BY <2>1, <2>2, <2>3
<1>3. socket \in [Tickets -> [Sides -> {"none", "upgrading", "open"}]] /\ DropWith(Tickets, socket)
  BY <1>1 DEF IInv, TypeOK, Drop
<1>4. TypeOK'
  BY <1>1, <1>2, <1>3, DropType DEF IInv, TypeOK
<1>5. \A d \in Connections : control'[d].role = None /\ control'[d].status = None
  <2>1. ASSUME NEW d \in Connections, control'[d] = control[d]
        PROVE  control'[d].role = None /\ control'[d].status = None
    <3>1. ~Live(d)
      BY <1>2, <2>1 DEF Live
    <3>2. QED
      BY <2>1, <3>1, NoneAssumption DEF IInv, PeersInv, RolesSound
  <2>2. QED
    BY <1>2, <2>1 DEF Nobody
<1>6. PeersInv'
  BY <1>1, <1>2, <1>5, NoneAssumption
     DEF PeersInv, RolesSound, TablesSound, PeersAreCurrent, StatusSound, Worker
<1>7. EndsAreTrusted'
  BY <1>3, DropHeld DEF IInv, EndsAreTrusted
<1>8. StreamsInv'
  BY <1>3, DropStreams DEF IInv
<1>9. QED
  BY <1>4, <1>6, <1>7, <1>8 DEF IInv

-----------------------------------------------------------------------------
LEMMA NextIInv == IInv /\ [Next]_vars => IInv'
<1> SUFFICES ASSUME IInv, [Next]_vars PROVE IInv'
  OBVIOUS
<1>1. ASSUME NEW c \in Connections, Peers(c) PROVE IInv'
  BY <1>1, OpenControlStep, ControlLostStep, AuthenticateControllerStep, AuthenticateWorkerStep DEF Peers
<1>2. ASSUME NEW c \in Connections, Authorization(c) PROVE IInv'
  BY <1>2, AuthorizationStep, CommitStep DEF Authorization
<1>3. ASSUME NEW t \in Tickets, Streams(t) PROVE IInv'
  <2>1. CASE CancelRequest(t) \/ StreamFails(t)
    BY <2>1, DropStep DEF CancelRequest, StreamFails
  <2>2. CASE \E from, to \in Connections : RequestStream(t, from, to)
    BY <2>2, RequestStep
  <2>3. QED
    BY <1>3, <2>1, <2>2 DEF Streams
<1>4. ASSUME NEW t \in Tickets, TicketExpires(t) PROVE IInv'
  BY <1>4, DropStep DEF TicketExpires
<1>5. ASSUME NEW t \in Tickets, NEW s \in Sides, Dial(t, s) \/ AttachDataSocket(t, s) PROVE IInv'
  BY <1>5, ReserveStep, CloseDataStep, AttachStep DEF Dial
<1>6. CASE Stop
  BY <1>6, StopStep
<1>7. CASE UNCHANGED vars
  <2>1. TypeOK' /\ StreamsInv'
    BY <1>7 DEF vars, IInv, TypeOK, StreamsInv, NoOrphanSocket, TicketsSound, Held
  <2>2. PeersInv'
    BY <1>7 DEF vars, IInv, PeersInv, RolesSound, TablesSound, PeersAreCurrent, StatusSound,
       Live, Worker, Controls
  <2>3. EndsAreTrusted'
    BY <1>7 DEF vars, IInv, EndsAreTrusted, Held, Worker, Live
  <2>4. QED
    BY <2>1, <2>2, <2>3 DEF IInv
<1>8. QED
  BY <1>1, <1>2, <1>3, <1>4, <1>5, <1>6, <1>7 DEF Next

LEMMA Invariance == Spec => []IInv
BY InitIInv, NextIInv, PTL DEF Spec

(* Every value of the broker's tables and maps is of its type. *)
THEOREM TypeCorrect == Spec => []TypeOK
<1>1. IInv => TypeOK
  BY DEF IInv
<1>2. QED
  BY <1>1, Invariance, PTL

(* Whatever connections come, replace each other, are revoked and close    *)
(* late: the tables of controller and workers name the latest of each, and *)
(* no live connection is missing from them.                                *)
THEOREM PeersCurrent == Spec => []PeersAreCurrent
<1>1. IInv => PeersAreCurrent
  BY DEF IInv, PeersInv
<1>2. QED
  BY <1>1, Invariance, PTL

(* No ticket and no stream outlives the connection, the authorization or   *)
(* the key it was issued for.                                              *)
THEOREM EndsTrusted == Spec => []EndsAreTrusted
<1>1. IInv => EndsAreTrusted
  BY DEF IInv
<1>2. QED
  BY <1>1, Invariance, PTL

(* The maps of reservations, data connections and streams agree with the   *)
(* sockets that are open, in every order of upgrades, closes, expiries and *)
(* cancellations.                                                          *)
THEOREM SocketsOwned == Spec => []NoOrphanSocket
<1>1. IInv => NoOrphanSocket
  BY DEF IInv, StreamsInv
<1>2. QED
  BY <1>1, Invariance, PTL

-----------------------------------------------------------------------------
(* The limits.  They count sets of any kind of connection, so that only    *)
(* finitely many are ever in use is part of the invariant.                 *)

OpenOnes == {c \in Connections : Open(c)}

LoadInv ==
  /\ IsFiniteSet(OpenOnes) /\ IsFiniteSet(data) /\ IsFiniteSet(Attaching)
  /\ \A c \in Connections : IsFiniteSet(TicketsOf(c)) /\ IsFiniteSet(StreamsOf(c))
  /\ LoadIsBounded

LEMMA Smaller ==
  ASSUME NEW S, IsFiniteSet(S), NEW T, T \subseteq S
  PROVE  IsFiniteSet(T) /\ Cardinality(T) \in Nat /\ Cardinality(T) <= Cardinality(S)
                        /\ Cardinality(S) \in Nat
  BY FS_Subset, FS_CardinalityType

LEMMA OneMore ==
  ASSUME NEW S, IsFiniteSet(S), NEW x, NEW T, T \subseteq S \cup {x}
  PROVE  IsFiniteSet(T) /\ Cardinality(T) \in Nat /\ Cardinality(T) <= Cardinality(S) + 1
                        /\ Cardinality(S) \in Nat
<1>1. /\ IsFiniteSet(S \cup {x}) /\ Cardinality(S \cup {x}) <= Cardinality(S) + 1
      /\ Cardinality(S) \in Nat
  BY FS_AddElement, FS_CardinalityType
<1>2. /\ IsFiniteSet(T) /\ Cardinality(T) \in Nat
      /\ Cardinality(T) <= Cardinality(S \cup {x}) /\ Cardinality(S \cup {x}) \in Nat
  BY <1>1, Smaller
<1>3. QED
  BY <1>1, <1>2

LEMMA InitLoad == Init => LoadInv
<1> SUFFICES ASSUME Init PROVE LoadInv
  OBVIOUS
<1>1. OpenOnes = {} /\ data = {} /\ Attaching = {}
  BY DEF Init, OpenOnes, Open, Attaching, Nobody, Blank
<1>2. \A c \in Connections : TicketsOf(c) = {} /\ StreamsOf(c) = {}
  BY DEF Init, TicketsOf, StreamsOf, Blank
<1>3. QED
  BY <1>1, <1>2, FS_EmptySet, LimitAssumption DEF LoadInv, LoadIsBounded, ConnectionCount, OpenOnes

(* Each part of the count says what it needs of a step.                    *)
LEMMA ConnectionsBounded ==
  ASSUME LoadInv, IsFiniteSet(OpenOnes'), IsFiniteSet(data'), IsFiniteSet(Attaching'),
         ConnectionCount' <= MaxConnections,
         \A c \in Connections : TicketsOf(c)' \subseteq TicketsOf(c),
         \A c \in Connections : StreamsOf(c)' \subseteq StreamsOf(c)
  PROVE  LoadInv'
<1>1. ASSUME NEW c \in Connections
      PROVE  /\ IsFiniteSet(TicketsOf(c)') /\ IsFiniteSet(StreamsOf(c)')
             /\ Cardinality(TicketsOf(c)') <= MaxTickets
             /\ Cardinality(TicketsOf(c)') + Cardinality(StreamsOf(c)') < MaxTickets + MaxStreams
  <2>1. /\ IsFiniteSet(TicketsOf(c)) /\ IsFiniteSet(StreamsOf(c))
        /\ Cardinality(TicketsOf(c)) <= MaxTickets
        /\ Cardinality(TicketsOf(c)) + Cardinality(StreamsOf(c)) < MaxTickets + MaxStreams
    BY DEF LoadInv, LoadIsBounded
  <2>2. /\ IsFiniteSet(TicketsOf(c)') /\ Cardinality(TicketsOf(c)') \in Nat
        /\ Cardinality(TicketsOf(c)') <= Cardinality(TicketsOf(c)) /\ Cardinality(TicketsOf(c)) \in Nat
    BY <2>1, Smaller
  <2>3. /\ IsFiniteSet(StreamsOf(c)') /\ Cardinality(StreamsOf(c)') \in Nat
        /\ Cardinality(StreamsOf(c)') <= Cardinality(StreamsOf(c)) /\ Cardinality(StreamsOf(c)) \in Nat
    BY <2>1, Smaller
  <2>4. QED
    BY <2>1, <2>2, <2>3, LimitAssumption
<1>2. QED
  BY <1>1 DEF LoadInv, LoadIsBounded

LEMMA Shrinks ==
  ASSUME LoadInv, OpenOnes' \subseteq OpenOnes, data' \subseteq data,
         \A t \in Tickets : Held(t)' => /\ ticket'[t].phase = ticket[t].phase
                                        /\ ticket'[t].from = ticket[t].from
                                        /\ ticket'[t].to = ticket[t].to
                                        /\ ticket'[t].attached = ticket[t].attached
  PROVE  LoadInv'
<1>1. Attaching' \subseteq Attaching
  BY DEF Attaching, Held
<1>2. \A c \in Connections : TicketsOf(c)' \subseteq TicketsOf(c) /\ StreamsOf(c)' \subseteq StreamsOf(c)
  BY DEF TicketsOf, StreamsOf, Held, EndsAt
<1>3. /\ IsFiniteSet(OpenOnes') /\ Cardinality(OpenOnes') \in Nat /\ Cardinality(OpenOnes) \in Nat
      /\ Cardinality(OpenOnes') <= Cardinality(OpenOnes)
  BY Smaller DEF LoadInv
<1>4. /\ IsFiniteSet(data') /\ Cardinality(data') \in Nat /\ Cardinality(data) \in Nat
      /\ Cardinality(data') <= Cardinality(data)
  BY Smaller DEF LoadInv
<1>5. /\ IsFiniteSet(Attaching') /\ Cardinality(Attaching') \in Nat /\ Cardinality(Attaching) \in Nat
      /\ Cardinality(Attaching') <= Cardinality(Attaching)
  BY <1>1, Smaller DEF LoadInv
<1>6. Cardinality(OpenOnes) + Cardinality(data) + Cardinality(Attaching) <= MaxConnections
  BY DEF LoadInv, LoadIsBounded, ConnectionCount, OpenOnes
<1>7. Cardinality(OpenOnes') + Cardinality(data') + Cardinality(Attaching') <= MaxConnections
  BY <1>3, <1>4, <1>5, <1>6, LimitAssumption
<1>8. ConnectionCount' <= MaxConnections
  BY <1>7 DEF ConnectionCount, OpenOnes
<1>9. QED
  BY <1>2, <1>3, <1>4, <1>5, <1>8, ConnectionsBounded

(* Whatever drops tickets and opens nothing keeps the limits. *)
LEMMA DropLoad ==
  ASSUME IInv, LoadInv, NEW S \in SUBSET Tickets,
         NEW sockets \in [Tickets -> [Sides -> {"none", "upgrading", "open"}]], DropWith(S, sockets),
         OpenOnes' \subseteq OpenOnes
  PROVE  LoadInv'
<1>1. data' \subseteq data
  BY DEF DropWith
<1>2. \A t \in Tickets : Held(t)' => ticket'[t] = ticket[t]
  BY DropHeld DEF IInv
<1>3. QED
  BY <1>1, <1>2, Shrinks

LEMMA GiveUpLoad ==
  ASSUME IInv, LoadInv, NEW S \in SUBSET Tickets, Drop(S), OpenOnes' \subseteq OpenOnes
  PROVE  LoadInv'
<1>1. DropWith(S, socket) /\ socket \in [Tickets -> [Sides -> {"none", "upgrading", "open"}]]
  BY DEF Drop, IInv, TypeOK
<1>2. QED
  BY <1>1, DropLoad

LEMMA KeptLoad ==
  ASSUME LoadInv, ticket' = ticket, data' = data, OpenOnes' \subseteq OpenOnes
  PROVE  LoadInv'
  BY Shrinks

LEMMA OpenControlLoad ==
  ASSUME LoadInv, NEW c \in Connections, OpenControl(c), IInv
  PROVE  LoadInv'
<1>1. ConnectionCount < MaxConnections /\ ticket' = ticket /\ data' = data
      /\ control' = [control EXCEPT ![c] = Nobody("open")]
  BY DEF OpenControl, Kept
<1>2. OpenOnes' \subseteq OpenOnes \cup {c}
  BY <1>1 DEF OpenOnes, Open, IInv, TypeOK
<1>3. Attaching' = Attaching
  BY <1>1 DEF Attaching
<1>4. \A d \in Connections : TicketsOf(d)' = TicketsOf(d) /\ StreamsOf(d)' = StreamsOf(d)
  BY <1>1 DEF TicketsOf, StreamsOf, EndsAt
<1>5. IsFiniteSet(OpenOnes) /\ IsFiniteSet(data) /\ IsFiniteSet(Attaching)
  BY DEF LoadInv
<1>6. /\ IsFiniteSet(OpenOnes') /\ Cardinality(OpenOnes') \in Nat /\ Cardinality(OpenOnes) \in Nat
      /\ Cardinality(OpenOnes') <= Cardinality(OpenOnes) + 1
  BY <1>2, <1>5, OneMore
<1>7. Cardinality(data) \in Nat /\ Cardinality(Attaching) \in Nat
  BY <1>5, FS_CardinalityType
<1>8. Cardinality(OpenOnes) + Cardinality(data) + Cardinality(Attaching) < MaxConnections
  BY <1>1 DEF ConnectionCount, OpenOnes
<1>9. Cardinality(OpenOnes') + Cardinality(data') + Cardinality(Attaching') <= MaxConnections
  BY <1>1, <1>3, <1>6, <1>7, <1>8, LimitAssumption
<1>10. ConnectionCount' <= MaxConnections
  BY <1>9 DEF ConnectionCount, OpenOnes
<1>11. QED
  BY <1>1, <1>3, <1>4, <1>5, <1>6, <1>10, ConnectionsBounded

(* A ticket is issued below both limits of both ends, and becomes a stream *)
(* without their being asked again.                                        *)
LEMMA RequestLoad ==
  ASSUME IInv, LoadInv, NEW t \in Tickets, NEW from \in Connections, NEW to \in Connections,
         RequestStream(t, from, to)
  PROVE  LoadInv'
<1>1. /\ ticket[t].phase = "none" /\ HasCapacity(from) /\ HasCapacity(to)
      /\ ticket' = [ticket EXCEPT ![t] = [phase |-> "ticket", from |-> from, to |-> to,
                                          unused |-> Sides, attached |-> {}]]
      /\ data' = data /\ control' = control
  BY DEF RequestStream
<1>2. /\ \A u \in Tickets \ {t} : ticket'[u] = ticket[u]
      /\ ticket'[t].phase = "ticket" /\ ticket'[t].from = from /\ ticket'[t].to = to
      /\ ticket'[t].attached = {}
  BY <1>1 DEF IInv, TypeOK
<1>3. OpenOnes' = OpenOnes
  BY <1>1 DEF OpenOnes, Open
<1>4. Attaching' = Attaching
  BY <1>1, <1>2 DEF Attaching
<1>5. ConnectionCount' <= MaxConnections
  BY <1>1, <1>3, <1>4 DEF LoadInv, LoadIsBounded, ConnectionCount, OpenOnes
<1>6. ASSUME NEW c \in Connections
      PROVE  /\ IsFiniteSet(TicketsOf(c)') /\ IsFiniteSet(StreamsOf(c)')
             /\ Cardinality(TicketsOf(c)') <= MaxTickets
             /\ Cardinality(TicketsOf(c)') + Cardinality(StreamsOf(c)') < MaxTickets + MaxStreams
  <2>1. /\ IsFiniteSet(TicketsOf(c)) /\ IsFiniteSet(StreamsOf(c))
        /\ Cardinality(TicketsOf(c)) <= MaxTickets
        /\ Cardinality(TicketsOf(c)) + Cardinality(StreamsOf(c)) < MaxTickets + MaxStreams
    BY DEF LoadInv, LoadIsBounded
  <2>2. StreamsOf(c)' = StreamsOf(c)
    BY <1>1, <1>2 DEF StreamsOf, EndsAt
  <2>3. Cardinality(StreamsOf(c)) \in Nat /\ Cardinality(TicketsOf(c)) \in Nat
    BY <2>1, FS_CardinalityType
  <2>4. CASE c \notin {from, to}
    <3>1. TicketsOf(c)' = TicketsOf(c)
      BY <1>1, <1>2, <2>4 DEF TicketsOf, EndsAt
    <3>2. QED
      BY <2>1, <2>2, <3>1
  <2>5. CASE c \in {from, to}
    <3>1. TicketsOf(c)' \subseteq TicketsOf(c) \cup {t}
      BY <1>2 DEF TicketsOf, EndsAt
    <3>2. /\ IsFiniteSet(TicketsOf(c)') /\ Cardinality(TicketsOf(c)') \in Nat
          /\ Cardinality(TicketsOf(c)') <= Cardinality(TicketsOf(c)) + 1
      BY <2>1, <3>1, OneMore
    <3>3. Cardinality(TicketsOf(c)) < MaxTickets /\ Cardinality(StreamsOf(c)) < MaxStreams
      BY <1>1, <2>5 DEF HasCapacity
    <3>4. QED
      BY <2>1, <2>2, <2>3, <3>2, <3>3, LimitAssumption
  <2>6. QED
    BY <2>4, <2>5
<1>7. QED
  BY <1>1, <1>3, <1>4, <1>5, <1>6 DEF LoadInv, LoadIsBounded

(* A socket is attached while there is room for one more; the second takes *)
(* the place of the first in the count, and both become data connections.  *)
LEMMA PairLoad ==
  ASSUME IInv, LoadInv, NEW t \in Tickets, NEW s \in Sides, Pair(t, s), control' = control,
         ticket[t].phase = "ticket", socket[t][s] # "open", ticket[t].attached \cup {s} = Sides,
         ConnectionCount < MaxConnections
  PROVE  LoadInv'
<1> DEFINE other == CHOOSE r \in Sides : r # s
<1>1. other \in Sides /\ Sides = {s, other} /\ s # other
  BY DEF Sides
<1>2. /\ \A u \in Tickets \ {t} : ticket'[u] = ticket[u]
      /\ ticket'[t].phase = "stream" /\ ticket'[t].from = ticket[t].from
      /\ ticket'[t].to = ticket[t].to /\ ticket'[t].attached = Sides
      /\ data' = data \cup ({t} \X Sides)
  BY DEF Pair, IInv, TypeOK, Ticket
<1>3. OpenOnes' = OpenOnes
  BY DEF OpenOnes, Open
<1>4. s \notin ticket[t].attached /\ other \in ticket[t].attached
  BY <1>1 DEF IInv, StreamsInv, NoOrphanSocket, Held
<1>5. Attaching' = Attaching \ {<<t, other>>} /\ <<t, other>> \in Attaching
  BY <1>1, <1>2, <1>4 DEF Attaching
<1>6. data' = (data \cup {<<t, s>>}) \cup {<<t, other>>}
  BY <1>1, <1>2
<1>7. IsFiniteSet(OpenOnes) /\ IsFiniteSet(data) /\ IsFiniteSet(Attaching)
  BY DEF LoadInv
<1>8. /\ IsFiniteSet(data') /\ Cardinality(data') \in Nat
      /\ Cardinality(data') <= Cardinality(data) + 2
  <2>1. /\ IsFiniteSet(data \cup {<<t, s>>}) /\ Cardinality(data \cup {<<t, s>>}) \in Nat
        /\ Cardinality(data \cup {<<t, s>>}) <= Cardinality(data) + 1 /\ Cardinality(data) \in Nat
    BY <1>7, OneMore
  <2>2. /\ IsFiniteSet(data') /\ Cardinality(data') \in Nat
        /\ Cardinality(data') <= Cardinality(data \cup {<<t, s>>}) + 1
    BY <1>6, <2>1, OneMore
  <2>3. QED
    BY <2>1, <2>2
<1>9. IsFiniteSet(Attaching') /\ Cardinality(Attaching') = Cardinality(Attaching) - 1
  BY <1>5, <1>7, FS_RemoveElement
<1>10. Cardinality(data) \in Nat /\ Cardinality(Attaching) \in Nat /\ Cardinality(OpenOnes) \in Nat
  BY <1>7, FS_CardinalityType
<1>11. Cardinality(OpenOnes) + Cardinality(data) + Cardinality(Attaching) < MaxConnections
  BY DEF ConnectionCount, OpenOnes
<1>12. Cardinality(OpenOnes') + Cardinality(data') + Cardinality(Attaching') <= MaxConnections
  BY <1>3, <1>8, <1>9, <1>10, <1>11, LimitAssumption
<1>13. ConnectionCount' <= MaxConnections
  BY <1>12 DEF ConnectionCount, OpenOnes
<1>14. ASSUME NEW c \in Connections
       PROVE  /\ IsFiniteSet(TicketsOf(c)') /\ IsFiniteSet(StreamsOf(c)')
              /\ Cardinality(TicketsOf(c)') <= MaxTickets
              /\ Cardinality(TicketsOf(c)') + Cardinality(StreamsOf(c)') < MaxTickets + MaxStreams
  <2>1. /\ IsFiniteSet(TicketsOf(c)) /\ IsFiniteSet(StreamsOf(c))
        /\ Cardinality(TicketsOf(c)) <= MaxTickets
        /\ Cardinality(TicketsOf(c)) + Cardinality(StreamsOf(c)) < MaxTickets + MaxStreams
    BY DEF LoadInv, LoadIsBounded
  <2>2. Cardinality(StreamsOf(c)) \in Nat /\ Cardinality(TicketsOf(c)) \in Nat
    BY <2>1, FS_CardinalityType
  <2>3. CASE EndsAt(t, c)
    <3>1. TicketsOf(c)' = TicketsOf(c) \ {t} /\ t \in TicketsOf(c)
      BY <1>2, <2>3 DEF TicketsOf, EndsAt
    <3>2. StreamsOf(c)' \subseteq StreamsOf(c) \cup {t}
      BY <1>2 DEF StreamsOf, EndsAt
    <3>3. IsFiniteSet(TicketsOf(c)') /\ Cardinality(TicketsOf(c)') = Cardinality(TicketsOf(c)) - 1
      BY <2>1, <3>1, FS_RemoveElement
    <3>4. /\ IsFiniteSet(StreamsOf(c)') /\ Cardinality(StreamsOf(c)') \in Nat
          /\ Cardinality(StreamsOf(c)') <= Cardinality(StreamsOf(c)) + 1
      BY <2>1, <3>2, OneMore
    <3>5. QED
      BY <2>1, <2>2, <3>3, <3>4, LimitAssumption
  <2>4. CASE ~EndsAt(t, c)
    <3>1. TicketsOf(c)' = TicketsOf(c) /\ StreamsOf(c)' = StreamsOf(c)
      BY <1>2, <2>4 DEF TicketsOf, StreamsOf, EndsAt
    <3>2. QED
      BY <2>1, <3>1
  <2>5. QED
    BY <2>3, <2>4
<1>15. QED
  BY <1>3, <1>7, <1>8, <1>9, <1>13, <1>14 DEF LoadInv, LoadIsBounded

LEMMA AttachLoad ==
  ASSUME IInv, LoadInv, NEW t \in Tickets, NEW s \in Sides, Attach(t, s), control' = control,
         ticket[t].phase = "ticket", ConnectionCount < MaxConnections
  PROVE  LoadInv'
<1>1. /\ \A u \in Tickets \ {t} : ticket'[u] = ticket[u]
      /\ ticket'[t].phase = "ticket" /\ ticket'[t].from = ticket[t].from
      /\ ticket'[t].to = ticket[t].to /\ ticket'[t].attached = ticket[t].attached \cup {s}
      /\ data' = data
  BY DEF Attach, IInv, TypeOK, Ticket
<1>2. OpenOnes' = OpenOnes
  BY DEF OpenOnes, Open
<1>3. Attaching' \subseteq Attaching \cup {<<t, s>>}
  BY <1>1 DEF Attaching
<1>4. \A c \in Connections : TicketsOf(c)' \subseteq TicketsOf(c) /\ StreamsOf(c)' \subseteq StreamsOf(c)
  BY <1>1 DEF TicketsOf, StreamsOf, EndsAt
<1>5. IsFiniteSet(OpenOnes) /\ IsFiniteSet(data) /\ IsFiniteSet(Attaching)
  BY DEF LoadInv
<1>6. /\ IsFiniteSet(Attaching') /\ Cardinality(Attaching') \in Nat
      /\ Cardinality(Attaching') <= Cardinality(Attaching) + 1 /\ Cardinality(Attaching) \in Nat
  BY <1>3, <1>5, OneMore
<1>7. Cardinality(data) \in Nat /\ Cardinality(OpenOnes) \in Nat
  BY <1>5, FS_CardinalityType
<1>8. Cardinality(OpenOnes) + Cardinality(data) + Cardinality(Attaching) < MaxConnections
  BY DEF ConnectionCount, OpenOnes
<1>9. Cardinality(OpenOnes') + Cardinality(data') + Cardinality(Attaching') <= MaxConnections
  BY <1>1, <1>2, <1>6, <1>7, <1>8, LimitAssumption
<1>10. ConnectionCount' <= MaxConnections
  BY <1>9 DEF ConnectionCount, OpenOnes
<1>11. QED
  BY <1>1, <1>2, <1>4, <1>5, <1>6, <1>10, ConnectionsBounded

LEMMA AttachDataLoad ==
  ASSUME IInv, LoadInv, NEW t \in Tickets, NEW s \in Sides, AttachDataSocket(t, s)
  PROVE  LoadInv'
<1>1. socket[t][s] = "upgrading" /\ control' = control
  BY DEF AttachDataSocket
<1>2. CASE <<t, s>> \notin reservations \/ ConnectionCount >= MaxConnections
  <2> DEFINE sockets == [socket EXCEPT ![t][s] = "none"]
             S == IF <<t, s>> \in reservations THEN {t} ELSE {}
  <2>1. sockets \in [Tickets -> [Sides -> {"none", "upgrading", "open"}]] /\ S \in SUBSET Tickets
    BY DEF IInv, TypeOK
  <2>2. DropWith(S, sockets)
    BY <1>2 DEF AttachDataSocket
  <2>3. OpenOnes' \subseteq OpenOnes
    BY <1>1 DEF OpenOnes, Open
  <2>4. QED
    BY <2>1, <2>2, <2>3, DropLoad
<1>3. CASE ~(<<t, s>> \notin reservations \/ ConnectionCount >= MaxConnections)
  <2>1. ticket[t].phase = "ticket"
    BY <1>3 DEF IInv, StreamsInv, NoOrphanSocket
  <2>2. ConnectionCount < MaxConnections
    <3>1. IsFiniteSet(OpenOnes) /\ IsFiniteSet(data) /\ IsFiniteSet(Attaching)
      BY DEF LoadInv
    <3>2. ConnectionCount \in Nat
      BY <3>1, FS_CardinalityType DEF ConnectionCount, OpenOnes
    <3>3. QED
      BY <1>3, <3>2, LimitAssumption
  <2>3. IF ticket[t].attached \cup {s} = Sides THEN Pair(t, s) ELSE Attach(t, s)
    BY <1>3 DEF AttachDataSocket
  <2>4. QED
    BY <1>1, <2>1, <2>2, <2>3, PairLoad, AttachLoad
<1>4. QED
  BY <1>2, <1>3

LEMMA ReserveLoad ==
  ASSUME IInv, LoadInv, NEW t \in Tickets, NEW s \in Sides, ReserveDataSocket(t, s)
  PROVE  LoadInv'
<1>1. /\ ticket' = [ticket EXCEPT ![t].unused = @ \ {s}]
      /\ control' = control /\ data' = data
  BY DEF ReserveDataSocket
<1>2. \A u \in Tickets : /\ ticket'[u].phase = ticket[u].phase /\ ticket'[u].from = ticket[u].from
                         /\ ticket'[u].to = ticket[u].to /\ ticket'[u].attached = ticket[u].attached
  BY <1>1 DEF IInv, TypeOK, Ticket
<1>3. OpenOnes' = OpenOnes
  BY <1>1 DEF OpenOnes, Open
<1>4. QED
  BY <1>1, <1>2, <1>3, Shrinks

LEMMA CloseDataLoad ==
  ASSUME IInv, LoadInv, NEW t \in Tickets, NEW s \in Sides, CloseData(t, s)
  PROVE  LoadInv'
<1> DEFINE sockets == [socket EXCEPT ![t][s] = "none"]
           S == IF <<t, s>> \in data \cup reservations THEN {t} ELSE {}
<1>1. sockets \in [Tickets -> [Sides -> {"none", "upgrading", "open"}]] /\ S \in SUBSET Tickets
  BY DEF IInv, TypeOK
<1>2. DropWith(S, sockets) /\ OpenOnes' \subseteq OpenOnes
  BY DEF CloseData, OpenOnes, Open
<1>3. QED
  BY <1>1, <1>2, DropLoad

(* Among the steps of the peers only OpenControl opens a connection. *)
LEMMA PeersLoad ==
  ASSUME IInv, LoadInv, NEW c \in Connections, Peers(c)
  PROVE  LoadInv'
<1>1. CASE OpenControl(c)
  BY <1>1, OpenControlLoad
<1>2. CASE ControlLost(c)
  <2>1. Drop(HeldBy({c})) /\ control' = Closing({c}, control) /\ HeldBy({c}) \in SUBSET Tickets
    BY <1>2 DEF ControlLost, CloseControls, HeldBy
  <2>2. OpenOnes' \subseteq OpenOnes
    BY <2>1 DEF OpenOnes, Open, Closing, Nobody
  <2>3. QED
    BY <2>1, <2>2, GiveUpLoad
<1>3. CASE AuthenticateController(c)
  <2> DEFINE C == {controller} \ {None}
  <2>1. /\ Drop(HeldBy(C)) /\ control[c].state = "open" /\ HeldBy(C) \in SUBSET Tickets
        /\ control' = Closing(C, [control EXCEPT ![c].state = "live", ![c].role = "controller"])
    BY <1>3 DEF AuthenticateController, HeldBy
  <2>2. OpenOnes' \subseteq OpenOnes
    BY <2>1 DEF OpenOnes, Open, Closing, Nobody, IInv, TypeOK, Control
  <2>3. QED
    BY <2>1, <2>2, GiveUpLoad
<1>4. ASSUME NEW n \in Nodes, NEW k \in Keys, AuthenticateWorker(c, n, k)
      PROVE  LoadInv'
  <2> DEFINE new == [state |-> "live", role |-> "worker", node |-> n, key |-> k,
                     status |-> IF authorized[n] = k THEN "authorized" ELSE "pending",
                     staged |-> NoTransaction]
  <2>1. /\ Drop(HeldBy(Replaced(n))) /\ control[c].state = "open"
        /\ HeldBy(Replaced(n)) \in SUBSET Tickets
        /\ control' = Closing(Replaced(n), [control EXCEPT ![c] = new])
    BY <1>4 DEF AuthenticateWorker, HeldBy
  <2>2. OpenOnes' \subseteq OpenOnes
    <3> SUFFICES ASSUME NEW d \in Connections, Open(d)' PROVE Open(d)
      BY DEF OpenOnes
    <3>1. d \notin Replaced(n)
      BY <2>1 DEF Open, Closing, Nobody
    <3>2. control'[d] = IF d = c THEN new ELSE control[d]
      BY <2>1, <3>1 DEF Closing, IInv, TypeOK
    <3>3. QED
      BY <2>1, <3>2 DEF Open
  <2>3. QED
    BY <2>1, <2>2, GiveUpLoad
<1>5. QED
  BY <1>1, <1>2, <1>3, <1>4 DEF Peers

LEMMA AuthorizationLoad ==
  ASSUME IInv, LoadInv, NEW c \in Connections, Authorization(c)
  PROVE  LoadInv'
<1>1. CASE BeginAuthorization(c) \/ StageAuthorization(c) \/ DiscardAuthorization(c)
  <2>1. /\ ticket' = ticket /\ data' = data
        /\ \A d \in Connections : control'[d].state = control[d].state
    <3>1. CASE BeginAuthorization(c)
      BY <3>1 DEF BeginAuthorization, Kept, IInv, TypeOK, Control
    <3>2. CASE StageAuthorization(c)
      BY <3>2 DEF StageAuthorization, Kept, IInv, TypeOK, Control
    <3>3. CASE DiscardAuthorization(c)
      BY <3>3 DEF DiscardAuthorization, Kept, IInv, TypeOK, Control
    <3>4. QED
      BY <1>1, <3>1, <3>2, <3>3
  <2>2. OpenOnes' \subseteq OpenOnes
    BY <2>1 DEF OpenOnes, Open
  <2>3. QED
    BY <2>1, <2>2, KeptLoad
<1>2. CASE CommitAuthorization(c)
  <2> DEFINE C == Revoked(control[c].staged.keys)
             known == {d \in Connections :
                         Worker(d) /\ control[c].staged.keys[control[d].node] = control[d].key}
             settled == [d \in Connections |->
                           IF d = c THEN [control[d] EXCEPT !.staged = NoTransaction]
                           ELSE IF d \in known THEN [control[d] EXCEPT !.status = "authorized"]
                           ELSE control[d]]
  <2>1. control' = Closing(C, settled) /\ Drop(HeldBy(C))
    BY <1>2 DEF CommitAuthorization
  <2>2. \A d \in Connections : settled[d].state = control[d].state
    BY DEF IInv, TypeOK, Control
  <2> HIDE DEF settled
  <2>3. OpenOnes' \subseteq OpenOnes
    BY <2>1, <2>2 DEF OpenOnes, Open, Closing, Nobody
  <2>4. HeldBy(C) \in SUBSET Tickets
    BY DEF HeldBy
  <2>5. QED
    BY <2>1, <2>3, <2>4, GiveUpLoad
<1>3. QED
  BY <1>1, <1>2 DEF Authorization

LEMMA NextLoad == IInv /\ LoadInv /\ [Next]_vars => LoadInv'
<1> SUFFICES ASSUME IInv, LoadInv, [Next]_vars PROVE LoadInv'
  OBVIOUS
<1>1. ASSUME NEW c \in Connections, Peers(c) \/ Authorization(c) PROVE LoadInv'
  BY <1>1, PeersLoad, AuthorizationLoad
<1>2. ASSUME NEW t \in Tickets, Streams(t) \/ TicketExpires(t) PROVE LoadInv'
  <2>1. CASE \E from, to \in Connections : RequestStream(t, from, to)
    BY <2>1, RequestLoad
  <2>2. CASE CancelRequest(t) \/ StreamFails(t) \/ TicketExpires(t)
    <3>1. Drop({t}) /\ control' = control
      BY <2>2 DEF CancelRequest, StreamFails, TicketExpires
    <3>2. OpenOnes' \subseteq OpenOnes
      BY <3>1 DEF OpenOnes, Open
    <3>3. QED
      BY <3>1, <3>2, GiveUpLoad
  <2>3. QED
    BY <1>2, <2>1, <2>2 DEF Streams
<1>3. ASSUME NEW t \in Tickets, NEW s \in Sides, Dial(t, s) \/ AttachDataSocket(t, s) PROVE LoadInv'
  BY <1>3, ReserveLoad, CloseDataLoad, AttachDataLoad DEF Dial
<1>4. CASE Stop
  <2>1. Drop(Tickets) /\ control' = Closing({c \in Connections : Open(c)}, control)
    BY <1>4 DEF Stop
  <2>2. OpenOnes' \subseteq OpenOnes
    BY <2>1 DEF OpenOnes, Open, Closing, Nobody
  <2>3. QED
    BY <2>1, <2>2, GiveUpLoad
<1>5. CASE UNCHANGED vars
  <2>1. ticket' = ticket /\ data' = data /\ control' = control
    BY <1>5 DEF vars
  <2>2. OpenOnes' \subseteq OpenOnes
    BY <2>1 DEF OpenOnes, Open
  <2>3. QED
    BY <2>1, <2>2, KeptLoad
<1>6. QED
  BY <1>1, <1>2, <1>3, <1>4, <1>5 DEF Next

(* The broker's limits hold: no more connections than allowed, and no node *)
(* has more tickets, or tickets and streams together, than two checks made *)
(* at the issue of each ticket let through.                                *)
THEOREM LoadBounded == Spec => []LoadIsBounded
<1>1. LoadInv => LoadIsBounded
  BY DEF LoadInv
<1>2. QED
  BY <1>1, InitLoad, NextLoad, Invariance, PTL DEF Spec

-----------------------------------------------------------------------------
(* Refinement.  With NoOrphanSocket a socket is open exactly where it is   *)
(* attached, so a step of the maps is a step of the ticket.                *)

LEMMA InitPromised == Init => Promised!Init
  BY DEF Init, Promised!Init, Blank

(* What is dropped ends with both its sockets, and nothing else changes. *)
LEMMA DropEnds ==
  ASSUME IInv, NEW S \in SUBSET Tickets,
         NEW sockets \in [Tickets -> [Sides -> {"none", "upgrading", "open"}]], DropWith(S, sockets),
         \A t \in Tickets \ S, s \in Sides : sockets[t][s] = "open" <=> socket[t][s] = "open",
         \A t \in S, s \in Sides : sockets[t][s] = "open" => socket[t][s] = "open"
  PROVE  Promised!Next
<1>0. PICK held \in SUBSET Tickets : held = {t \in S : Held(t)}
  OBVIOUS
<1>1. \A t \in Tickets, s \in Sides : socket[t][s] = "open" <=> Held(t) /\ s \in ticket[t].attached
  BY DEF IInv, StreamsInv, NoOrphanSocket
<1>2. /\ ticket' = [t \in Tickets |-> IF t \in held THEN Gone ELSE ticket[t]]
      /\ socket' = [t \in Tickets |-> [s \in Sides |->
           IF t \in held /\ s \in ticket[t].attached THEN "none" ELSE sockets[t][s]]]
  BY <1>0 DEF DropWith, Shut
<1>3. \A t \in Tickets, s \in Sides :
        socket'[t][s] = "open" <=> t \notin held /\ socket[t][s] = "open"
  <2> SUFFICES ASSUME NEW t \in Tickets, NEW s \in Sides
               PROVE  socket'[t][s] = "open" <=> t \notin held /\ socket[t][s] = "open"
    OBVIOUS
  <2>1. socket'[t][s] = IF t \in held /\ s \in ticket[t].attached THEN "none" ELSE sockets[t][s]
    BY <1>2
  <2>2. CASE t \in held
    BY <1>0, <1>1, <2>1, <2>2
  <2>3. CASE t \in S \ held
    BY <1>0, <1>1, <2>1, <2>3
  <2>4. CASE t \notin S
    BY <1>0, <2>1, <2>4
  <2>5. QED
    BY <2>2, <2>3, <2>4
<1>4. \A t \in Tickets : /\ ticket'[t].phase = IF t \in held THEN "gone" ELSE ticket[t].phase
                         /\ ticket'[t].unused = IF t \in held THEN {} ELSE ticket[t].unused
  BY <1>2 DEF Gone, Blank
<1>5. \A t \in held : ticket[t].phase \in {"ticket", "stream"} /\ t \in Tickets
  BY <1>0 DEF Held
<1>6. Promised!End(held)
  <2>1. \A t \in held : [u \in Tickets |-> ticket[u].phase][t] \in {"ticket", "stream"}
    BY <1>5
  <2>2. [t \in Tickets |-> ticket'[t].phase]
        = [t \in Tickets |-> IF t \in held THEN "gone" ELSE [u \in Tickets |-> ticket[u].phase][t]]
    BY <1>4
  <2>3. [t \in Tickets |-> ticket'[t].unused]
        = [t \in Tickets |-> IF t \in held THEN {} ELSE [u \in Tickets |-> ticket[u].unused][t]]
    BY <1>4
  <2>4. \A t \in Tickets : {s \in Sides : socket'[t][s] = "open"}
                           = IF t \in held THEN {} ELSE {s \in Sides : socket[t][s] = "open"}
    BY <1>3
  <2>5. [t \in Tickets |-> {s \in Sides : socket'[t][s] = "open"}]
        = [t \in Tickets |-> IF t \in held THEN {}
                             ELSE [u \in Tickets |-> {s \in Sides : socket[u][s] = "open"}][t]]
    BY <2>4
  <2>6. QED
    BY <2>1, <2>2, <2>3, <2>5 DEF Promised!End
<1>7. QED
  BY <1>6 DEF Promised!Next

LEMMA DropPromised ==
  ASSUME IInv, NEW S \in SUBSET Tickets, Drop(S)
  PROVE  Promised!Next
  BY DropEnds DEF Drop, IInv, TypeOK

LEMMA ClosePromised ==
  ASSUME IInv, NEW t \in Tickets, NEW s \in Sides, CloseData(t, s)
  PROVE  Promised!Next
<1> DEFINE sockets == [socket EXCEPT ![t][s] = "none"]
           S == IF <<t, s>> \in data \cup reservations THEN {t} ELSE {}
<1>1. sockets \in [Tickets -> [Sides -> {"none", "upgrading", "open"}]] /\ S \in SUBSET Tickets
  BY DEF IInv, TypeOK
<1>2. ASSUME <<t, s>> \notin data \cup reservations PROVE socket[t][s] # "open"
  BY <1>2 DEF IInv, StreamsInv, NoOrphanSocket, TicketsSound, Held, TypeOK, Ticket
<1>3. /\ \A u \in Tickets \ S, r \in Sides : sockets[u][r] = "open" <=> socket[u][r] = "open"
      /\ \A u \in S, r \in Sides : sockets[u][r] = "open" => socket[u][r] = "open"
  BY <1>2 DEF IInv, TypeOK
<1>4. DropWith(S, sockets)
  BY DEF CloseData
<1>5. QED
  BY <1>1, <1>3, <1>4, DropEnds

LEMMA RequestPromised ==
  ASSUME IInv, NEW t \in Tickets, NEW from \in Connections, NEW to \in Connections,
         RequestStream(t, from, to)
  PROVE  Promised!Next
<1>1. /\ ticket[t].phase = "none" /\ socket' = socket
      /\ ticket' = [ticket EXCEPT ![t] = [phase |-> "ticket", from |-> from, to |-> to,
                                          unused |-> Sides, attached |-> {}]]
  BY DEF RequestStream
<1>2. \A u \in Tickets : /\ ticket'[u].phase = IF u = t THEN "ticket" ELSE ticket[u].phase
                         /\ ticket'[u].unused = IF u = t THEN Sides ELSE ticket[u].unused
  BY <1>1 DEF IInv, TypeOK
<1>3. Promised!Issue(t)
  <2>1. [u \in Tickets |-> ticket'[u].phase] = [[u \in Tickets |-> ticket[u].phase] EXCEPT ![t] = "ticket"]
    BY <1>2
  <2>2. [u \in Tickets |-> ticket'[u].unused] = [[u \in Tickets |-> ticket[u].unused] EXCEPT ![t] = Sides]
    BY <1>2
  <2>3. QED
    BY <1>1, <2>1, <2>2 DEF Promised!Issue
<1>4. QED
  BY <1>3 DEF Promised!Next

LEMMA ReservePromised ==
  ASSUME IInv, NEW t \in Tickets, NEW s \in Sides, ReserveDataSocket(t, s)
  PROVE  Promised!Next
<1>1. /\ ticket[t].phase = "ticket" /\ s \in ticket[t].unused
      /\ ticket' = [ticket EXCEPT ![t].unused = @ \ {s}]
      /\ socket' = [socket EXCEPT ![t][s] = "upgrading"]
  BY DEF ReserveDataSocket
<1>2. \A u \in Tickets : /\ ticket'[u].phase = ticket[u].phase
                         /\ ticket'[u].unused = IF u = t THEN ticket[t].unused \ {s}
                                                ELSE ticket[u].unused
  <2>1. ticket[t] \in Ticket /\ ticket'[t] = [ticket[t] EXCEPT !.unused = @ \ {s}]
    BY <1>1 DEF IInv, TypeOK
  <2>2. ticket'[t].phase = ticket[t].phase /\ ticket'[t].unused = ticket[t].unused \ {s}
    BY <2>1 DEF Ticket
  <2>3. QED
    BY <1>1, <2>2 DEF IInv, TypeOK
<1>3. \A u \in Tickets, r \in Sides : socket'[u][r] = "open" <=> socket[u][r] = "open"
  <2>1. socket[t][s] # "open"
    BY <1>1 DEF IInv, StreamsInv, NoOrphanSocket, TicketsSound, Held
  <2>2. QED
    BY <1>1, <2>1 DEF IInv, TypeOK
<1>4. Promised!Redeem(t, s)
  <2>1. [u \in Tickets |-> ticket'[u].phase] = [u \in Tickets |-> ticket[u].phase]
    BY <1>2
  <2>2. [u \in Tickets |-> ticket'[u].unused]
        = [[u \in Tickets |-> ticket[u].unused] EXCEPT ![t] = @ \ {s}]
    BY <1>2
  <2>3. [u \in Tickets |-> {r \in Sides : socket'[u][r] = "open"}]
        = [u \in Tickets |-> {r \in Sides : socket[u][r] = "open"}]
    BY <1>3
  <2>4. QED
    BY <1>1, <2>1, <2>2, <2>3 DEF Promised!Redeem
<1>5. QED
  BY <1>4 DEF Promised!Next

(* The stale reservation of a ticket that is gone opens no socket. *)
LEMMA AttachPromised ==
  ASSUME IInv, NEW t \in Tickets, NEW s \in Sides, AttachDataSocket(t, s)
  PROVE  Promised!Next
<1>1. socket[t][s] = "upgrading"
  BY DEF AttachDataSocket
<1>2. CASE <<t, s>> \notin reservations \/ ConnectionCount >= MaxConnections
  <2> DEFINE sockets == [socket EXCEPT ![t][s] = "none"]
             S == IF <<t, s>> \in reservations THEN {t} ELSE {}
  <2>1. sockets \in [Tickets -> [Sides -> {"none", "upgrading", "open"}]] /\ S \in SUBSET Tickets
    BY DEF IInv, TypeOK
  <2>2. /\ \A u \in Tickets \ S, r \in Sides : sockets[u][r] = "open" <=> socket[u][r] = "open"
        /\ \A u \in S, r \in Sides : sockets[u][r] = "open" => socket[u][r] = "open"
    BY <1>1 DEF IInv, TypeOK
  <2>3. DropWith(S, sockets)
    BY <1>2 DEF AttachDataSocket
  <2>4. QED
    BY <2>1, <2>2, <2>3, DropEnds
<1>3. CASE <<t, s>> \in reservations /\ ~(ConnectionCount >= MaxConnections)
  <2>1. ticket[t].phase = "ticket" /\ Held(t) /\ s \notin ticket[t].unused /\ ticket[t] \in Ticket
    BY <1>3 DEF IInv, TypeOK, StreamsInv, NoOrphanSocket, Held
  <2>2. {r \in Sides : socket[t][r] = "open"} = ticket[t].attached
    BY <2>1 DEF IInv, StreamsInv, NoOrphanSocket, Ticket
  <2>3. /\ socket' = [socket EXCEPT ![t][s] = "open"]
        /\ \A u \in Tickets \ {t} : ticket'[u] = ticket[u]
        /\ ticket'[t].unused = ticket[t].unused
        /\ ticket'[t].phase = IF ticket[t].attached \cup {s} = Sides THEN "stream" ELSE "ticket"
    <3>1. CASE ticket[t].attached \cup {s} = Sides
      <4>1. /\ ticket' = [ticket EXCEPT ![t].phase = "stream", ![t].attached = Sides]
            /\ socket' = [socket EXCEPT ![t][s] = "open"]
        BY <1>3, <3>1 DEF AttachDataSocket, Pair
      <4>2. ticket'[t] = [ticket[t] EXCEPT !.phase = "stream", !.attached = Sides]
        BY <4>1 DEF IInv, TypeOK
      <4>3. ticket'[t].unused = ticket[t].unused /\ ticket'[t].phase = "stream"
        BY <2>1, <4>2 DEF Ticket
      <4>4. QED
        BY <3>1, <4>1, <4>3 DEF IInv, TypeOK
    <3>2. CASE ticket[t].attached \cup {s} # Sides
      <4>1. /\ ticket' = [ticket EXCEPT ![t].attached = @ \cup {s}]
            /\ socket' = [socket EXCEPT ![t][s] = "open"]
        BY <1>3, <3>2 DEF AttachDataSocket, Attach
      <4>2. ticket'[t] = [ticket[t] EXCEPT !.attached = @ \cup {s}]
        BY <4>1 DEF IInv, TypeOK
      <4>3. ticket'[t].unused = ticket[t].unused /\ ticket'[t].phase = "ticket"
        BY <2>1, <4>2 DEF Ticket
      <4>4. QED
        BY <3>2, <4>1, <4>3 DEF IInv, TypeOK
    <3>3. QED
      BY <3>1, <3>2
  <2>4. \A u \in Tickets : {r \in Sides : socket'[u][r] = "open"}
                           = IF u = t THEN {r \in Sides : socket[t][r] = "open"} \cup {s}
                             ELSE {r \in Sides : socket[u][r] = "open"}
    BY <2>3 DEF IInv, TypeOK
  <2>5. Promised!Join(t, s)
    <3>1. [u \in Tickets |-> {r \in Sides : socket'[u][r] = "open"}]
          = [[u \in Tickets |-> {r \in Sides : socket[u][r] = "open"}] EXCEPT ![t] = @ \cup {s}]
      BY <2>4
    <3>2. [u \in Tickets |-> {r \in Sides : socket'[u][r] = "open"}][t] = ticket[t].attached \cup {s}
      BY <2>2, <2>4
    <3>3. [u \in Tickets |-> ticket'[u].phase]
          = [[u \in Tickets |-> ticket[u].phase] EXCEPT ![t] =
               IF [u \in Tickets |-> {r \in Sides : socket'[u][r] = "open"}][t] = Sides
               THEN "stream" ELSE "ticket"]
      BY <2>3, <3>2
    <3>4. [u \in Tickets |-> ticket'[u].unused] = [u \in Tickets |-> ticket[u].unused]
      BY <2>3
    <3>5. s \notin {r \in Sides : socket[t][r] = "open"}
      BY <1>1
    <3>6. QED
      BY <2>1, <3>1, <3>3, <3>4, <3>5 DEF Promised!Join
  <2>6. QED
    BY <2>5 DEF Promised!Next
<1>4. QED
  BY <1>2, <1>3

LEMMA StepPromised == IInv /\ [Next]_vars => [Promised!Next]_(Promised!ticketVars)
<1> SUFFICES ASSUME IInv, [Next]_vars PROVE Promised!Next \/ UNCHANGED Promised!ticketVars
  OBVIOUS
<1>1. ASSUME UNCHANGED <<ticket, socket>> PROVE UNCHANGED Promised!ticketVars
  BY <1>1 DEF Promised!ticketVars
<1>2. ASSUME NEW c \in Connections, Peers(c) PROVE Promised!Next \/ UNCHANGED Promised!ticketVars
  <2>1. ASSUME NEW C \in SUBSET Connections, Drop(HeldBy(C)) PROVE Promised!Next
    BY <2>1, DropPromised DEF HeldBy
  <2>2. CASE OpenControl(c)
    BY <1>1, <2>2 DEF OpenControl, Kept
  <2>3. CASE ControlLost(c)
    BY <2>1, <2>3 DEF ControlLost, CloseControls
  <2>4. CASE AuthenticateController(c)
    <3>1. {controller} \ {None} \in SUBSET Connections
      BY DEF IInv, TypeOK
    <3>2. QED
      BY <2>1, <2>4, <3>1 DEF AuthenticateController
  <2>5. ASSUME NEW n \in Nodes, NEW k \in Keys, AuthenticateWorker(c, n, k) PROVE Promised!Next
    <3>1. Replaced(n) \in SUBSET Connections
      BY DEF IInv, TypeOK, Replaced
    <3>2. QED
      BY <2>1, <2>5, <3>1 DEF AuthenticateWorker
  <2>6. QED
    BY <1>2, <2>2, <2>3, <2>4, <2>5 DEF Peers
<1>3. ASSUME NEW c \in Connections, Authorization(c) PROVE Promised!Next \/ UNCHANGED Promised!ticketVars
  <2>1. CASE BeginAuthorization(c) \/ StageAuthorization(c) \/ DiscardAuthorization(c)
    BY <1>1, <2>1 DEF BeginAuthorization, StageAuthorization, DiscardAuthorization, Kept
  <2>2. CASE CommitAuthorization(c)
    <3>1. Drop(HeldBy(Revoked(control[c].staged.keys)))
      BY <2>2 DEF CommitAuthorization
    <3>2. QED
      BY <3>1, DropPromised DEF HeldBy
  <2>3. QED
    BY <1>3, <2>1, <2>2 DEF Authorization
<1>4. ASSUME NEW t \in Tickets, Streams(t) \/ TicketExpires(t) PROVE Promised!Next
  <2>1. CASE CancelRequest(t) \/ StreamFails(t) \/ TicketExpires(t)
    BY <2>1, DropPromised DEF CancelRequest, StreamFails, TicketExpires
  <2>2. QED
    BY <1>4, <2>1, RequestPromised DEF Streams
<1>5. ASSUME NEW t \in Tickets, NEW s \in Sides, Dial(t, s) \/ AttachDataSocket(t, s) PROVE Promised!Next
  BY <1>5, ReservePromised, ClosePromised, AttachPromised DEF Dial
<1>6. CASE Stop
  BY <1>6, DropPromised DEF Stop
<1>7. CASE UNCHANGED vars
  BY <1>1, <1>7 DEF vars
<1>8. QED
  BY <1>2, <1>3, <1>4, <1>5, <1>6, <1>7 DEF Next

(* A ticket is redeemed once by each side, a stream has both its sockets,  *)
(* and both go together for good, however peers, timers and sockets of the *)
(* broker (mesh-relay-broker.ts) follow one another.                       *)
THEOREM TicketsAreImplemented == Spec => ImplementsTickets
<1>1. Init => Promised!Init
  BY InitPromised
<1>2. IInv /\ [Next]_vars => [Promised!Next]_(Promised!ticketVars)
  BY StepPromised
<1>3. QED
  BY <1>1, <1>2, Invariance, PTL DEF Spec, ImplementsTickets, Promised!Spec

=============================================================================
