------------------------------ MODULE EventStream ------------------------------
(***************************************************************************)
(* The live event stream of the control room, on top of the event log:     *)
(* the broadcast channel of the serving process                            *)
(* (crates/infrastructure/src/telemetry.rs), the route that replays the    *)
(* log and then follows the channel (crates/api/src/routes/stream.rs) and  *)
(* the browser's hook that opens it again (apps/web/src/api/stream.ts).    *)
(***************************************************************************)
EXTENDS EventLog

CONSTANTS
  Server,        \* the process that serves the stream
  Clients,       \* browsers
  PageLimit,     \* events replayed when a stream is opened
  Capacity,      \* events the channel keeps for a slow receiver
  MaxConnects    \* bound: how often a browser connects

ASSUME StreamAssumption ==
  /\ Server \in Servers
  /\ {PageLimit, Capacity} \subseteq Nat \ {0} /\ MaxConnects \in Nat

VARIABLES
  channel,   \* what the serving process has published since it started
  client     \* the connection of each browser

vars == << lines, rest, stored, lock, session, tail, prefix, load, acked, mishaps, spent,
           channel, client >>

\* next is the receiver's position in the channel, got the sequences of the frames that
\* were sent, full says that the replayed page was cut, told that a lag notice was sent.
Offline == [pc |-> "offline", next |-> 1, got |-> {}, full |-> FALSE, told |-> FALSE,
            connects |-> 0]

\* The sequence the browser asks for.  The page starts with 0 and advances it in a handler
\* of unnamed frames only; the server names every frame after its event type.
After == 0

Init == LogInit /\ channel = << >> /\ client = [c \in Clients |-> Offline]

\* publish, after the projection was stored.
Publish(p) ==
  channel' = IF /\ p = Server
                /\ session[p].pc = "appended" /\ session'[p].pc = "ready"
             THEN Append(channel, session[p].event) ELSE channel

Drop(c) == [client[c] EXCEPT !.pc = "offline"]

\* stream_events subscribes first ...
Connect(c) ==
  /\ client[c].pc = "offline"
  /\ client[c].connects < MaxConnects
  /\ client' = [client EXCEPT ![c] =
       [Offline EXCEPT !.pc = "subscribed", !.next = Len(channel) + 1, !.connects = client[c].connects + 1]]
  /\ UNCHANGED channel
  /\ UNCHANGED logVars

\* ... then replays one page of the log, in the order of the log.
PageOf(events) ==
  {events[i].seq : i \in 1..Len(events)} \cap (After + 1)..(After + PageLimit)

\* A load that finds an unterminated line ends in EndLoad; the page is read by the next.
Replay(c) ==
  /\ client[c].pc = "subscribed"
  /\ rest = << >>
  /\ ReadLog(Server)
  /\ LET page == PageOf(Loaded(Server).events)
     IN  client' = [client EXCEPT ![c] =
           IF ChainHolds(Server)
           THEN [@ EXCEPT !.pc = "live", !.got = page, !.full = Cardinality(page) = PageLimit]
           ELSE Drop(c)]
  /\ UNCHANGED channel

\* Mutant: a receiver that fell behind goes on without a notice.
SwallowsLag(c) ==
  /\ client[c].pc = "live"
  /\ client[c].next <= Len(channel)
  /\ LET oldest == Len(channel) - Capacity + 1
         at     == IF client[c].next < oldest THEN oldest ELSE client[c].next
     IN  client' = [client EXCEPT ![c].next = at + 1, ![c].got = @ \cup {channel[at].seq}]
  /\ UNCHANGED channel
  /\ UNCHANGED logVars
\* The channel gives the next event, or an error to a receiver that fell too far behind;
\* the error becomes a notice on the stream.
Receive(c) ==
  /\ client[c].pc = "live"
  /\ client[c].next <= Len(channel)
  /\ LET oldest == Len(channel) - Capacity + 1
         here   == client[c]
         e      == channel[here.next]
     IN  client' = [client EXCEPT ![c] =
           IF here.next < oldest THEN [here EXCEPT !.told = TRUE, !.next = oldest]
           ELSE [here EXCEPT !.next = here.next + 1,
                             !.got = IF e.seq > After THEN here.got \cup {e.seq} ELSE here.got]]
  /\ UNCHANGED channel
  /\ UNCHANGED logVars

\* The connection breaks; the browser connects again from the sequence it has.
Disconnect(c) ==
  /\ client[c].pc # "offline"
  /\ client' = [client EXCEPT ![c] = Drop(c)]
  /\ UNCHANGED channel
  /\ UNCHANGED logVars

\* A killed server takes the channel and the connections with it.
KillProcess(p) ==
  /\ Kill(p)
  /\ channel' = IF p = Server THEN << >> ELSE channel
  /\ client' = [c \in Clients |-> IF p = Server THEN Drop(c) ELSE client[c]]

LogStep(p) == ProcessStep(p) /\ Publish(p) /\ UNCHANGED client

Next ==
  \/ \E p \in Procs : LogStep(p) \/ KillProcess(p)
  \/ \E c \in Clients : Connect(c) \/ Replay(c) \/ Receive(c) \/ Disconnect(c)

Spec == Init /\ [][Next]_vars
=============================================================================
