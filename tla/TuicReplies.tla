----------------------------- MODULE TuicReplies -----------------------------
(***************************************************************************)
(* The UDP sessions of a TuicClient and the way of their replies            *)
(* (proxy/tuic.rs open_udp, TuicUdp, the reader tasks on both sides): the    *)
(* client names a session by a 16-bit counter that wraps around, the server  *)
(* keeps a socket for each name as long as the connection lives, and a reply *)
(* that is too large for a datagram needs a stream, of which the client       *)
(* allows a number and reads none.                                           *)
(*                                                                         *)
(* Datagrams are lost and overtake each other.  What the server does with a  *)
(* packet before it is sent on is TuicUdp's subject.                        *)
(***************************************************************************)
EXTENDS Naturals, Sequences, FiniteSets

CONSTANTS Sessions,    \* TuicUdp sessions, each opened at most once
          Ids,         \* number of association ids (2^16 in the code)
          Room,        \* a session's channel (256 replies in the code)
          Streams,     \* unidirectional streams the client allows (quinn's default: 100)
          MaxPackets,  \* bound: packets
          None

ASSUME IdsAssumption  == Ids \in Nat \ {0}
ASSUME RoomAssumption == Room \in Nat \ {0} /\ Streams \in Nat /\ MaxPackets \in Nat
ASSUME NoneAssumption == None \notin Sessions

Assocs  == 0 .. Ids - 1
Packet  == [from : Sessions, nr : 1 .. MaxPackets]

VARIABLES
  counter,   \* next_assoc
  pc,        \* each session: new, insert, open or dropped
  assoc,     \* its association id
  udp_rx,    \* the session whose channel is filed under an id
  queue,     \* each session's channel
  got,       \* history: what each session has received
  sent,      \* number of packets sent
  toServer, toClient,  \* datagrams on their way: packets, replies
  asked,     \* packets sent on by the server and not answered
  reader,    \* the server's reader of each association: a reply that waits for a stream
  streams    \* streams used

client == <<counter, pc, assoc, udp_rx>>
inbox  == <<queue, got>>
server == <<asked, reader, streams>>
vars   == <<client, inbox, sent, toServer, toClient, server>>

Init ==
  /\ counter = 1 % Ids
  /\ pc = [s \in Sessions |-> "new"] /\ assoc = [s \in Sessions |-> 0]
  /\ udp_rx = [a \in Assocs |-> None]
  /\ queue = [s \in Sessions |-> <<>>] /\ got = [s \in Sessions |-> <<>>]
  /\ sent = 0
  /\ toServer = {} /\ toClient = {} /\ asked = {}
  /\ reader = [a \in Assocs |-> None] /\ streams = 0

-----------------------------------------------------------------------------
(* The client's sessions *)

\* Mutant: the counter is read, and only raised with the insertion.
OpenUncounted(s) ==
  /\ pc[s] = "new"
  /\ assoc' = [assoc EXCEPT ![s] = counter]
  /\ counter' = IF \E t \in Sessions : pc[t] = "insert" THEN (counter + 1) % Ids ELSE counter
  /\ pc' = [pc EXCEPT ![s] = "insert"]
  /\ UNCHANGED <<udp_rx, inbox, sent, toServer, toClient, server>>

\* open_udp: fetch_add, then the insertion under the lock.
Open(s) ==
  /\ pc[s] = "new"
  /\ assoc' = [assoc EXCEPT ![s] = counter] /\ counter' = (counter + 1) % Ids
  /\ pc' = [pc EXCEPT ![s] = "insert"]
  /\ UNCHANGED <<udp_rx, inbox, sent, toServer, toClient, server>>

\* The channel of an older session of that id is replaced.
OpenInsert(s) ==
  /\ pc[s] = "insert"
  /\ udp_rx' = [udp_rx EXCEPT ![assoc[s]] = s]
  /\ pc' = [pc EXCEPT ![s] = "open"]
  /\ UNCHANGED <<counter, assoc, inbox, sent, toServer, toClient, server>>

SendTo(s) ==
  /\ pc[s] = "open" /\ sent < MaxPackets
  /\ sent' = sent + 1
  /\ toServer' = toServer \cup {[from |-> s, nr |-> sent']}
  /\ UNCHANGED <<client, inbox, toClient, server>>

Recv(s) ==
  /\ pc[s] = "open" /\ queue[s] # <<>>
  /\ queue' = [queue EXCEPT ![s] = Tail(@)]
  /\ got' = [got EXCEPT ![s] = Append(@, Head(queue[s]))]
  /\ UNCHANGED <<client, sent, toServer, toClient, server>>

\* Nothing tells the server, nor takes the channel out of the map.
DropSession(s) ==
  /\ pc[s] = "open"
  /\ pc' = [pc EXCEPT ![s] = "dropped"]
  /\ queue' = [queue EXCEPT ![s] = <<>>]
  /\ UNCHANGED <<counter, assoc, udp_rx, got, sent, toServer, toClient, server>>

HasRoom(s) == s # None /\ pc[s] = "open" /\ Len(queue[s]) < Room

\* Mutant: the reader waits for room in a session's channel.
DispatchWaits(r) ==
  LET s == udp_rx[assoc[r.from]]
  IN  /\ r \in toClient
      /\ s # None /\ pc[s] = "open" => HasRoom(s)
      /\ toClient' = toClient \ {r}
      /\ queue' = IF HasRoom(s) THEN [queue EXCEPT ![s] = Append(@, r)] ELSE queue
      /\ UNCHANGED <<client, got, sent, toServer, server>>

\* The reader of datagrams: a reply goes to the session its id is filed under, if that is
\* there and has room, and is dropped otherwise (try_send).
Dispatch(r) ==
  LET s == udp_rx[assoc[r.from]]
  IN  /\ r \in toClient
      /\ toClient' = toClient \ {r}
      /\ queue' = IF HasRoom(s) THEN [queue EXCEPT ![s] = Append(@, r)] ELSE queue
      /\ UNCHANGED <<client, got, sent, toServer, server>>

-----------------------------------------------------------------------------
(* The server *)

\* A packet is sent on from the socket of its association, whose reader is spawned with it.
Relay(p) ==
  /\ p \in toServer
  /\ toServer' = toServer \ {p} /\ asked' = asked \cup {p}
  /\ UNCHANGED <<client, inbox, sent, toClient, reader, streams>>

\* The reader of the association receives the answer and sends it as a datagram.
ReadSmall(p) ==
  /\ p \in asked /\ reader[assoc[p.from]] = None
  /\ asked' = asked \ {p} /\ toClient' = toClient \cup {p}
  /\ UNCHANGED <<client, inbox, sent, toServer, reader, streams>>

\* One that is larger than a datagram may be: send_udp_uni awaits a stream.
ReadLarge(p) ==
  /\ p \in asked /\ reader[assoc[p.from]] = None
  /\ asked' = asked \ {p} /\ reader' = [reader EXCEPT ![assoc[p.from]] = p]
  /\ UNCHANGED <<client, inbox, sent, toServer, toClient, streams>>

\* The stream is opened, written and finished; the client never accepts it.
SendUni(a) ==
  /\ reader[a] # None /\ streams < Streams
  /\ reader' = [reader EXCEPT ![a] = None] /\ streams' = streams + 1
  /\ UNCHANGED <<client, inbox, sent, toServer, toClient, asked>>

\* The network loses a datagram.
Lose ==
  /\ \/ \E p \in toServer : toServer' = toServer \ {p} /\ UNCHANGED toClient
     \/ \E p \in toClient : toClient' = toClient \ {p} /\ UNCHANGED toServer
  /\ UNCHANGED <<client, inbox, sent, server>>

Next ==
  \/ \E s \in Sessions : Open(s) \/ OpenInsert(s) \/ SendTo(s) \/ Recv(s) \/ DropSession(s)
  \/ \E p \in Packet : Relay(p) \/ ReadSmall(p) \/ ReadLarge(p) \/ Dispatch(p)
  \/ \E a \in Assocs : SendUni(a)
  \/ Lose

\* The reader tasks run.  Sessions need not receive, upstreams need not answer.
Fairness ==
  /\ WF_vars(\E p \in Packet : Dispatch(p))
  /\ \A a \in Assocs : WF_vars(SendUni(a))

Spec == Init /\ [][Next]_vars /\ Fairness

-----------------------------------------------------------------------------

Opened == {s \in Sessions : pc[s] # "new"}

Received(s) == {got[s][i] : i \in DOMAIN got[s]} \cup {queue[s][i] : i \in DOMAIN queue[s]}

\* A session receives the answers to its own packets, however sessions are opened at the
\* same time and dropped, and datagrams are late, until the counter has gone round (after
\* that an answer may reach the next session of the id, but no other).
OwnReplies ==
  \A s \in Sessions : \A r \in Received(s) :
    /\ assoc[r.from] = assoc[s]
    /\ r.from # s => Cardinality(Opened) > Ids

\* Nobody holds up anybody: the client's reader disposes of every datagram that arrives,
\* although a session is full, closed or replaced and nobody receives anything; and a
\* server's reader returns to its socket after a reply too large for a datagram, although
\* nobody reads streams, until those the client allows are used up.
NoneHeldUp ==
  []<>(toClient = {} /\ \A a \in Assocs : reader[a] # None => streams = Streams)
=============================================================================
