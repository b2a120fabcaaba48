------------------------------- MODULE TuicUdp -------------------------------
(***************************************************************************)
(* The UDP relay of one authenticated TUIC connection (proxy/tuic.rs       *)
(* relay_udp, ensure_session, spawn_udp_reader, and the packets and        *)
(* dissociations the two accept loops hand to them): sockets by            *)
(* association, and packets that arrive in fragments.                      *)
(*                                                                         *)
(* A fragment is a packet and a position in it.  Fragments arrive in any   *)
(* order, on streams or as datagrams, once or never.                       *)
(***************************************************************************)
EXTENDS Naturals, Sequences, FiniteSets

CONSTANTS Assocs,           \* association ids
          Packets,
          AssocOf, PktId, Fragments,  \* of each packet: ids and number of fragments
          Unresolvable,     \* packets whose address does not resolve
          MaxDissociations, \* bound, for each association
          None

ASSUME PacketsAssumption == /\ AssocOf \in [Packets -> Assocs]
                            /\ PktId \in [Packets -> Nat]
                            /\ Fragments \in [Packets -> 1 .. 255]
\* A client does not use the id of a packet that it sends in fragments for another one.
ASSUME IdsAssumption ==
  \A p, q \in {r \in Packets : Fragments[r] > 1} :
    AssocOf[p] = AssocOf[q] /\ PktId[p] = PktId[q] => p = q
ASSUME SocketAssumption  == None \notin Nat

Loops == {"uni", "dg"}

Fragment == UNION {{[pkt |-> p, id |-> i] : i \in 0 .. Fragments[p] - 1} : p \in Packets}

VARIABLES
  coming,        \* fragments that have not arrived
  sessions,      \* the socket of each association
  readers,       \* history of spawn_udp_reader: the association of each socket, none of
                 \* which is closed before the program ends
  lists,         \* the FragmentMap
  pc, cur, sock, ready,  \* of each loop: position, fragment, socket, data to be sent
  out,           \* history: what has been sent, and from which socket
  dissociated,   \* history: dissociations of each association
  lost           \* history: packets a fragment of which was dropped

vars == <<coming, sessions, readers, lists, pc, cur, sock, ready, out, dissociated, lost>>

Keys == Assocs \X {PktId[p] : p \in Packets}

Init ==
  /\ coming = Fragment
  /\ sessions = [a \in Assocs |-> None] /\ readers = <<>>
  /\ lists = [k \in Keys |-> <<>>]
  /\ pc = [l \in Loops |-> "accept"] /\ cur = [l \in Loops |-> None]
  /\ sock = [l \in Loops |-> None] /\ ready = [l \in Loops |-> <<>>]
  /\ out = <<>> /\ dissociated = [a \in Assocs |-> 0] /\ lost = {}

Goto(l, label) == pc' = [pc EXCEPT ![l] = label]

Assoc(l) == AssocOf[cur[l].pkt]
Key(f)   == <<AssocOf[f.pkt], PktId[f.pkt]>>

-----------------------------------------------------------------------------

\* A loop accepts a packet and parses it.
Packet(l) ==
  /\ pc[l] = "accept"
  /\ \E f \in coming : cur' = [cur EXCEPT ![l] = f] /\ coming' = coming \ {f}
  /\ Goto(l, "lookup")
  /\ UNCHANGED <<sessions, readers, lists, sock, ready, out, dissociated, lost>>

\* Or a dissociation: the map lets go of the socket, its reader does not.
Dissociate(l) ==
  /\ pc[l] = "accept"
  /\ \E a \in Assocs :
       /\ dissociated[a] < MaxDissociations
       /\ sessions' = [sessions EXCEPT ![a] = None]
       /\ dissociated' = [dissociated EXCEPT ![a] = @ + 1]
  /\ UNCHANGED <<coming, readers, lists, pc, cur, sock, ready, out, lost>>

\* ensure_session, the first time under the lock.
Lookup(l) ==
  /\ pc[l] = "lookup"
  /\ \/ /\ sessions[Assoc(l)] # None
        /\ sock' = [sock EXCEPT ![l] = sessions[Assoc(l)]]
        /\ Goto(l, "relay")
     \/ sessions[Assoc(l)] = None /\ Goto(l, "bind") /\ UNCHANGED sock
  /\ UNCHANGED <<coming, sessions, readers, lists, cur, ready, out, dissociated, lost>>

BindFails(l) ==
  /\ pc[l] = "bind"
  /\ lost' = lost \cup {cur[l].pkt}
  /\ Goto(l, "accept")
  /\ UNCHANGED <<coming, sessions, readers, lists, cur, sock, ready, out, dissociated>>

\* Mutant: the map is not looked at again.
InsertBlindly(l) ==
  LET n == Len(readers) + 1
  IN  /\ pc[l] = "bind"
      /\ sessions' = [sessions EXCEPT ![Assoc(l)] = n]
      /\ readers' = Append(readers, Assoc(l))
      /\ sock' = [sock EXCEPT ![l] = n]
      /\ Goto(l, "relay")
      /\ UNCHANGED <<coming, lists, cur, ready, out, dissociated, lost>>

\* A socket has been bound; the second time under the lock.  If the other loop was
\* faster the socket is dropped.
Insert(l) ==
  LET n == Len(readers) + 1
  IN  /\ pc[l] = "bind"
      /\ \/ /\ sessions[Assoc(l)] # None
            /\ sock' = [sock EXCEPT ![l] = sessions[Assoc(l)]]
            /\ UNCHANGED <<sessions, readers>>
         \/ /\ sessions[Assoc(l)] = None
            /\ sessions' = [sessions EXCEPT ![Assoc(l)] = n]
            /\ readers' = Append(readers, Assoc(l))
            /\ sock' = [sock EXCEPT ![l] = n]
      /\ Goto(l, "relay")
      /\ UNCHANGED <<coming, lists, cur, ready, out, dissociated, lost>>

\* list.sort_by_key by the positions of the fragments, which keeps the order of equals.
SortById(list) ==
  LET I            == DOMAIN list
      Before(i, j) == list[i].id < list[j].id \/ (list[i].id = list[j].id /\ i < j)
      order        == CHOOSE o \in [I -> I] : \A i, j \in I : i < j => Before(o[i], o[j])
  IN  [i \in I |-> list[order[i]]]

\* A packet in one piece.
RelayWhole(l) ==
  /\ pc[l] = "relay" /\ Fragments[cur[l].pkt] = 1
  /\ ready' = [ready EXCEPT ![l] = <<cur[l]>>]
  /\ Goto(l, "send")
  /\ UNCHANGED <<coming, sessions, readers, lists, cur, sock, out, dissociated, lost>>

\* Mutant: fragments are joined in the order of their arrival.
JoinArrived(l) ==
  LET k    == Key(cur[l])
      list == Append(lists[k], cur[l])
  IN  /\ pc[l] = "relay" /\ Fragments[cur[l].pkt] > 1
      /\ IF Len(list) = Fragments[cur[l].pkt]
         THEN /\ ready' = [ready EXCEPT ![l] = list]
              /\ lists' = [lists EXCEPT ![k] = <<>>] /\ Goto(l, "send")
         ELSE lists' = [lists EXCEPT ![k] = list] /\ Goto(l, "accept") /\ UNCHANGED ready
      /\ UNCHANGED <<coming, sessions, readers, cur, sock, out, dissociated, lost>>

\* Mutant: the last fragment completes the packet.
JoinAtLast(l) ==
  LET k    == Key(cur[l])
      list == Append(lists[k], cur[l])
  IN  /\ pc[l] = "relay" /\ Fragments[cur[l].pkt] > 1
      /\ IF cur[l].id = Fragments[cur[l].pkt] - 1
         THEN /\ ready' = [ready EXCEPT ![l] = SortById(list)]
              /\ lists' = [lists EXCEPT ![k] = <<>>] /\ Goto(l, "send")
         ELSE lists' = [lists EXCEPT ![k] = list] /\ Goto(l, "accept") /\ UNCHANGED ready
      /\ UNCHANGED <<coming, sessions, readers, cur, sock, out, dissociated, lost>>

\* Reassembly, under the lock of the FragmentMap: the fragment that makes the list as
\* long as the packet is long completes it.
Join(l) ==
  LET k    == Key(cur[l])
      list == Append(lists[k], cur[l])
  IN  /\ pc[l] = "relay" /\ Fragments[cur[l].pkt] > 1
      /\ IF Len(list) = Fragments[cur[l].pkt]
         THEN /\ ready' = [ready EXCEPT ![l] = SortById(list)]
              /\ lists' = [lists EXCEPT ![k] = <<>>] /\ Goto(l, "send")
         ELSE lists' = [lists EXCEPT ![k] = list] /\ Goto(l, "accept") /\ UNCHANGED ready
      /\ UNCHANGED <<coming, sessions, readers, cur, sock, out, dissociated, lost>>

\* Resolve and send_to; an address that does not resolve drops the packet.
Send(l) ==
  /\ pc[l] = "send"
  /\ out' = IF cur[l].pkt \in Unresolvable THEN out
            ELSE Append(out, [sock |-> sock[l], data |-> ready[l]])
  /\ Goto(l, "accept")
  /\ UNCHANGED <<coming, sessions, readers, lists, cur, sock, ready, dissociated, lost>>

Step(l) ==
  \/ Packet(l) \/ Dissociate(l) \/ Lookup(l) \/ BindFails(l) \/ Insert(l)
  \/ RelayWhole(l) \/ Join(l) \/ Send(l)

Next == \E l \in Loops : Step(l)

Spec == Init /\ [][Next]_vars

-----------------------------------------------------------------------------

\* All the fragments of a packet, in order.
Whole(p) == [i \in 1 .. Fragments[p] |-> [pkt |-> p, id |-> i - 1]]

\* What is sent is one packet, whole and in order, from a socket of its association,
\* however its fragments and those of other packets arrive on the two loops (relay_udp).
SentWhole ==
  \A i \in DOMAIN out :
    \E p \in Packets : out[i].data = Whole(p) /\ readers[out[i].sock] = AssocOf[p]

Settled == \A l \in Loops : pc[l] = "accept"

Arrived(p) == p \notin lost /\ \A f \in coming : f.pkt # p

\* A packet of which every fragment has arrived has been sent, once, and what is kept
\* in the FragmentMap belongs to packets that are still incomplete (relay_udp).
SentOnce ==
  Settled => \A p \in Packets :
    Arrived(p) =>
      /\ Cardinality({i \in DOMAIN out : out[i].data[1].pkt = p})
           = IF p \in Unresolvable THEN 0 ELSE 1
      /\ \A i \in DOMAIN lists[<<AssocOf[p], PktId[p]>>] :
           lists[<<AssocOf[p], PktId[p]>>][i].pkt # p

\* Two loops that miss the session at the same time do not both spawn a reader: an
\* association costs one socket, and one more for each dissociation (ensure_session).
SocketsAccounted ==
  \A a \in Assocs :
    Cardinality({n \in DOMAIN readers : readers[n] = a}) <= 1 + dissociated[a]
=============================================================================
