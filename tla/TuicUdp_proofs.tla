---------------------------- MODULE TuicUdp_proofs ----------------------------
(***************************************************************************)
(* The UDP relay of a TUIC connection, for any packets, fragments and      *)
(* associations, in any order on the two loops: what is sent is whole, and *)
(* from its association's socket, and once; and sockets are accounted for. *)
(* Then the way back, which TuicReplies models.                            *)
(***************************************************************************)
EXTENDS TuicUdp, FiniteSetTheorems, TLAPS

FragmentsOf(p) == {f \in Fragment : f.pkt = p}

Data == Seq(Fragment)

TypeOK ==
  /\ coming \subseteq Fragment
  /\ sessions \in [Assocs -> Nat \cup {None}] /\ readers \in Seq(Assocs)
  /\ lists \in [Keys -> Data]
  /\ pc \in [Loops -> {"accept", "lookup", "bind", "relay", "send"}]
  /\ cur \in [Loops -> Fragment \cup {None}] /\ \A l \in Loops : pc[l] # "accept" => cur[l] \in Fragment
  /\ sock \in [Loops -> Nat \cup {None}] /\ ready \in [Loops -> Data]
  /\ out \in Seq([sock : Nat \cup {None}, data : Data])
  /\ dissociated \in [Assocs -> Nat] /\ lost \subseteq Packets

\* A socket is of the association it is kept under, or used for.
SocketsOwned ==
  /\ \A a \in Assocs : sessions[a] # None =>
       sessions[a] \in DOMAIN readers /\ readers[sessions[a]] = a
  /\ \A l \in Loops : pc[l] \in {"relay", "send"} =>
       sock[l] \in DOMAIN readers /\ readers[sock[l]] = Assoc(l)

Sockets(a) == {n \in DOMAIN readers : readers[n] = a}

\* An association that has no session has paid for its sockets with dissociations.
SocketsPaid ==
  \A a \in Assocs :
    Cardinality(Sockets(a)) <= dissociated[a] + (IF sessions[a] = None THEN 0 ELSE 1)

\* A loop has a fragment in hand that it has neither listed nor joined.
Held(l) == pc[l] \in {"lookup", "bind", "relay"}

Listed(f) == \E k \in Keys : \E i \in DOMAIN lists[k] : lists[k][i] = f

\* A fragment is in one place: coming, in the hand of a loop, or listed.
OnePlace ==
  /\ \A l \in Loops : Held(l) => cur[l] \notin coming /\ ~Listed(cur[l])
  /\ \A l, m \in Loops : Held(l) /\ Held(m) /\ l # m => cur[l] # cur[m]
  /\ \A f \in coming : ~Listed(f)

\* A list has different fragments of its key, and fewer than their packet has.
ListsPartial ==
  \A k \in Keys :
    /\ \A i \in DOMAIN lists[k] :
         /\ Key(lists[k][i]) = k
         /\ 1 < Fragments[lists[k][i].pkt] /\ Len(lists[k]) < Fragments[lists[k][i].pkt]
    /\ \A i, j \in DOMAIN lists[k] : lists[k][i] = lists[k][j] => i = j

ReadyWhole == \A l \in Loops : pc[l] = "send" => ready[l] = Whole(cur[l].pkt)

OutWhole ==
  \A i \in DOMAIN out :
    \E p \in Packets : /\ out[i].data = Whole(p)
                       /\ out[i].sock \in DOMAIN readers /\ readers[out[i].sock] = AssocOf[p]

IInv ==
  /\ TypeOK /\ SocketsOwned /\ SocketsPaid
  /\ OnePlace /\ ListsPartial /\ ReadyWhole /\ OutWhole

Live(f) == f \in coming \/ Listed(f) \/ \E l \in Loops : Held(l) /\ cur[l] = f

SentOf(p)     == {i \in DOMAIN out : out[i].data[1].pkt = p}
Sending(l, p) == pc[l] = "send" /\ cur[l].pkt = p

\* Nothing of a packet has been sent, and all of it is still somewhere.
Pending(p) ==
  /\ SentOf(p) = {} /\ \A l \in Loops : ~Sending(l, p)
  /\ p \notin lost => \A f \in FragmentsOf(p) : Live(f)

\* A loop is about to send it, or it has been sent, and no fragment is left.
Joined(p) ==
  /\ \A f \in FragmentsOf(p) : ~Live(f)
  /\ \A l, m \in Loops : Sending(l, p) /\ Sending(m, p) => l = m
  /\ IF (\E l \in Loops : Sending(l, p)) \/ p \in Unresolvable
     THEN SentOf(p) = {}
     ELSE \E i \in DOMAIN out : SentOf(p) = {i}

Accounted == \A p \in Packets : Pending(p) \/ Joined(p)

-----------------------------------------------------------------------------
(* Fragments, and the list that is sorted *)

LEMMA FragmentParts ==
  ASSUME NEW f \in Fragment
  PROVE  /\ f.pkt \in Packets /\ f.id \in 0 .. Fragments[f.pkt] - 1
         /\ f = [pkt |-> f.pkt, id |-> f.id]
  BY DEF Fragment

LEMMA FragmentMade ==
  ASSUME NEW p \in Packets, NEW i \in 0 .. Fragments[p] - 1
  PROVE  [pkt |-> p, id |-> i] \in FragmentsOf(p)
  BY DEF Fragment, FragmentsOf

\* A set of numbers that is not empty has a least one.
LEMMA LeastNumber ==
  ASSUME NEW S \in SUBSET Nat, S # {}
  PROVE  \E i \in S : \A j \in S : i <= j
<1> DEFINE Less == OpToRel(<, Nat)
<1>1. \A i, j \in S : j < i => <<j, i>> \in Less
  BY DEF OpToRel
<1>2. IsWellFoundedOn(Less, Nat)
  BY NatLessThanWellFounded
<1> HIDE DEF Less
<1>3. PICK i \in S : \A j \in S : ~(<<j, i>> \in Less)
  BY <1>2, WFMin
<1>4. \A j \in S : ~(j < i)
  BY <1>1, <1>3
<1>5. \A j \in S : j \in Nat /\ i \in Nat
  OBVIOUS
<1> QED
  BY <1>4, <1>5

\* A map of an initial segment to itself that increases is the identity.
LEMMA IncreasingIsIdentity ==
  ASSUME NEW n \in Nat, NEW g \in [1 .. n -> 1 .. n],
         \A i, j \in 1 .. n : i < j => g[i] < g[j]
  PROVE  \A i \in 1 .. n : g[i] = i
<1>0. \A v \in 1 .. n : \E i \in 1 .. n : g[i] = v
  <2>1. ASSUME NEW i \in 1 .. n, NEW j \in 1 .. n, g[i] = g[j]
        PROVE  i = j
    <3>1. i \in Nat /\ j \in Nat /\ g[i] \in Nat
      OBVIOUS
    <3>2. ~(i < j) /\ ~(j < i)
      BY <2>1, <3>1
    <3> QED
      BY <3>1, <3>2
  <2>2. g \in Injection(1 .. n, 1 .. n)
    BY <2>1 DEF Injection, IsInjective
  <2>3. IsFiniteSet(1 .. n)
    BY FS_Interval
  <2>4. g \in Surjection(1 .. n, 1 .. n)
    BY <2>2, <2>3, FS_Injection
  <2> QED
    BY <2>4 DEF Surjection
<1> DEFINE Moved == {i \in 1 .. n : g[i] # i}
<1> SUFFICES ASSUME Moved # {}
             PROVE  FALSE
  OBVIOUS
<1>1. PICK i \in Moved : \A j \in Moved : i <= j
  <2>1. Moved \in SUBSET Nat
    OBVIOUS
  <2> HIDE DEF Moved
  <2> QED
    BY <2>1, LeastNumber
<1>2. i \in 1 .. n /\ g[i] # i
  BY <1>1
<1>3. \A j \in 1 .. n : j < i => g[j] = j
  BY <1>1
<1> HIDE DEF Moved
<1>4. g[i] \in 1 .. n /\ i \in Nat /\ g[i] \in Nat
  BY <1>2
<1>5. PICK j \in 1 .. n : g[j] = i
  BY <1>0, <1>2
\* What stays behind i stays where it is, so i moves up and leaves nobody at its place.
<1>6. ~(g[i] < i)
  <2>1. g[i] < i => g[g[i]] = g[i] /\ g[g[i]] < g[i]
    BY <1>2, <1>3, <1>4
  <2> QED
    BY <1>4, <2>1
<1>7. i < j
  <2>1. j # i
    BY <1>2, <1>5
  <2>2. ~(j < i)
    BY <1>3, <1>5, <2>1
  <2> QED
    BY <1>4, <2>1, <2>2
<1>8. g[i] < i
  BY <1>2, <1>5, <1>7
<1> QED
  BY <1>6, <1>8

\* As many different fragments as a packet has are all its fragments.
LEMMA AllFragments ==
  ASSUME NEW p \in Packets, NEW list \in Seq(FragmentsOf(p)), Len(list) = Fragments[p],
         \A i, j \in DOMAIN list : list[i] = list[j] => i = j
  PROVE  \A f \in FragmentsOf(p) : \E i \in DOMAIN list : list[i] = f
<1> DEFINE n == Fragments[p]
           pos == [i \in 1 .. n |-> list[i].id]
<1>1. n \in 1 .. 255
  BY PacketsAssumption
<1>2. DOMAIN list = 1 .. n /\ \A i \in 1 .. n : list[i] \in FragmentsOf(p)
  <2> DEFINE S == FragmentsOf(p)
  <2>1. list \in Seq(S) /\ Len(list) = n
    OBVIOUS
  <2> HIDE DEF S, n
  <2>2. DOMAIN list = 1 .. n /\ \A i \in 1 .. n : list[i] \in S
    BY <2>1
  <2> QED
    BY <2>2 DEF S
<1>3. \A f \in FragmentsOf(p) : f.id \in 0 .. n - 1 /\ f = [pkt |-> p, id |-> f.id]
  BY FragmentParts DEF FragmentsOf
<1>4. pos \in [1 .. n -> 0 .. n - 1] /\ \A i \in 1 .. n : list[i] = [pkt |-> p, id |-> pos[i]]
  BY <1>2, <1>3
<1>5. pos \in Injection(1 .. n, 0 .. n - 1)
  <2>1. ASSUME NEW i \in 1 .. n, NEW j \in 1 .. n, pos[i] = pos[j]
        PROVE  i = j
    <3> HIDE DEF pos
    <3>1. list[i] = list[j]
      BY <1>4, <2>1
    <3> QED
      BY <1>2, <3>1
  <2> QED
    BY <1>4, <2>1 DEF Injection, IsInjective
<1> HIDE DEF n, pos
<1>6. /\ IsFiniteSet(0 .. n - 1) /\ Cardinality(0 .. n - 1) = n
      /\ Cardinality(1 .. n) = n
  <2>1. 0 \in Int /\ 1 \in Int /\ n \in Int /\ n - 1 \in Int
    BY <1>1
  <2>2. /\ IsFiniteSet(0 .. n - 1) /\ Cardinality(0 .. n - 1) = IF 0 > n - 1 THEN 0 ELSE n - 1 - 0 + 1
        /\ Cardinality(1 .. n) = IF 1 > n THEN 0 ELSE n - 1 + 1
    BY <2>1, FS_Interval
  <2> QED
    BY <1>1, <2>2
<1>7. pos \in Surjection(1 .. n, 0 .. n - 1)
  BY <1>5, <1>6, FS_Injection
<1> QED
  BY <1>2, <1>3, <1>4, <1>7 DEF Surjection

\* Sorting them puts the packet together.
LEMMA SortedIsWhole ==
  ASSUME NEW p \in Packets, NEW list \in Seq(FragmentsOf(p)), Len(list) = Fragments[p],
         \A i, j \in DOMAIN list : list[i] = list[j] => i = j
  PROVE  SortById(list) = Whole(p)
<1> DEFINE n == Fragments[p]
           I == DOMAIN list
           Before(i, j) == list[i].id < list[j].id \/ (list[i].id = list[j].id /\ i < j)
           Orders(o) == \A i, j \in I : i < j => Before(o[i], o[j])
           order == CHOOSE o \in [I -> I] : Orders(o)
<1>1. n \in Nat /\ I = 1 .. n /\ \A i \in I : list[i] \in FragmentsOf(p)
  <2> DEFINE S == FragmentsOf(p)
  <2>1. list \in Seq(S) /\ Len(list) = n
    OBVIOUS
  <2> HIDE DEF S, n
  <2>2. DOMAIN list = 1 .. n /\ \A i \in DOMAIN list : list[i] \in S
    BY <2>1
  <2>3. n \in Nat
    BY PacketsAssumption DEF n
  <2> QED
    BY <2>2, <2>3 DEF S
<1>2. \A f \in FragmentsOf(p) : f.id \in 0 .. n - 1 /\ f = [pkt |-> p, id |-> f.id]
  BY FragmentParts DEF FragmentsOf
<1>3. \A i \in I : list[i].id \in 0 .. n - 1 /\ list[i] = [pkt |-> p, id |-> list[i].id]
  BY <1>1, <1>2
<1>3a. (\A i \in I : i \in Nat) /\ \A i \in I : list[i].id \in Nat
  <2> HIDE DEF n
  <2> QED
    BY <1>1, <1>3
<1>4. \A i, j \in I : list[i].id = list[j].id => i = j
  <2>1. \A i, j \in I : list[i].id = list[j].id => list[i] = list[j]
    BY <1>3
  <2> QED
    BY <2>1
\* Some order sorts the list: that of the packet.
<1>5. \E o \in [I -> I] : Orders(o)
  <2>1. \A k \in I : \E i \in I : list[i].id = k - 1
    <3>1. ASSUME NEW k \in I PROVE \E i \in I : list[i].id = k - 1
      <4>1. k - 1 \in 0 .. n - 1
        BY <1>1
      <4>2. [pkt |-> p, id |-> k - 1] \in FragmentsOf(p)
        BY <4>1, FragmentMade
      <4>3. PICK i \in I : list[i] = [pkt |-> p, id |-> k - 1]
        BY <4>2, AllFragments
      <4> QED
        BY <4>3
    <3> QED
      BY <3>1
  <2> DEFINE o == [k \in I |-> CHOOSE i \in I : list[i].id = k - 1]
  <2>2. o \in [I -> I] /\ \A k \in I : list[o[k]].id = k - 1
    BY <2>1
  <2> HIDE DEF o
  <2>3. ASSUME NEW i \in I, NEW j \in I, i < j
        PROVE  list[o[i]].id < list[o[j]].id
    <3>1. i \in Nat /\ j \in Nat
      BY <1>1
    <3>2. i - 1 < j - 1
      BY <2>3, <3>1
    <3> QED
      BY <2>2, <3>2
  <2> QED
    BY <2>2, <2>3
<1>6. order \in [I -> I] /\ Orders(order)
  BY <1>5
<1>7. \A i \in I : SortById(list)[i] = list[order[i]]
  BY DEF SortById
<1> HIDE DEF order
\* It takes the fragment at i - 1 to i.
<1> DEFINE g == [i \in 1 .. n |-> list[order[i]].id + 1]
<1>8. g \in [1 .. n -> 1 .. n]
  <2>1. ASSUME NEW i \in 1 .. n PROVE list[order[i]].id + 1 \in 1 .. n
    <3>1. list[order[i]].id \in 0 .. n - 1
      BY <1>1, <1>3, <1>6
    <3> HIDE DEF n
    <3> QED
      BY <3>1, <1>1
  <2> QED
    BY <2>1
<1>9. \A i, j \in 1 .. n : i < j => g[i] < g[j]
  <2>1. ASSUME NEW i \in I, NEW j \in I, i < j
        PROVE  list[order[i]].id + 1 < list[order[j]].id + 1
    <3>1. order[i] \in I /\ order[j] \in I /\ Before(order[i], order[j])
      BY <1>6, <2>1
    <3>2. order[i] \in Nat /\ list[order[i]].id \in Nat /\ list[order[j]].id \in Nat
      BY <1>3a, <3>1
    <3>3. list[order[i]].id # list[order[j]].id
      BY <1>4, <3>1, <3>2
    <3>4. list[order[i]].id < list[order[j]].id
      BY <3>1, <3>3
    <3> HIDE DEF I, n, Orders, Before
    <3> QED
      BY <3>2, <3>4
  <2> QED
    BY <1>1, <2>1
<1>10. \A i \in 1 .. n : g[i] = i
  <2> HIDE DEF g, n
  <2> QED
    BY <1>1, <1>8, <1>9, IncreasingIsIdentity
<1>11. ASSUME NEW i \in 1 .. n
       PROVE  list[order[i]] = [pkt |-> p, id |-> i - 1]
  <2>0. i \in I /\ order[i] \in I
    BY <1>1, <1>6
  <2>1. list[order[i]].id \in Nat /\ list[order[i]].id + 1 = i
    BY <2>0, <1>3a, <1>10
  <2>2. list[order[i]].id = i - 1
    BY <2>1
  <2> QED
    BY <1>1, <1>3, <1>6, <2>2
<1>12. SortById(list) = [i \in I |-> list[order[i]]]
  BY DEF SortById, order
<1> QED
  BY <1>1, <1>11, <1>12 DEF Whole

-----------------------------------------------------------------------------
(* The fragment in hand, its key and its list *)

LEMMA InHand ==
  ASSUME TypeOK, NEW l \in Loops, pc[l] # "accept"
  PROVE  /\ cur[l] \in Fragment /\ cur[l].pkt \in Packets
         /\ Assoc(l) \in Assocs /\ Assoc(l) = AssocOf[cur[l].pkt]
         /\ Key(cur[l]) \in Keys
<1>1. cur[l] \in Fragment /\ cur[l].pkt \in Packets
  BY FragmentParts DEF TypeOK
<1> QED
  BY <1>1, PacketsAssumption DEF Assoc, Key, Keys

\* Appending to a list.
LEMMA Appended ==
  ASSUME NEW S, NEW list \in Seq(S), NEW f \in S
  PROVE  /\ Append(list, f) \in Seq(S) /\ Len(Append(list, f)) = Len(list) + 1
         /\ DOMAIN Append(list, f) = DOMAIN list \cup {Len(list) + 1}
         /\ Len(list) + 1 \notin DOMAIN list /\ Len(list) \in Nat
         /\ \A i \in DOMAIN list : Append(list, f)[i] = list[i]
         /\ Append(list, f)[Len(list) + 1] = f
  OBVIOUS

LEMMA WholeType ==
  ASSUME NEW p \in Packets
  PROVE  Whole(p) \in Data /\ Whole(p)[1].pkt = p /\ Len(Whole(p)) = Fragments[p]
<1>1. Fragments[p] \in Nat /\ 1 \in 1 .. Fragments[p]
  BY PacketsAssumption
<1>2. ASSUME NEW i \in 1 .. Fragments[p]
      PROVE  [pkt |-> p, id |-> i - 1] \in Fragment
  <2>1. i - 1 \in 0 .. Fragments[p] - 1
    BY <1>1
  <2> QED
    BY <2>1, FragmentMade DEF FragmentsOf
<1>3. Whole(p) \in [1 .. Fragments[p] -> Fragment]
  BY <1>2 DEF Whole
<1>4. Whole(p) \in Data /\ Len(Whole(p)) = Fragments[p]
  <2> DEFINE w == Whole(p)
             n == Fragments[p]
  <2>1. w \in [1 .. n -> Fragment] /\ n \in Nat
    BY <1>1, <1>3
  <2> HIDE DEF w, n
  <2>2. w \in Seq(Fragment) /\ Len(w) = n
    BY <2>1
  <2> QED
    BY <2>2 DEF w, n, Data
<1>5. Whole(p)[1].pkt = p
  BY <1>1 DEF Whole
<1> QED
  BY <1>4, <1>5

LEMMA InitType == Init => TypeOK
  BY DEF Init, TypeOK, Data, Loops

LEMMA PacketType ==
  ASSUME TypeOK, NEW l \in Loops, Packet(l)
  PROVE  TypeOK'
<1>1. PICK f \in coming : cur' = [cur EXCEPT ![l] = f] /\ coming' = coming \ {f}
  BY DEF Packet
<1>2. f \in Fragment /\ coming' \subseteq Fragment
  BY <1>1 DEF TypeOK
<1>3. pc' = [pc EXCEPT ![l] = "lookup"]
  BY DEF Packet, Goto
<1>4. /\ cur' \in [Loops -> Fragment \cup {None}]
      /\ \A m \in Loops : pc'[m] # "accept" => cur'[m] \in Fragment
  BY <1>1, <1>2, <1>3 DEF TypeOK
<1>5. pc' \in [Loops -> {"accept", "lookup", "bind", "relay", "send"}]
  BY <1>3 DEF TypeOK
<1> QED
  BY <1>2, <1>4, <1>5 DEF Packet, TypeOK

LEMMA DissociateType ==
  ASSUME TypeOK, NEW l \in Loops, Dissociate(l)
  PROVE  TypeOK'
  BY DEF Dissociate, TypeOK

LEMMA LookupType ==
  ASSUME TypeOK, NEW l \in Loops, Lookup(l)
  PROVE  TypeOK'
<1>1. sessions[Assoc(l)] \in Nat \cup {None}
  BY InHand DEF Lookup, TypeOK
<1> QED
  BY <1>1 DEF Lookup, Goto, TypeOK

LEMMA BindFailsType ==
  ASSUME TypeOK, NEW l \in Loops, BindFails(l)
  PROVE  TypeOK'
  BY InHand DEF BindFails, Goto, TypeOK

LEMMA InsertType ==
  ASSUME TypeOK, NEW l \in Loops, Insert(l)
  PROVE  TypeOK'
<1>1. Assoc(l) \in Assocs
  BY InHand DEF Insert
<1>2. sessions[Assoc(l)] \in Nat \cup {None} /\ Len(readers) + 1 \in Nat
  BY <1>1 DEF TypeOK
<1>3. Append(readers, Assoc(l)) \in Seq(Assocs)
  BY <1>1 DEF TypeOK
<1>4. /\ sessions' \in [Assocs -> Nat \cup {None}] /\ readers' \in Seq(Assocs)
      /\ sock' \in [Loops -> Nat \cup {None}]
  BY <1>1, <1>2, <1>3 DEF Insert, TypeOK
<1> QED
  BY <1>4 DEF Insert, Goto, TypeOK

LEMMA RelayWholeType ==
  ASSUME TypeOK, NEW l \in Loops, RelayWhole(l)
  PROVE  TypeOK'
<1>1. <<cur[l]>> \in Data
  BY InHand DEF RelayWhole, Data
<1> QED
  BY <1>1 DEF RelayWhole, Goto, TypeOK

\* What Join finds: a list of fragments of one packet, the one in hand among them.
LEMMA JoinFinds ==
  ASSUME IInv, NEW l \in Loops, Join(l)
  PROVE  LET p    == cur[l].pkt
             k    == Key(cur[l])
             list == Append(lists[k], cur[l])
         IN  /\ list \in Seq(FragmentsOf(p)) /\ list \in Data
             /\ \A i, j \in DOMAIN list : list[i] = list[j] => i = j
             /\ Len(list) <= Fragments[p]
             /\ Len(list) = Fragments[p] => SortById(list) = Whole(p)
<1> DEFINE p == cur[l].pkt
           k == Key(cur[l])
           list == Append(lists[k], cur[l])
<1>1. TypeOK /\ pc[l] = "relay" /\ Fragments[p] > 1
  BY DEF IInv, Join
<1>2. cur[l] \in FragmentsOf(p) /\ p \in Packets /\ k \in Keys
  BY <1>1, InHand DEF FragmentsOf
<1>3. lists[k] \in Data
  BY <1>1, <1>2 DEF TypeOK
\* Fragments of other packets have other keys.
<1>4. ASSUME NEW i \in DOMAIN lists[k]
      PROVE  lists[k][i] \in FragmentsOf(p) /\ Len(lists[k]) < Fragments[p]
  <2>1. lists[k][i] \in Fragment
    BY <1>3 DEF Data
  <2>2. lists[k][i].pkt \in Packets
    BY <2>1, FragmentParts
  <2>3. Key(lists[k][i]) = k /\ Fragments[lists[k][i].pkt] > 1 /\ Len(lists[k]) < Fragments[lists[k][i].pkt]
    <3>1. ListsPartial
      BY DEF IInv
    <3>2. 1 < Fragments[lists[k][i].pkt]
      BY <1>2, <3>1 DEF ListsPartial
    <3>3. Fragments[lists[k][i].pkt] \in Nat
      BY <2>2, PacketsAssumption
    <3> QED
      BY <1>2, <3>1, <3>2, <3>3 DEF ListsPartial
  <2>4. lists[k][i].pkt = p
    <3>1. AssocOf[lists[k][i].pkt] = AssocOf[p] /\ PktId[lists[k][i].pkt] = PktId[p]
      BY <2>3 DEF Key
    <3> QED
      BY <1>1, <1>2, <2>2, <2>3, <3>1, IdsAssumption
  <2> QED
    BY <2>1, <2>3, <2>4 DEF FragmentsOf
<1>5. /\ lists[k] \in Seq(FragmentsOf(p)) /\ lists[k] \in Seq(Fragment)
      /\ cur[l] \in Fragment
  <2> DEFINE S == FragmentsOf(p)
             s == lists[k]
  <2>1. s \in Seq(Fragment) /\ \A i \in DOMAIN s : s[i] \in S
    BY <1>3, <1>4 DEF Data
  <2> HIDE DEF S, s
  <2>2. s \in Seq(S)
    BY <2>1
  <2> QED
    BY <1>2, <2>1, <2>2 DEF S, s, FragmentsOf
<1>6. list \in Seq(FragmentsOf(p)) /\ list \in Data
  BY <1>2, <1>5, Appended DEF Data
<1>7. \A i \in DOMAIN lists[k] : lists[k][i] # cur[l]
  BY <1>1, <1>2 DEF IInv, OnePlace, Held, Listed
<1>8. ASSUME NEW i \in DOMAIN list, NEW j \in DOMAIN list, list[i] = list[j]
      PROVE  i = j
  <2>1. \A m, n \in DOMAIN lists[k] : lists[k][m] = lists[k][n] => m = n
    BY <1>2 DEF IInv, ListsPartial
  <2>2. /\ DOMAIN list = DOMAIN lists[k] \cup {Len(lists[k]) + 1}
        /\ \A m \in DOMAIN lists[k] : list[m] = lists[k][m]
        /\ list[Len(lists[k]) + 1] = cur[l]
    BY <1>5, Appended
  <2> HIDE DEF list
  <2> QED
    BY <1>7, <1>8, <2>1, <2>2
<1>9. Len(list) <= Fragments[p]
  <2>0. Fragments[p] \in Nat
    BY <1>2, PacketsAssumption
  <2>1. Len(list) = Len(lists[k]) + 1 /\ Len(lists[k]) \in Nat
    BY <1>5, Appended
  <2>2. CASE lists[k] = <<>>
    BY <1>1, <2>0, <2>1, <2>2
  <2>3. CASE lists[k] # <<>>
    <3>1. 1 \in DOMAIN lists[k]
      BY <1>5, <2>3
    <3>2. Len(lists[k]) < Fragments[p]
      BY <1>4, <3>1
    <3> QED
      BY <2>0, <2>1, <3>2
  <2> QED
    BY <2>2, <2>3
<1>10. Len(list) = Fragments[p] => SortById(list) = Whole(p)
  <2> HIDE DEF list, p
  <2> QED
    BY <1>2, <1>6, <1>8, SortedIsWhole
<1> QED
  BY <1>6, <1>8, <1>9, <1>10

LEMMA JoinType ==
  ASSUME IInv, NEW l \in Loops, Join(l)
  PROVE  TypeOK'
<1> DEFINE p == cur[l].pkt
           k == Key(cur[l])
           list == Append(lists[k], cur[l])
<1>1. list \in Data /\ (Len(list) = Fragments[p] => SortById(list) \in Data)
  <2>1. p \in Packets
    BY InHand DEF Join, IInv
  <2> QED
    BY <2>1, JoinFinds, WholeType
<1>2. <<>> \in Data
  BY DEF Data
<1>3. TypeOK
  BY DEF IInv
<1> HIDE DEF list, p
<1>4. CASE Len(list) = Fragments[p]
  <2>1. ready' = [ready EXCEPT ![l] = SortById(list)] /\ lists' = [lists EXCEPT ![k] = <<>>] /\ Goto(l, "send")
    BY <1>4 DEF Join, list, p
  <2> QED
    BY <1>1, <1>2, <1>3, <1>4, <2>1, InHand DEF Join, Goto, TypeOK
<1>5. CASE Len(list) # Fragments[p]
  <2>1. lists' = [lists EXCEPT ![k] = list] /\ Goto(l, "accept") /\ UNCHANGED ready
    BY <1>5 DEF Join, list, p
  <2> QED
    BY <1>1, <1>3, <1>5, <2>1 DEF Join, Goto, TypeOK
<1> QED
  BY <1>4, <1>5

LEMMA SendType ==
  ASSUME TypeOK, NEW l \in Loops, Send(l)
  PROVE  TypeOK'
<1> DEFINE T == [sock : Nat \cup {None}, data : Data]
           e == [sock |-> sock[l], data |-> ready[l]]
<1>1. e \in T /\ out \in Seq(T)
  BY DEF TypeOK
<1>2. out' = out \/ out' = Append(out, e)
  BY DEF Send
<1>3. out' \in Seq(T)
  <2> HIDE DEF T, e
  <2> QED
    BY <1>1, <1>2
<1> QED
  BY <1>3 DEF Send, Goto, TypeOK

LEMMA NextType == IInv /\ [Next]_vars => TypeOK'
<1> SUFFICES ASSUME IInv, [Next]_vars
             PROVE  TypeOK'
  OBVIOUS
<1>1. TypeOK
  BY DEF IInv
<1>2. ASSUME NEW l \in Loops, Step(l)
      PROVE  TypeOK'
  BY <1>1, <1>2, PacketType, DissociateType, LookupType, BindFailsType, InsertType,
     RelayWholeType, JoinType, SendType DEF Step
<1>3. CASE UNCHANGED vars
  BY <1>1, <1>3 DEF vars, TypeOK
<1> QED
  BY <1>2, <1>3 DEF Next

-----------------------------------------------------------------------------
(* Sockets *)

\* A socket more for an association.
LEMMA OneMoreSocket ==
  ASSUME TypeOK, NEW a \in Assocs, readers' = Append(readers, a)
  PROVE  /\ Len(readers) \in Nat /\ DOMAIN readers' = DOMAIN readers \cup {Len(readers) + 1}
         /\ Len(readers) + 1 \notin DOMAIN readers
         /\ readers'[Len(readers) + 1] = a
         /\ \A n \in DOMAIN readers : readers'[n] = readers[n]
  BY Appended DEF TypeOK

LEMMA SocketsFinite ==
  ASSUME TypeOK, NEW a \in Assocs
  PROVE  IsFiniteSet(Sockets(a)) /\ Cardinality(Sockets(a)) \in Nat
<1>1. DOMAIN readers = 1 .. Len(readers) /\ Len(readers) \in Nat
  BY DEF TypeOK
<1>2. IsFiniteSet(DOMAIN readers)
  BY <1>1, FS_Interval
<1> QED
  BY <1>2, FS_Subset, FS_CardinalityType DEF Sockets

LEMMA InsertSockets ==
  ASSUME TypeOK, SocketsOwned, SocketsPaid, NEW l \in Loops, Insert(l)
  PROVE  SocketsOwned' /\ SocketsPaid'
<1> DEFINE n == Len(readers) + 1
           b == Assoc(l)
<1>1. b \in Assocs /\ pc[l] = "bind" /\ pc' = [pc EXCEPT ![l] = "relay"] /\ cur' = cur /\ dissociated' = dissociated
  BY InHand DEF Insert, Goto
<1>2. \A m \in Loops : Assoc(m)' = Assoc(m)
  BY <1>1 DEF Assoc
<1>3. CASE sessions[b] # None
  <2>1. UNCHANGED <<sessions, readers>> /\ sock' = [sock EXCEPT ![l] = sessions[b]]
    BY <1>3 DEF Insert
  <2>2. SocketsOwned'
    BY <1>1, <1>2, <1>3, <2>1 DEF TypeOK, SocketsOwned
  <2>3. SocketsPaid'
    BY <1>1, <2>1 DEF SocketsPaid, Sockets
  <2> QED
    BY <2>2, <2>3
<1>4. CASE sessions[b] = None
  <2>1. /\ sessions' = [sessions EXCEPT ![b] = n] /\ readers' = Append(readers, b)
        /\ sock' = [sock EXCEPT ![l] = n]
    BY <1>4 DEF Insert
  <2>2. /\ n \in Nat /\ n # None /\ DOMAIN readers' = DOMAIN readers \cup {n} /\ n \notin DOMAIN readers
        /\ readers'[n] = b /\ \A i \in DOMAIN readers : readers'[i] = readers[i]
    <3>1. Len(readers) + 1 \in Nat
      BY <1>1, <2>1, OneMoreSocket
    <3> QED
      BY <1>1, <2>1, <3>1, OneMoreSocket, SocketAssumption
  <2> HIDE DEF n, b
  <2>3. SocketsOwned'
    <3>1. \A a \in Assocs : sessions'[a] # None =>
            sessions'[a] \in DOMAIN readers' /\ readers'[sessions'[a]] = a
      BY <1>1, <2>1, <2>2 DEF TypeOK, SocketsOwned
    <3>2. \A m \in Loops : pc'[m] \in {"relay", "send"} =>
            sock'[m] \in DOMAIN readers' /\ readers'[sock'[m]] = Assoc(m)
      BY <1>1, <2>1, <2>2 DEF TypeOK, SocketsOwned, b
    <3> QED
      BY <1>2, <3>1, <3>2 DEF SocketsOwned
  <2>4. ASSUME NEW a \in Assocs
        PROVE  Cardinality(Sockets(a)') <= dissociated[a] + (IF sessions'[a] = None THEN 0 ELSE 1)
    <3>1. IsFiniteSet(Sockets(a)) /\ Cardinality(Sockets(a)) \in Nat /\ dissociated[a] \in Nat
      BY SocketsFinite DEF TypeOK
    <3>2. Cardinality(Sockets(a)) <= dissociated[a] + (IF sessions[a] = None THEN 0 ELSE 1)
      BY DEF SocketsPaid
    <3>3. CASE a = b
      <4>1. Sockets(a)' = Sockets(a) \cup {n} /\ n \notin Sockets(a)
        BY <2>2, <3>3 DEF Sockets
      <4>2. Cardinality(Sockets(a)') = Cardinality(Sockets(a)) + 1
        BY <3>1, <4>1, FS_AddElement
      <4>3. sessions'[a] # None /\ sessions[a] = None
        BY <1>1, <1>4, <2>1, <2>2, <3>3 DEF TypeOK, b
      <4> QED
        BY <3>1, <3>2, <4>2, <4>3
    <3>4. CASE a # b
      <4>1. Sockets(a)' = Sockets(a) /\ sessions'[a] = sessions[a]
        BY <2>1, <2>2, <3>4 DEF Sockets, TypeOK
      <4> QED
        BY <3>2, <4>1
    <3> QED
      BY <3>3, <3>4
  <2>5. SocketsPaid'
    BY <1>1, <2>4 DEF SocketsPaid
  <2> QED
    BY <2>3, <2>5
<1> QED
  BY <1>3, <1>4

LEMMA DissociateSockets ==
  ASSUME TypeOK, SocketsOwned, SocketsPaid, NEW l \in Loops, Dissociate(l)
  PROVE  SocketsOwned' /\ SocketsPaid'
<1>1. PICK b \in Assocs : /\ sessions' = [sessions EXCEPT ![b] = None]
                          /\ dissociated' = [dissociated EXCEPT ![b] = dissociated[b] + 1]
  BY DEF Dissociate
<1>2. UNCHANGED <<readers, pc, cur, sock>>
  BY DEF Dissociate
<1>3. SocketsOwned'
  BY <1>1, <1>2 DEF TypeOK, SocketsOwned, Assoc
<1>4. ASSUME NEW a \in Assocs
      PROVE  Cardinality(Sockets(a)') <= dissociated'[a] + (IF sessions'[a] = None THEN 0 ELSE 1)
  <2>1. Cardinality(Sockets(a)) \in Nat /\ dissociated[a] \in Nat
    BY SocketsFinite DEF TypeOK
  <2>2. Cardinality(Sockets(a)) <= dissociated[a] + (IF sessions[a] = None THEN 0 ELSE 1)
    BY DEF SocketsPaid
  <2>3. Sockets(a)' = Sockets(a)
    BY <1>2 DEF Sockets
  <2>4. CASE a = b
    <3>1. dissociated'[a] = dissociated[a] + 1 /\ sessions'[a] = None
      BY <1>1, <2>4 DEF TypeOK
    <3>2. Cardinality(Sockets(a)) <= dissociated[a] + 1
      BY <2>1, <2>2
    <3> QED
      BY <2>1, <2>3, <3>1, <3>2
  <2>5. CASE a # b
    BY <1>1, <2>2, <2>3, <2>5 DEF TypeOK
  <2> QED
    BY <2>4, <2>5
<1> QED
  BY <1>3, <1>4 DEF SocketsPaid

\* All other steps leave the sockets and their associations as they are.
LEMMA OtherSockets ==
  ASSUME TypeOK, SocketsOwned, SocketsPaid, NEW l \in Loops,
         \/ Packet(l) \/ Lookup(l) \/ BindFails(l) \/ RelayWhole(l) \/ Join(l) \/ Send(l)
  PROVE  SocketsOwned' /\ SocketsPaid'
<1>1. UNCHANGED <<readers, sessions, dissociated>>
  BY DEF Packet, Lookup, BindFails, RelayWhole, Join, Send
<1>2. SocketsPaid'
  BY <1>1 DEF SocketsPaid, Sockets
<1>3. CASE Packet(l)
  BY <1>1, <1>2, <1>3 DEF Packet, Goto, TypeOK, SocketsOwned, Assoc
<1>4. CASE Lookup(l)
  <2>1. Assoc(l) \in Assocs
    BY <1>4, InHand DEF Lookup
  <2>2. \A m \in Loops : Assoc(m)' = Assoc(m)
    BY <1>4 DEF Lookup, Assoc
  <2>3. CASE sessions[Assoc(l)] # None
    <3>1. sock' = [sock EXCEPT ![l] = sessions[Assoc(l)]] /\ pc' = [pc EXCEPT ![l] = "relay"]
      BY <1>4, <2>3 DEF Lookup, Goto
    <3> QED
      BY <1>1, <1>2, <2>1, <2>2, <2>3, <3>1 DEF TypeOK, SocketsOwned
  <2>4. CASE sessions[Assoc(l)] = None
    <3>1. sock' = sock /\ pc' = [pc EXCEPT ![l] = "bind"]
      BY <1>4, <2>4 DEF Lookup, Goto
    <3> QED
      BY <1>1, <1>2, <2>2, <3>1 DEF TypeOK, SocketsOwned
  <2> QED
    BY <2>3, <2>4
<1>5. CASE BindFails(l) \/ RelayWhole(l) \/ Join(l) \/ Send(l)
  <2>1. UNCHANGED <<cur, sock>>
    BY <1>5 DEF BindFails, RelayWhole, Join, Send
  <2>2. \A m \in Loops : pc'[m] \in {"relay", "send"} => pc[m] \in {"relay", "send"}
    BY <1>5 DEF BindFails, RelayWhole, Join, Send, Goto, TypeOK
  <2> QED
    BY <1>1, <1>2, <2>1, <2>2 DEF SocketsOwned, Assoc
<1> QED
  BY <1>3, <1>4, <1>5

-----------------------------------------------------------------------------
(* Where the fragments are *)

Places == OnePlace /\ ListsPartial

\* A step that takes up no fragment and lists none.
LEMMA SamePlaces ==
  ASSUME Places, UNCHANGED <<coming, lists, cur>>, \A m \in Loops : Held(m)' => Held(m)
  PROVE  Places'
  BY DEF Places, OnePlace, ListsPartial, Listed

LEMMA PacketPlaces ==
  ASSUME TypeOK, Places, NEW l \in Loops, Packet(l)
  PROVE  Places'
<1>1. PICK f \in coming : cur' = [cur EXCEPT ![l] = f] /\ coming' = coming \ {f}
  BY DEF Packet
<1>2. lists' = lists /\ pc' = [pc EXCEPT ![l] = "lookup"]
  BY DEF Packet, Goto
<1>3. \A e : Listed(e)' <=> Listed(e)
  BY <1>2 DEF Listed
<1>4. /\ Held(l)' /\ cur'[l] = f
      /\ \A m \in Loops : m # l => (Held(m)' <=> Held(m)) /\ cur'[m] = cur[m]
  BY <1>1, <1>2 DEF TypeOK, Held
<1>5. OnePlace'
  BY <1>1, <1>3, <1>4 DEF Places, OnePlace
<1>6. ListsPartial'
  BY <1>2 DEF Places, ListsPartial
<1> QED
  BY <1>5, <1>6 DEF Places

\* What a list consists of after a fragment has been appended.
LEMMA ListedAfterAppend ==
  ASSUME TypeOK, NEW k \in Keys, NEW f \in Fragment, lists' = [lists EXCEPT ![k] = Append(lists[k], f)]
  PROVE  \A e : Listed(e)' <=> Listed(e) \/ e = f
<1>1. lists[k] \in Seq(Fragment)
  BY DEF TypeOK, Data
<1>2. /\ DOMAIN Append(lists[k], f) = DOMAIN lists[k] \cup {Len(lists[k]) + 1}
      /\ \A i \in DOMAIN lists[k] : Append(lists[k], f)[i] = lists[k][i]
      /\ Append(lists[k], f)[Len(lists[k]) + 1] = f
  BY <1>1, Appended
<1>3. lists'[k] = Append(lists[k], f) /\ \A h \in Keys : h # k => lists'[h] = lists[h]
  BY DEF TypeOK
<1> QED
  BY <1>2, <1>3 DEF Listed

LEMMA JoinPlaces ==
  ASSUME IInv, NEW l \in Loops, Join(l)
  PROVE  Places'
<1> DEFINE p == cur[l].pkt
           k == Key(cur[l])
           list == Append(lists[k], cur[l])
<1>1. TypeOK /\ OnePlace /\ ListsPartial /\ Held(l)
  BY DEF IInv, Join, Held
<1>2. k \in Keys /\ cur[l] \in Fragment /\ p \in Packets
  BY <1>1, InHand DEF Join
<1>3. UNCHANGED <<coming, cur>> /\ ~Held(l)' /\ \A m \in Loops : m # l => (Held(m)' <=> Held(m))
  BY <1>1 DEF Join, Goto, Held, TypeOK
<1>4. CASE Len(list) = Fragments[p]
  <2>1. lists' = [lists EXCEPT ![k] = <<>>]
    BY <1>4 DEF Join
  <2>2. \A h \in Keys : lists'[h] = <<>> \/ lists'[h] = lists[h]
    BY <1>1, <2>1 DEF TypeOK
  <2>3. \A e : Listed(e)' => Listed(e)
    BY <2>2 DEF Listed
  <2>4. OnePlace'
    BY <1>1, <1>3, <2>3 DEF OnePlace
  <2>5. ListsPartial'
    BY <1>1, <2>2 DEF ListsPartial
  <2> QED
    BY <2>4, <2>5 DEF Places
<1>5. CASE Len(list) # Fragments[p]
  <2>1. lists' = [lists EXCEPT ![k] = list]
    BY <1>5 DEF Join
  <2>2. \A e : Listed(e)' <=> Listed(e) \/ e = cur[l]
    BY <1>1, <1>2, <2>1, ListedAfterAppend
  <2>3. OnePlace'
    BY <1>1, <1>3, <2>2 DEF OnePlace
  <2>4. lists'[k] = list /\ \A h \in Keys : h # k => lists'[h] = lists[h]
    <3>1. lists \in [Keys -> Data]
      BY <1>1 DEF TypeOK
    <3> HIDE DEF k, list
    <3> QED
      BY <1>2, <2>1, <3>1
  <2>5. /\ list \in Seq(FragmentsOf(p)) /\ Len(list) <= Fragments[p]
        /\ \A i, j \in DOMAIN list : list[i] = list[j] => i = j
    BY JoinFinds
  <2>6. 1 < Fragments[p] /\ Len(list) < Fragments[p]
    <3>1. Fragments[p] \in Nat
      BY <1>2, PacketsAssumption
    <3>2. Fragments[p] > 1
      BY DEF Join
    <3> HIDE DEF list, p
    <3>3. Len(list) \in Nat
      BY <2>5
    <3> QED
      BY <1>5, <2>5, <3>1, <3>2, <3>3
  <2>7. ASSUME NEW i \in DOMAIN list
        PROVE  Key(list[i]) = k /\ list[i].pkt = p
    <3>1. list[i] \in FragmentsOf(p)
      <4> DEFINE S == FragmentsOf(p)
                 s == list
      <4>1. s \in Seq(S)
        BY <2>5
      <4> HIDE DEF S, s
      <4>2. \A j \in DOMAIN s : s[j] \in S
        BY <4>1
      <4> QED
        BY <4>2 DEF S, s
    <3>2. list[i].pkt = p
      BY <3>1 DEF FragmentsOf
    <3> QED
      BY <3>2 DEF Key
  <2> HIDE DEF list, p, k
  <2>8. ASSUME NEW h \in Keys
        PROVE  /\ \A i \in DOMAIN lists'[h] :
                    /\ Key(lists'[h][i]) = h
                    /\ 1 < Fragments[lists'[h][i].pkt]
                    /\ Len(lists'[h]) < Fragments[lists'[h][i].pkt]
               /\ \A i, j \in DOMAIN lists'[h] : lists'[h][i] = lists'[h][j] => i = j
    <3>1. CASE h = k
      BY <2>4, <2>5, <2>6, <2>7, <3>1
    <3>2. CASE h # k
      BY <1>1, <2>4, <3>2 DEF ListsPartial
    <3> QED
      BY <3>1, <3>2
  <2>9. ListsPartial'
    BY <2>8 DEF ListsPartial, Key
  <2> QED
    BY <2>3, <2>9 DEF Places
<1> QED
  BY <1>4, <1>5

LEMMA StepPlaces ==
  ASSUME IInv, NEW l \in Loops, Step(l)
  PROVE  Places'
<1>1. TypeOK /\ Places
  BY DEF IInv, Places
<1>2. CASE Dissociate(l) \/ Lookup(l) \/ BindFails(l) \/ Insert(l) \/ RelayWhole(l) \/ Send(l)
  <2>1. UNCHANGED <<coming, lists, cur>>
    BY <1>2 DEF Dissociate, Lookup, BindFails, Insert, RelayWhole, Send
  <2>2. \A m \in Loops : Held(m)' => Held(m)
    BY <1>1, <1>2 DEF Dissociate, Lookup, BindFails, Insert, RelayWhole, Send, Goto, Held, TypeOK
  <2> QED
    BY <1>1, <2>1, <2>2, SamePlaces
<1> QED
  BY <1>1, <1>2, PacketPlaces, JoinPlaces DEF Step

-----------------------------------------------------------------------------
(* What is made ready, and sent *)

LEMMA StepReady ==
  ASSUME IInv, NEW l \in Loops, Step(l)
  PROVE  ReadyWhole'
<1>1. TypeOK /\ ReadyWhole
  BY DEF IInv
<1>2. CASE Packet(l)
  BY <1>1, <1>2 DEF Packet, Goto, TypeOK, ReadyWhole
<1>3. CASE Dissociate(l) \/ Lookup(l) \/ BindFails(l) \/ Insert(l) \/ Send(l)
  <2>1. UNCHANGED <<cur, ready>>
    BY <1>3 DEF Dissociate, Lookup, BindFails, Insert, Send
  <2>2. \A m \in Loops : pc'[m] = "send" => pc[m] = "send"
    BY <1>1, <1>3 DEF Dissociate, Lookup, BindFails, Insert, Send, Goto, TypeOK
  <2> QED
    BY <1>1, <2>1, <2>2 DEF ReadyWhole
<1>4. CASE RelayWhole(l)
  <2>1. cur[l] \in Fragment /\ Fragments[cur[l].pkt] = 1
    BY <1>1, <1>4, InHand DEF RelayWhole
  <2>2. cur[l] = [pkt |-> cur[l].pkt, id |-> 0]
    BY <2>1, FragmentParts
  <2>3. Whole(cur[l].pkt) = <<cur[l]>>
    <3>1. Whole(cur[l].pkt) = [i \in 1 .. 1 |-> [pkt |-> cur[l].pkt, id |-> i - 1]]
      BY <2>1 DEF Whole
    <3>2. \A i \in 1 .. 1 : [pkt |-> cur[l].pkt, id |-> i - 1] = cur[l]
      BY <2>2
    <3> DEFINE c == cur[l]
    <3>3. Whole(cur[l].pkt) = [i \in 1 .. 1 |-> c]
      BY <3>1, <3>2
    <3> HIDE DEF c
    <3>4. [i \in 1 .. 1 |-> c] = <<c>>
      OBVIOUS
    <3> QED
      BY <3>3, <3>4 DEF c
  <2>4. ready' = [ready EXCEPT ![l] = <<cur[l]>>] /\ pc' = [pc EXCEPT ![l] = "send"] /\ cur' = cur
    BY <1>4 DEF RelayWhole, Goto
  <2> QED
    BY <1>1, <2>3, <2>4 DEF TypeOK, ReadyWhole
<1>5. CASE Join(l)
  <2> DEFINE list == Append(lists[Key(cur[l])], cur[l])
  <2>1. CASE Len(list) = Fragments[cur[l].pkt]
    <3>1. ready' = [ready EXCEPT ![l] = SortById(list)] /\ pc' = [pc EXCEPT ![l] = "send"] /\ cur' = cur
      BY <1>5, <2>1 DEF Join, Goto
    <3>2. SortById(list) = Whole(cur[l].pkt)
      BY <1>5, <2>1, JoinFinds
    <3> HIDE DEF list
    <3> QED
      BY <1>1, <3>1, <3>2 DEF TypeOK, ReadyWhole
  <2>2. CASE Len(list) # Fragments[cur[l].pkt]
    <3>1. ready' = ready /\ pc' = [pc EXCEPT ![l] = "accept"] /\ cur' = cur
      BY <1>5, <2>2 DEF Join, Goto
    <3> QED
      BY <1>1, <3>1 DEF TypeOK, ReadyWhole
  <2> QED
    BY <2>1, <2>2
<1> QED
  BY <1>2, <1>3, <1>4, <1>5 DEF Step

\* Appending to what has been sent.
LEMMA SentAfterSend ==
  ASSUME TypeOK, NEW e, out' = Append(out, e)
  PROVE  /\ Len(out) \in Nat /\ DOMAIN out' = DOMAIN out \cup {Len(out) + 1}
         /\ Len(out) + 1 \notin DOMAIN out
         /\ \A i \in DOMAIN out : out'[i] = out[i]
         /\ out'[Len(out) + 1] = e
  BY DEF TypeOK

LEMMA StepOut ==
  ASSUME IInv, NEW l \in Loops, Step(l)
  PROVE  OutWhole'
<1>1. TypeOK /\ OutWhole /\ SocketsOwned /\ ReadyWhole
  BY DEF IInv
<1>2. CASE Packet(l) \/ Dissociate(l) \/ Lookup(l) \/ BindFails(l) \/ RelayWhole(l) \/ Join(l)
  BY <1>1, <1>2 DEF Packet, Dissociate, Lookup, BindFails, RelayWhole, Join, OutWhole
<1>3. CASE Insert(l)
  <2>1. out' = out /\ Assoc(l) \in Assocs
    BY <1>1, <1>3, InHand DEF Insert
  <2>2. readers' = readers \/ readers' = Append(readers, Assoc(l))
    BY <1>3 DEF Insert
  <2>3. \A n \in DOMAIN readers : n \in DOMAIN readers' /\ readers'[n] = readers[n]
    BY <1>1, <2>1, <2>2, OneMoreSocket
  <2> QED
    BY <1>1, <2>1, <2>3 DEF OutWhole
<1>4. CASE Send(l)
  <2> DEFINE e == [sock |-> sock[l], data |-> ready[l]]
  <2>1. readers' = readers /\ (out' = out \/ out' = Append(out, e))
    BY <1>4 DEF Send
  <2>2. CASE out' = out
    BY <1>1, <2>1, <2>2 DEF OutWhole
  <2>3. CASE out' = Append(out, e)
    <3>1. cur[l].pkt \in Packets /\ Assoc(l) = AssocOf[cur[l].pkt]
      BY <1>1, <1>4, InHand DEF Send
    <3>2. /\ e.data = Whole(cur[l].pkt)
          /\ e.sock \in DOMAIN readers /\ readers[e.sock] = AssocOf[cur[l].pkt]
      BY <1>1, <1>4, <3>1 DEF Send, ReadyWhole, SocketsOwned
    <3> HIDE DEF e
    <3>3. /\ DOMAIN out' = DOMAIN out \cup {Len(out) + 1} /\ out'[Len(out) + 1] = e
          /\ \A i \in DOMAIN out : out'[i] = out[i]
      BY <1>1, <2>3, SentAfterSend
    <3> QED
      BY <1>1, <2>1, <3>1, <3>2, <3>3 DEF OutWhole
  <2> QED
    BY <2>1, <2>2, <2>3
<1> QED
  BY <1>2, <1>3, <1>4 DEF Step

LEMMA NextIInv == IInv /\ [Next]_vars => IInv'
<1> SUFFICES ASSUME IInv, [Next]_vars
             PROVE  IInv'
  OBVIOUS
<1>1. ASSUME NEW l \in Loops, Step(l)
      PROVE  (OnePlace /\ ListsPartial /\ ReadyWhole /\ OutWhole)'
  BY <1>1, StepPlaces, StepReady, StepOut DEF Places
<1>2. CASE UNCHANGED vars
  <2>1. TypeOK'
    BY NextType
  <2> QED
    BY <1>2, <2>1 DEF vars, IInv, SocketsOwned, SocketsPaid, Sockets, Assoc, OnePlace, Held, Listed,
       ListsPartial, ReadyWhole, OutWhole
<1>3. ASSUME NEW l \in Loops, Step(l)
      PROVE  (SocketsOwned /\ SocketsPaid)'
  BY <1>3, InsertSockets, DissociateSockets, OtherSockets DEF Step, IInv
<1> QED
  BY <1>1, <1>2, <1>3, NextType DEF Next, IInv

LEMMA InitIInv == Init => IInv
<1> SUFFICES ASSUME Init
             PROVE  IInv
  OBVIOUS
<1>1. TypeOK
  BY InitType
<1>2. SocketsPaid
  <2>1. ASSUME NEW a \in Assocs PROVE Cardinality(Sockets(a)) = 0 /\ dissociated[a] = 0 /\ sessions[a] = None
    <3>1. Sockets(a) = {}
      BY DEF Init, Sockets
    <3> QED
      BY <3>1, FS_EmptySet DEF Init
  <2> QED
    BY <2>1 DEF SocketsPaid
<1>3. SocketsOwned /\ OnePlace /\ ListsPartial /\ ReadyWhole /\ OutWhole
  BY DEF Init, SocketsOwned, OnePlace, Held, Listed, ListsPartial, ReadyWhole, OutWhole
<1> QED
  BY <1>1, <1>2, <1>3 DEF IInv

-----------------------------------------------------------------------------
(* Every packet is accounted for *)

Sends(m) == pc[m] = "send"

\* No fragment appears or disappears, and nothing is begun or ended to be sent.
LEMMA AccountedStays ==
  ASSUME Accounted, \A f \in Fragment : Live(f)' <=> Live(f), UNCHANGED <<out, lost>>,
         \A m \in Loops : Sends(m)' <=> Sends(m),
         \A m \in Loops : Sends(m) => cur'[m] = cur[m]
  PROVE  Accounted'
<1>1. \A q : SentOf(q)' = SentOf(q)
  BY DEF SentOf
<1>2. \A m \in Loops : \A q : Sending(m, q)' <=> Sending(m, q)
  BY DEF Sending, Sends
<1>3. ASSUME NEW q \in Packets
      PROVE  Pending(q)' \/ Joined(q)'
  <2>1. \A f \in FragmentsOf(q) : Live(f)' <=> Live(f)
    BY DEF FragmentsOf
  <2>2. Pending(q) \/ Joined(q)
    BY DEF Accounted
  <2>3. Pending(q) => Pending(q)'
    BY <1>1, <1>2, <2>1 DEF Pending, FragmentsOf
  <2>4. Joined(q) => Joined(q)'
    BY <1>1, <1>2, <2>1 DEF Joined, FragmentsOf
  <2> QED
    BY <2>2, <2>3, <2>4
<1> QED
  BY <1>3 DEF Accounted

\* A fragment in hand is of a packet that nothing has been sent of.
LEMMA HeldPending ==
  ASSUME TypeOK, Accounted, NEW l \in Loops, Held(l)
  PROVE  LET p == cur[l].pkt IN p \in Packets /\ cur[l] \in FragmentsOf(p) /\ Pending(p)
<1> DEFINE p == cur[l].pkt
<1>1. p \in Packets /\ cur[l] \in FragmentsOf(p)
  BY InHand DEF Held, FragmentsOf
<1>2. Live(cur[l])
  BY DEF Live
<1>3. ~Joined(p)
  BY <1>1, <1>2 DEF Joined
<1> QED
  BY <1>1, <1>3 DEF Accounted

\* All that there is of a packet is made ready by one loop.
LEMMA AccountedJoin ==
  ASSUME TypeOK, Accounted, NEW l \in Loops, Held(l),
         \A f \in Fragment : Live(f)' <=> Live(f) /\ f \notin FragmentsOf(cur[l].pkt),
         UNCHANGED <<out, lost, cur>>, pc' = [pc EXCEPT ![l] = "send"]
  PROVE  Accounted'
<1> DEFINE p == cur[l].pkt
<1>1. p \in Packets /\ cur[l] \in FragmentsOf(p) /\ Pending(p)
  BY HeldPending
<1>2. \A q : SentOf(q)' = SentOf(q)
  BY DEF SentOf
<1>3. Sends(l)' /\ ~Sends(l) /\ \A m \in Loops : m # l => (Sends(m)' <=> Sends(m))
  BY DEF TypeOK, Sends, Held
<1>4. Joined(p)'
  <2>1. \A f \in FragmentsOf(p) : ~Live(f)'
    BY DEF FragmentsOf
  <2>2. SentOf(p)' = {} /\ \A m \in Loops : Sending(m, p)' <=> m = l
    BY <1>1, <1>2, <1>3 DEF Pending, Sending, Sends
  <2> QED
    BY <2>1, <2>2 DEF Joined, FragmentsOf
<1>5. ASSUME NEW q \in Packets, q # p
      PROVE  Pending(q)' \/ Joined(q)'
  <2>1. \A f \in FragmentsOf(q) : Live(f)' <=> Live(f)
    BY <1>5 DEF FragmentsOf
  <2>2. \A m \in Loops : Sending(m, q)' <=> Sending(m, q)
    BY <1>3, <1>5 DEF Sending, Sends
  <2>3. Pending(q) \/ Joined(q)
    BY DEF Accounted
  <2>4. Pending(q) => Pending(q)'
    BY <1>2, <2>1, <2>2 DEF Pending, FragmentsOf
  <2>5. Joined(q) => Joined(q)'
    BY <1>2, <2>1, <2>2 DEF Joined, FragmentsOf
  <2> QED
    BY <2>3, <2>4, <2>5
<1> QED
  BY <1>4, <1>5 DEF Accounted

LEMMA AccountedBindFails ==
  ASSUME TypeOK, Accounted, NEW l \in Loops, BindFails(l)
  PROVE  Accounted'
<1>1. PICK p \in Packets : p = cur[l].pkt /\ Pending(p)
  BY HeldPending DEF BindFails, Held
<1>2. /\ lost' = lost \cup {p} /\ UNCHANGED <<out, cur, coming, lists>>
      /\ pc[l] = "bind" /\ pc' = [pc EXCEPT ![l] = "accept"]
  BY <1>1 DEF BindFails, Goto
<1>3. \A q : SentOf(q)' = SentOf(q)
  BY <1>2 DEF SentOf
<1>4. \A m \in Loops : \A q : Sending(m, q)' <=> Sending(m, q)
  BY <1>2 DEF TypeOK, Sending
<1>5. Pending(p)'
  BY <1>1, <1>2, <1>3, <1>4 DEF Pending
<1>6. \A f : f # cur[l] => (Live(f)' <=> Live(f))
  <2>1. \A m \in Loops : m # l => (Held(m)' <=> Held(m))
    BY <1>2 DEF TypeOK, Held
  <2>2. ~Held(l)' /\ \A f : Listed(f)' <=> Listed(f)
    BY <1>2 DEF TypeOK, Held, Listed
  <2> QED
    BY <1>2, <2>1, <2>2 DEF Live
<1>7. ASSUME NEW q \in Packets, q # p
      PROVE  Pending(q)' \/ Joined(q)'
  <2>1. \A f \in FragmentsOf(q) : Live(f)' <=> Live(f)
    BY <1>1, <1>6, <1>7 DEF FragmentsOf
  <2>2. q \in lost' <=> q \in lost
    BY <1>2, <1>7
  <2>3. Pending(q) \/ Joined(q)
    BY DEF Accounted
  <2>4. Pending(q) => Pending(q)'
    BY <1>3, <1>4, <2>1, <2>2 DEF Pending, FragmentsOf
  <2>5. Joined(q) => Joined(q)'
    BY <1>2, <1>3, <1>4, <2>1 DEF Joined, FragmentsOf
  <2> QED
    BY <2>3, <2>4, <2>5
<1> QED
  BY <1>5, <1>7 DEF Accounted

LEMMA AccountedSend ==
  ASSUME TypeOK, ReadyWhole, Accounted, NEW l \in Loops, Send(l)
  PROVE  Accounted'
<1> DEFINE e == [sock |-> sock[l], data |-> ready[l]]
<1>1. PICK p \in Packets : p = cur[l].pkt /\ Sending(l, p)
  BY InHand DEF Send, Sending
<1>2. /\ UNCHANGED <<cur, coming, lists, lost>> /\ pc' = [pc EXCEPT ![l] = "accept"]
      /\ out' = IF p \in Unresolvable THEN out ELSE Append(out, e)
  BY <1>1 DEF Send, Goto
<1>3. \A f : Live(f)' <=> Live(f)
  <2>1. \A m \in Loops : Held(m)' <=> Held(m)
    BY <1>1, <1>2 DEF TypeOK, Held, Sending
  <2> QED
    BY <1>2, <2>1 DEF Live, Listed
<1>4. Joined(p)
  BY <1>1 DEF Accounted, Pending
<1>5. \A m \in Loops : \A q : Sending(m, q)' <=> Sending(m, q) /\ m # l
  BY <1>2 DEF TypeOK, Sending
<1>6. \A m \in Loops : ~Sending(m, p)'
  BY <1>1, <1>4, <1>5 DEF Joined
<1>7. SentOf(p) = {}
  BY <1>1, <1>4 DEF Joined
<1>8. e.data[1].pkt = p
  BY <1>1, WholeType DEF ReadyWhole, Sending
<1>9. CASE p \in Unresolvable
  <2>1. \A q : SentOf(q)' = SentOf(q)
    BY <1>2, <1>9 DEF SentOf
  <2>2. Joined(p)'
    BY <1>3, <1>4, <1>6, <1>7, <1>9, <2>1 DEF Joined, FragmentsOf
  <2>3. ASSUME NEW q \in Packets, q # p
        PROVE  Pending(q)' \/ Joined(q)'
    <3>1. \A m \in Loops : Sending(m, q)' <=> Sending(m, q)
      BY <1>5, <1>1, <2>3 DEF Sending
    <3>2. Pending(q) \/ Joined(q)
      BY DEF Accounted
    <3>3. Pending(q) => Pending(q)'
      BY <1>2, <1>3, <2>1, <3>1 DEF Pending, FragmentsOf
    <3>4. Joined(q) => Joined(q)'
      BY <1>2, <1>3, <1>9, <2>1, <3>1 DEF Joined, FragmentsOf
    <3> QED
      BY <3>2, <3>3, <3>4
  <2> QED
    BY <2>2, <2>3 DEF Accounted
<1>10. CASE p \notin Unresolvable
  <2>1. /\ DOMAIN out' = DOMAIN out \cup {Len(out) + 1} /\ Len(out) + 1 \notin DOMAIN out
        /\ out'[Len(out) + 1] = e /\ \A i \in DOMAIN out : out'[i] = out[i]
    <3> HIDE DEF e
    <3>1. out' = Append(out, e)
      BY <1>2, <1>10
    <3> QED
      BY <3>1, SentAfterSend
  <2> HIDE DEF e
  <2>2. SentOf(p)' = {Len(out) + 1}
    BY <1>7, <1>8, <2>1 DEF SentOf
  <2>3. Joined(p)'
    BY <1>3, <1>4, <1>6, <1>10, <2>1, <2>2 DEF Joined, FragmentsOf
  <2>4. ASSUME NEW q \in Packets, q # p
        PROVE  Pending(q)' \/ Joined(q)'
    <3>1. \A m \in Loops : Sending(m, q)' <=> Sending(m, q)
      BY <1>5, <1>1, <2>4 DEF Sending
    <3>2. SentOf(q)' = SentOf(q)
      BY <1>8, <2>1, <2>4 DEF SentOf
    <3>3. Pending(q) \/ Joined(q)
      BY DEF Accounted
    <3>4. Pending(q) => Pending(q)'
      BY <1>2, <1>3, <3>1, <3>2 DEF Pending, FragmentsOf
    <3>5. Joined(q) => Joined(q)'
      BY <1>2, <1>3, <2>1, <3>1, <3>2 DEF Joined, FragmentsOf
    <3> QED
      BY <3>3, <3>4, <3>5
  <2> QED
    BY <2>3, <2>4 DEF Accounted
<1> QED
  BY <1>9, <1>10

\* A packet in one piece is made ready.
LEMMA AccountedRelayWhole ==
  ASSUME IInv, Accounted, NEW l \in Loops, RelayWhole(l)
  PROVE  Accounted'
<1>1. TypeOK /\ OnePlace /\ Held(l)
  BY DEF IInv, RelayWhole, Held
<1>2. UNCHANGED <<out, lost, cur, coming, lists>> /\ pc' = [pc EXCEPT ![l] = "send"]
  BY DEF RelayWhole, Goto
<1>3. \A f \in FragmentsOf(cur[l].pkt) : f = cur[l]
  <2>1. cur[l] \in Fragment /\ Fragments[cur[l].pkt] = 1
    BY <1>1, InHand DEF RelayWhole
  <2>2. ASSUME NEW f \in FragmentsOf(cur[l].pkt)
        PROVE  f = [pkt |-> cur[l].pkt, id |-> 0]
    BY <2>1, <2>2, FragmentParts DEF FragmentsOf
  <2>3. cur[l] \in FragmentsOf(cur[l].pkt)
    BY <2>1 DEF FragmentsOf
  <2> QED
    BY <2>2, <2>3
<1>4. cur[l] \in FragmentsOf(cur[l].pkt)
  BY <1>1, InHand DEF RelayWhole, FragmentsOf
<1>5. ASSUME NEW f \in Fragment
      PROVE  Live(f)' <=> Live(f) /\ f \notin FragmentsOf(cur[l].pkt)
  <2>1. ~Held(l)' /\ \A m \in Loops : m # l => (Held(m)' <=> Held(m))
    BY <1>1, <1>2 DEF TypeOK, Held
  <2>2. Listed(f)' <=> Listed(f)
    BY <1>2 DEF Listed
  <2>3. CASE f = cur[l]
    BY <1>1, <1>2, <1>4, <2>1, <2>2, <2>3 DEF Live, OnePlace
  <2>4. CASE f # cur[l]
    BY <1>2, <1>3, <2>1, <2>2, <2>4 DEF Live
  <2> QED
    BY <2>3, <2>4
<1> QED
  BY <1>1, <1>2, <1>5, AccountedJoin

\* The last fragment takes the others out of the list; one before it joins them there.
LEMMA AccountedJoinStep ==
  ASSUME IInv, Accounted, NEW l \in Loops, Join(l)
  PROVE  Accounted'
<1> DEFINE p == cur[l].pkt
           k == Key(cur[l])
           list == Append(lists[k], cur[l])
<1>1. TypeOK /\ OnePlace /\ ListsPartial /\ Held(l)
  BY DEF IInv, Join, Held
<1>2. k \in Keys /\ cur[l] \in Fragment /\ p \in Packets /\ cur[l] \in FragmentsOf(p)
  BY <1>1, InHand DEF Join, FragmentsOf
<1>3. UNCHANGED <<coming, cur, out, lost>>
  BY DEF Join
<1>4. ~Held(l)' /\ \A m \in Loops : m # l => (Held(m)' <=> Held(m))
  BY <1>1 DEF Join, Goto, Held, TypeOK
<1>5. CASE Len(list) # Fragments[p]
  <2>1. lists' = [lists EXCEPT ![k] = list] /\ pc' = [pc EXCEPT ![l] = "accept"]
    BY <1>5 DEF Join, Goto
  <2>2. \A f : Listed(f)' <=> Listed(f) \/ f = cur[l]
    BY <1>1, <1>2, <2>1, ListedAfterAppend
  <2>3. \A f : Live(f)' <=> Live(f)
    BY <1>1, <1>3, <1>4, <2>2 DEF Live
  <2>4. \A m \in Loops : Sends(m)' <=> Sends(m)
    BY <1>1, <2>1 DEF TypeOK, Sends, Held
  <2> QED
    BY <1>3, <2>3, <2>4, AccountedStays
<1>6. CASE Len(list) = Fragments[p]
  <2>1. lists' = [lists EXCEPT ![k] = <<>>] /\ pc' = [pc EXCEPT ![l] = "send"]
    BY <1>6 DEF Join, Goto
  <2>2. /\ list \in Seq(FragmentsOf(p))
        /\ \A i, j \in DOMAIN list : list[i] = list[j] => i = j
    BY JoinFinds
  \* All the fragments of the packet, and no other, have been in this list or in hand.
  <2>3. \A f \in FragmentsOf(p) : \E i \in DOMAIN list : list[i] = f
    <3> HIDE DEF list, p
    <3> QED
      BY <1>2, <1>6, <2>2, AllFragments
  <2>4. \A i \in DOMAIN list : list[i] \in FragmentsOf(p)
    <3> DEFINE S == FragmentsOf(p)
               s == list
    <3>1. s \in Seq(S)
      BY <2>2
    <3> HIDE DEF S, s
    <3>2. \A i \in DOMAIN s : s[i] \in S
      BY <3>1
    <3> QED
      BY <3>2 DEF S, s
  <2>5. lists[k] \in Seq(Fragment)
    BY <1>1, <1>2 DEF TypeOK, Data
  <2>6. /\ DOMAIN list = DOMAIN lists[k] \cup {Len(lists[k]) + 1}
        /\ \A i \in DOMAIN lists[k] : list[i] = lists[k][i]
        /\ list[Len(lists[k]) + 1] = cur[l]
    BY <1>2, <2>5, Appended
  <2>7. \A f \in FragmentsOf(p) : f = cur[l] \/ \E i \in DOMAIN lists[k] : lists[k][i] = f
    <3> HIDE DEF list
    <3> QED
      BY <2>3, <2>6
  <2>8. \A i \in DOMAIN lists[k] : lists[k][i] \in FragmentsOf(p)
    <3> HIDE DEF list
    <3> QED
      BY <2>4, <2>6
  <2>9. lists'[k] = <<>> /\ \A h \in Keys : h # k => lists'[h] = lists[h]
    BY <1>1, <1>2, <2>1 DEF TypeOK
  \* A fragment of this packet cannot be in a list of another key.
  <2>10. \A h \in Keys : h # k => \A i \in DOMAIN lists[h] : lists[h][i] \notin FragmentsOf(p)
    BY <1>1, <1>2 DEF ListsPartial, FragmentsOf, Key
  <2> HIDE DEF list, k
  <2>11. ASSUME NEW f \in Fragment
         PROVE  Listed(f)' <=> Listed(f) /\ f \notin FragmentsOf(p)
    <3>1. CASE f \in FragmentsOf(p)
      BY <2>9, <2>10, <3>1 DEF Listed
    <3>2. CASE f \notin FragmentsOf(p)
      BY <2>8, <2>9, <3>2 DEF Listed
    <3> QED
      BY <3>1, <3>2
  <2>12. ASSUME NEW f \in Fragment
         PROVE  Live(f)' <=> Live(f) /\ f \notin FragmentsOf(p)
    <3>1. CASE f \in FragmentsOf(p)
      <4>1. f \notin coming /\ \A m \in Loops : Held(m) /\ m # l => cur[m] # f
        <5>1. CASE f = cur[l]
          BY <1>1, <5>1 DEF OnePlace
        <5>2. CASE f # cur[l]
          <6>1. Listed(f)
            BY <1>2, <2>7, <3>1, <5>2 DEF Listed
          <6> QED
            BY <1>1, <6>1 DEF OnePlace
        <5> QED
          BY <5>1, <5>2
      <4> QED
        BY <1>3, <1>4, <2>11, <3>1, <4>1 DEF Live
    <3>2. CASE f \notin FragmentsOf(p)
      BY <1>2, <1>3, <1>4, <2>11, <3>2 DEF Live
    <3> QED
      BY <3>1, <3>2
  <2> QED
    BY <1>1, <1>3, <2>1, <2>12, AccountedJoin
<1> QED
  BY <1>5, <1>6

LEMMA StepAccounted ==
  ASSUME IInv, Accounted, NEW l \in Loops, Step(l)
  PROVE  Accounted'
<1>1. TypeOK /\ ReadyWhole
  BY DEF IInv
<1>2. CASE Packet(l)
  <2>1. PICK f \in coming : cur' = [cur EXCEPT ![l] = f] /\ coming' = coming \ {f}
    BY <1>2 DEF Packet
  <2>2. UNCHANGED <<lists, out, lost>> /\ pc[l] = "accept" /\ pc' = [pc EXCEPT ![l] = "lookup"]
    BY <1>2 DEF Packet, Goto
  <2>3. /\ ~Held(l) /\ Held(l)' /\ cur'[l] = f
        /\ \A m \in Loops : m # l => (Held(m)' <=> Held(m)) /\ cur'[m] = cur[m]
    BY <1>1, <2>1, <2>2 DEF TypeOK, Held
  <2>4. \A e : Live(e)' <=> Live(e)
    <3>1. \A e : Listed(e)' <=> Listed(e)
      BY <2>2 DEF Listed
    <3> QED
      BY <2>1, <2>3, <3>1 DEF Live
  <2>5. \A m \in Loops : (Sends(m)' <=> Sends(m)) /\ (Sends(m) => cur'[m] = cur[m])
    BY <1>1, <2>1, <2>2 DEF TypeOK, Sends
  <2> QED
    BY <2>2, <2>4, <2>5, AccountedStays
<1>3. CASE Dissociate(l) \/ Lookup(l) \/ Insert(l)
  <2>1. UNCHANGED <<lists, out, lost, cur, coming>>
    BY <1>3 DEF Dissociate, Lookup, Insert
  <2>2. \A m \in Loops : (Sends(m)' <=> Sends(m)) /\ (Held(m)' <=> Held(m))
    BY <1>1, <1>3 DEF Dissociate, Lookup, Insert, Goto, TypeOK, Sends, Held
  <2>3. \A e : Live(e)' <=> Live(e)
    BY <2>1, <2>2 DEF Live, Listed
  <2> QED
    BY <2>1, <2>2, <2>3, AccountedStays
<1> QED
  BY <1>1, <1>2, <1>3, AccountedBindFails, AccountedRelayWhole, AccountedJoinStep,
     AccountedSend DEF Step

LEMMA NextAccounted == IInv /\ Accounted /\ [Next]_vars => Accounted'
<1> SUFFICES ASSUME IInv, Accounted, [Next]_vars
             PROVE  Accounted'
  OBVIOUS
<1>1. CASE UNCHANGED vars
  <2>1. \A e : Live(e)' <=> Live(e)
    BY <1>1 DEF vars, Live, Listed, Held
  <2>2. \A m \in Loops : (Sends(m)' <=> Sends(m)) /\ cur'[m] = cur[m]
    BY <1>1 DEF vars, Sends
  <2> QED
    BY <1>1, <2>1, <2>2, AccountedStays DEF vars
<1> QED
  BY <1>1, StepAccounted DEF Next

LEMMA InitAccounted == Init => Accounted
<1> SUFFICES ASSUME Init, NEW p \in Packets
             PROVE  Pending(p)
  BY DEF Accounted
<1>1. SentOf(p) = {} /\ \A l \in Loops : ~Sending(l, p)
  BY DEF Init, SentOf, Sending
<1>2. \A f \in FragmentsOf(p) : Live(f)
  BY DEF Init, FragmentsOf, Live
<1> QED
  BY <1>1, <1>2 DEF Pending

\* Not all the fragments of a packet are listed: a list is shorter than its packet.
LEMMA NeverAllListed ==
  ASSUME TypeOK, ListsPartial, NEW p \in Packets, \A f \in FragmentsOf(p) : Listed(f)
  PROVE  FALSE
<1> DEFINE n == Fragments[p]
           k == <<AssocOf[p], PktId[p]>>
<1>1. n \in 1 .. 255 /\ k \in Keys
  BY PacketsAssumption DEF Keys
<1>2. ASSUME NEW v \in 0 .. n - 1
      PROVE  \E i \in DOMAIN lists[k] : lists[k][i] = [pkt |-> p, id |-> v]
  <2>1. [pkt |-> p, id |-> v] \in FragmentsOf(p)
    BY FragmentMade
  <2>2. PICK h \in Keys : \E i \in DOMAIN lists[h] : lists[h][i] = [pkt |-> p, id |-> v]
    BY <2>1 DEF Listed
  <2>3. h = k
    BY <2>2 DEF ListsPartial, Key
  <2> QED
    BY <2>2, <2>3
<1>3. lists[k] \in Seq(Fragment)
  BY <1>1 DEF TypeOK, Data
<1>4. DOMAIN lists[k] = 1 .. Len(lists[k]) /\ Len(lists[k]) \in Nat
  BY <1>3
<1>5. Len(lists[k]) < n
  <2>1. PICK i \in DOMAIN lists[k] : lists[k][i] = [pkt |-> p, id |-> 0]
    BY <1>1, <1>2
  <2> QED
    BY <1>1, <2>1 DEF ListsPartial
<1> DEFINE at == [v \in 0 .. n - 1 |-> CHOOSE i \in DOMAIN lists[k] : lists[k][i] = [pkt |-> p, id |-> v]]
<1>6. \A v \in 0 .. n - 1 : at[v] \in DOMAIN lists[k] /\ lists[k][at[v]] = [pkt |-> p, id |-> v]
  BY <1>2
<1>7. at \in [0 .. n - 1 -> DOMAIN lists[k]]
  BY <1>6
<1> HIDE DEF at, k, n
<1>8. \A v, w \in 0 .. n - 1 : at[v] = at[w] => v = w
  <2>1. ASSUME NEW v \in 0 .. n - 1, NEW w \in 0 .. n - 1, at[v] = at[w]
        PROVE  v = w
    <3>1. [pkt |-> p, id |-> v] = [pkt |-> p, id |-> w]
      BY <1>6, <2>1
    <3> QED
      BY <3>1
  <2> QED
    BY <2>1
<1>9. at \in Injection(0 .. n - 1, DOMAIN lists[k])
  BY <1>7, <1>8 DEF Injection, IsInjective
<1>10. /\ IsFiniteSet(DOMAIN lists[k]) /\ Cardinality(DOMAIN lists[k]) = Len(lists[k])
       /\ Cardinality(0 .. n - 1) = n
  <2>1. IsFiniteSet(DOMAIN lists[k])
    BY <1>4, FS_Interval
  <2>2. Cardinality(DOMAIN lists[k]) = Len(lists[k])
    BY <1>4, FS_Interval
  <2>3. Cardinality(0 .. n - 1) = n
    BY <1>1, FS_Interval
  <2> QED
    BY <2>1, <2>2, <2>3
<1>11. n <= Len(lists[k])
  BY <1>9, <1>10, FS_Injection
<1> QED
  BY <1>1, <1>4, <1>5, <1>11

LEMMA SentOnceFollows == IInv /\ Accounted => SentOnce
<1> SUFFICES ASSUME IInv, Accounted, Settled, NEW p \in Packets, Arrived(p)
             PROVE  /\ Cardinality(SentOf(p)) = IF p \in Unresolvable THEN 0 ELSE 1
                    /\ \A i \in DOMAIN lists[<<AssocOf[p], PktId[p]>>] :
                         lists[<<AssocOf[p], PktId[p]>>][i].pkt # p
  BY DEF SentOnce, SentOf
<1> DEFINE k == <<AssocOf[p], PktId[p]>>
<1>1. TypeOK /\ ListsPartial /\ k \in Keys
  BY PacketsAssumption DEF IInv, Keys
<1>2. \A l \in Loops : ~Held(l) /\ ~Sending(l, p)
  BY DEF Settled, Held, Sending
<1>3. CASE Pending(p)
  <2>1. \A f \in FragmentsOf(p) : Listed(f)
    BY <1>2, <1>3 DEF Pending, Live, Arrived, FragmentsOf
  <2> QED
    BY <1>1, <2>1, NeverAllListed
<1>4. CASE Joined(p)
  <2>1. Cardinality(SentOf(p)) = IF p \in Unresolvable THEN 0 ELSE 1
    BY <1>2, <1>4, FS_EmptySet, FS_Singleton DEF Joined
  <2>2. ASSUME NEW i \in DOMAIN lists[k], lists[k][i].pkt = p
        PROVE  FALSE
    <3>1. lists[k] \in Seq(Fragment)
      BY <1>1 DEF TypeOK, Data
    <3>2. lists[k][i] \in Fragment
      BY <3>1
    <3>3. lists[k][i] \in FragmentsOf(p) /\ Live(lists[k][i])
      BY <1>1, <2>2, <3>2 DEF FragmentsOf, Live, Listed
    <3> QED
      BY <1>4, <3>3 DEF Joined
  <2> QED
    BY <2>1, <2>2
<1> QED
  BY <1>3, <1>4 DEF Accounted

LEMMA Invariance == Spec => []IInv
  BY InitIInv, NextIInv, PTL DEF Spec

-----------------------------------------------------------------------------

\* What is sent is one packet, whole and in order, from a socket of its association, for
\* any number of packets and fragments in any order on the two loops (relay_udp).
THEOREM SentWholeHolds == Spec => []SentWhole
<1>1. IInv => SentWhole
  BY DEF IInv, OutWhole, SentWhole
<1> QED
  BY <1>1, Invariance, PTL

\* A packet that has arrived has been sent once, and has left nothing in the FragmentMap
\* (relay_udp).
THEOREM SentOnceHolds == Spec => []SentOnce
  BY SentOnceFollows, InitAccounted, NextAccounted, Invariance, PTL DEF Spec

\* However often the two loops race for a session, an association costs one socket, and
\* one more for each dissociation (ensure_session).
THEOREM SocketsAccountedHolds == Spec => []SocketsAccounted
<1>1. IInv => SocketsAccounted
  <2> SUFFICES ASSUME IInv, NEW a \in Assocs
               PROVE  Cardinality(Sockets(a)) <= 1 + dissociated[a]
    BY DEF SocketsAccounted, Sockets
  <2>1. Cardinality(Sockets(a)) \in Nat /\ dissociated[a] \in Nat
    BY SocketsFinite DEF IInv, TypeOK
  <2>2. Cardinality(Sockets(a)) <= dissociated[a] + (IF sessions[a] = None THEN 0 ELSE 1)
    BY DEF IInv, SocketsPaid
  <2> QED
    BY <2>1, <2>2
<1> QED
  BY <1>1, Invariance, PTL

-----------------------------------------------------------------------------
(* The way back (TuicReplies, as Replies): the sessions of a client, which name theirs by  *)
(* a counter that wraps around, for any number of sessions, ids and packets.               *)

CONSTANTS Sessions, Ids, Room, Streams, MaxPackets
VARIABLES counter, state, assoc, udp_rx, queue, got, sent,
          toServer, toClient, asked, reader, streams

Replies == INSTANCE TuicReplies WITH pc <- state

RepliesAssumption == Replies!IdsAssumption /\ Replies!RoomAssumption

LEMMA RepliesNumbers ==
  ASSUME RepliesAssumption
  PROVE  Ids \in Nat \ {0} /\ MaxPackets \in Nat
BY DEF RepliesAssumption, Replies!IdsAssumption, Replies!RoomAssumption

OpenedNumber == Cardinality(Replies!Opened)

RepliesTyped ==
  /\ counter \in Replies!Assocs /\ state \in [Sessions -> {"new", "insert", "open", "dropped"}]
  /\ assoc \in [Sessions -> Replies!Assocs] /\ udp_rx \in [Replies!Assocs -> Sessions \cup {None}]
  /\ queue \in [Sessions -> Seq(Replies!Packet)] /\ got \in [Sessions -> Seq(Replies!Packet)]
  /\ toServer \subseteq Replies!Packet /\ toClient \subseteq Replies!Packet /\ asked \subseteq Replies!Packet
  /\ sent \in Nat

\* Packets are of sessions that have been opened.
SendersOpened == \A p \in toServer \cup asked \cup toClient : p.from \in Replies!Opened

\* A channel is filed under its session's id, and gets what has come for that id.
Filed ==
  \A a \in Replies!Assocs : udp_rx[a] # None =>
    udp_rx[a] \in Replies!Opened /\ assoc[udp_rx[a]] = a

Answered ==
  \A s \in Sessions : \A r \in Replies!Received(s) :
    r.from \in Replies!Opened /\ s \in Replies!Opened /\ assoc[r.from] = assoc[s]

\* Until the counter has gone round the ids drawn are 1, 2, ..., Ids - 1, 0.
Drawn ==
  /\ IsFiniteSet(Replies!Opened)
  /\ OpenedNumber < Ids => /\ counter = IF OpenedNumber + 1 = Ids THEN 0 ELSE OpenedNumber + 1
                           /\ \A s \in Replies!Opened : assoc[s] \in 1 .. OpenedNumber
  /\ OpenedNumber <= Ids => \A s, t \in Replies!Opened : assoc[s] = assoc[t] => s = t

RepliesInv == RepliesTyped /\ SendersOpened /\ Filed /\ Answered /\ Drawn

LEMMA WrapAround ==
  ASSUME RepliesAssumption, NEW c \in Replies!Assocs
  PROVE  (c + 1) % Ids = IF c + 1 = Ids THEN 0 ELSE c + 1
<1>1. Ids \in Nat /\ Ids > 0 /\ c \in Nat /\ c + 1 <= Ids
  BY RepliesNumbers DEF Replies!Assocs
<1>2. CASE c + 1 = Ids
  BY <1>1, <1>2
<1>3. CASE c + 1 < Ids
  BY <1>1, <1>3
<1>. QED  BY <1>1, <1>2, <1>3

LEMMA FirstId ==
  ASSUME RepliesAssumption
  PROVE  1 % Ids = (IF 1 = Ids THEN 0 ELSE 1) /\ 0 \in Replies!Assocs /\ 1 % Ids \in Replies!Assocs
<1>1. 0 \in Replies!Assocs
  BY RepliesNumbers DEF Replies!Assocs
<1>2. 1 % Ids = (IF 1 = Ids THEN 0 ELSE 1)
  BY <1>1, WrapAround
<1>. QED  BY <1>1, <1>2, RepliesNumbers DEF Replies!Assocs

LEMMA InitReplies ==
  ASSUME RepliesAssumption, Replies!Init
  PROVE  RepliesInv
<1>1. RepliesTyped
  BY FirstId DEF Replies!Init, RepliesTyped
<1>2. Replies!Opened = {} /\ OpenedNumber = 0 /\ IsFiniteSet(Replies!Opened)
  BY FS_EmptySet DEF Replies!Init, Replies!Opened, OpenedNumber
<1>3. SendersOpened /\ Filed /\ Answered
  BY DEF Replies!Init, SendersOpened, Filed, Answered, Replies!Received
<1>4. Drawn
  BY <1>2, FirstId, RepliesNumbers DEF Replies!Init, Drawn
<1>. QED  BY <1>1, <1>3, <1>4 DEF RepliesInv

\* A step that opens no session.
LEMMA NoneOpened ==
  ASSUME RepliesInv, UNCHANGED <<counter, assoc>>, Replies!Opened' = Replies!Opened,
         RepliesTyped', SendersOpened', Filed', Answered'
  PROVE  RepliesInv'
BY DEF RepliesInv, Drawn, OpenedNumber

LEMMA OpenReplies ==
  ASSUME RepliesAssumption, RepliesInv, NEW s \in Sessions, Replies!Open(s)
  PROVE  RepliesInv'
<1> DEFINE n == OpenedNumber
<1>1. /\ assoc' = [assoc EXCEPT ![s] = counter] /\ counter' = (counter + 1) % Ids
      /\ state' = [state EXCEPT ![s] = "insert"] /\ s \notin Replies!Opened
      /\ UNCHANGED <<udp_rx, queue, got, sent, toServer, toClient, asked>>
  BY DEF Replies!Open, Replies!Opened, Replies!inbox, Replies!server
<1>2. Replies!Opened' = Replies!Opened \cup {s} /\ \A t \in Replies!Opened : assoc'[t] = assoc[t] /\ t # s
  BY <1>1 DEF RepliesInv, RepliesTyped, Replies!Opened
<1>3. assoc'[s] = counter
  BY <1>1 DEF RepliesInv, RepliesTyped
<1>4. counter' = IF counter + 1 = Ids THEN 0 ELSE counter + 1
  BY <1>1, WrapAround DEF RepliesInv, RepliesTyped
<1>5. RepliesTyped'
  <2>1. counter' \in Replies!Assocs
    BY <1>4, RepliesNumbers DEF RepliesInv, RepliesTyped, Replies!Assocs
  <2>. QED  BY <1>1, <2>1 DEF RepliesInv, RepliesTyped
<1>6. SendersOpened' /\ Filed' /\ Answered'
  BY <1>1, <1>2 DEF RepliesInv, SendersOpened, Filed, Answered, Replies!Received
<1>7. /\ IsFiniteSet(Replies!Opened') /\ n' = n + 1 /\ n \in Nat
  BY <1>1, <1>2, FS_AddElement, FS_CardinalityType DEF RepliesInv, Drawn, OpenedNumber
<1>8. ASSUME n' < Ids
      PROVE  /\ counter' = IF n' + 1 = Ids THEN 0 ELSE n' + 1
             /\ \A t \in Replies!Opened' : assoc'[t] \in 1 .. n'
  <2>1. counter = n + 1 /\ \A t \in Replies!Opened : assoc[t] \in 1 .. n
    BY <1>7, <1>8, RepliesNumbers DEF RepliesInv, Drawn
  <2>2. counter' = IF n' + 1 = Ids THEN 0 ELSE n' + 1
    BY <1>4, <1>7, <2>1
  <2>3. \A t \in Replies!Opened : assoc'[t] \in 1 .. n'
    BY <1>2, <1>7, <2>1
  <2>. QED  BY <1>2, <1>3, <1>7, <2>1, <2>2, <2>3
<1>9. ASSUME n' <= Ids
      PROVE  \A t, u \in Replies!Opened' : assoc'[t] = assoc'[u] => t = u
  <2>1. n < Ids /\ counter \notin 1 .. n
    BY <1>7, <1>9, RepliesNumbers DEF RepliesInv, Drawn
  <2>2. \A t \in Replies!Opened : assoc[t] # counter
    BY <2>1 DEF RepliesInv, Drawn
  <2>3. \A t, u \in Replies!Opened : assoc[t] = assoc[u] => t = u
    BY <1>7, <2>1, RepliesNumbers DEF RepliesInv, Drawn
  <2>. QED  BY <1>2, <1>3, <2>2, <2>3
<1>10. Drawn'
  BY <1>7, <1>8, <1>9 DEF Drawn
<1>. QED  BY <1>5, <1>6, <1>10 DEF RepliesInv

LEMMA SessionReplies ==
  ASSUME RepliesAssumption, RepliesInv, NEW s \in Sessions,
         Replies!OpenInsert(s) \/ Replies!SendTo(s) \/ Replies!DropSession(s)
  PROVE  RepliesInv'
<1>1. s \in Replies!Opened /\ state[s] \in {"insert", "open"} /\ RepliesTyped
  BY DEF Replies!OpenInsert, Replies!SendTo, Replies!DropSession, Replies!Opened, RepliesInv
<1>2. Replies!Opened' = Replies!Opened /\ UNCHANGED <<counter, assoc>>
  BY <1>1 DEF Replies!OpenInsert, Replies!SendTo, Replies!DropSession, Replies!Opened,
         RepliesTyped, Replies!client
<1>3. CASE Replies!OpenInsert(s)
  <2>1. /\ udp_rx' = [udp_rx EXCEPT ![assoc[s]] = s] /\ state' = [state EXCEPT ![s] = "open"]
        /\ UNCHANGED <<queue, got, sent, toServer, toClient, asked>>
    BY <1>3 DEF Replies!OpenInsert, Replies!inbox, Replies!server
  <2>2. RepliesTyped' /\ assoc[s] \in Replies!Assocs
    BY <1>1, <1>2, <2>1 DEF RepliesTyped
  <2>3. Filed'
    BY <1>1, <1>2, <2>1, <2>2 DEF RepliesInv, Filed, RepliesTyped
  <2>4. SendersOpened' /\ Answered'
    BY <1>2, <2>1 DEF RepliesInv, SendersOpened, Answered, Replies!Received
  <2>. QED  BY <1>2, <2>2, <2>3, <2>4, NoneOpened
<1>4. CASE Replies!SendTo(s)
  <2>1. UNCHANGED <<udp_rx, state, queue, got, toClient, asked>>
    BY <1>4 DEF Replies!SendTo, Replies!client, Replies!inbox, Replies!server
  <2>2. PICK p : p = [from |-> s, nr |-> sent'] /\ toServer' = toServer \cup {p}
    BY <1>4 DEF Replies!SendTo
  <2>3. sent' \in Nat /\ p \in Replies!Packet
    BY <1>1, <1>4, <2>2, RepliesNumbers DEF Replies!SendTo, Replies!Packet, RepliesTyped
  <2>4. RepliesTyped'
    BY <1>1, <1>2, <2>1, <2>2, <2>3 DEF RepliesTyped
  <2>5. SendersOpened'
    BY <1>1, <1>2, <2>1, <2>2 DEF RepliesInv, SendersOpened
  <2>6. Filed' /\ Answered'
    BY <1>2, <2>1 DEF RepliesInv, Filed, Answered, Replies!Received
  <2>. QED  BY <1>2, <2>4, <2>5, <2>6, NoneOpened
<1>5. CASE Replies!DropSession(s)
  <2>1. /\ state' = [state EXCEPT ![s] = "dropped"] /\ queue' = [queue EXCEPT ![s] = <<>>]
        /\ UNCHANGED <<udp_rx, got, sent, toServer, toClient, asked>>
    BY <1>5 DEF Replies!DropSession, Replies!server
  <2>2. RepliesTyped'
    BY <1>1, <1>2, <2>1 DEF RepliesTyped
  <2>3. \A t \in Sessions : Replies!Received(t)' \subseteq Replies!Received(t)
    BY <1>1, <2>1 DEF Replies!Received, RepliesTyped
  <2>4. SendersOpened' /\ Filed' /\ Answered'
    BY <1>2, <2>1, <2>3 DEF RepliesInv, SendersOpened, Filed, Answered
  <2>. QED  BY <1>2, <2>2, <2>4, NoneOpened
<1>. QED  BY <1>3, <1>4, <1>5

LEMMA RecvReplies ==
  ASSUME RepliesInv, NEW s \in Sessions, Replies!Recv(s)
  PROVE  RepliesInv'
<1>1. /\ queue[s] # <<>> /\ queue' = [queue EXCEPT ![s] = Tail(queue[s])]
      /\ got' = [got EXCEPT ![s] = Append(got[s], Head(queue[s]))]
      /\ UNCHANGED <<Replies!client, sent, toServer, toClient, Replies!server>> /\ RepliesTyped
  BY DEF Replies!Recv, RepliesInv, RepliesTyped
<1>2. queue[s] \in Seq(Replies!Packet) /\ got[s] \in Seq(Replies!Packet)
  BY <1>1 DEF RepliesTyped
<1>3. /\ Tail(queue[s]) \in Seq(Replies!Packet) /\ Append(got[s], Head(queue[s])) \in Seq(Replies!Packet)
      /\ Head(queue[s]) = queue[s][1] /\ 1 \in DOMAIN queue[s]
      /\ \A i \in DOMAIN Tail(queue[s]) : i + 1 \in DOMAIN queue[s] /\ Tail(queue[s])[i] = queue[s][i + 1]
      /\ \A i \in DOMAIN Append(got[s], Head(queue[s])) :
           \/ i \in DOMAIN got[s] /\ Append(got[s], Head(queue[s]))[i] = got[s][i]
           \/ Append(got[s], Head(queue[s]))[i] = Head(queue[s])
  BY <1>1, <1>2
<1>4. RepliesTyped' /\ Replies!Opened' = Replies!Opened
  BY <1>1, <1>3 DEF RepliesTyped, Replies!Opened, Replies!client, Replies!server
<1>5. \A t \in Sessions : Replies!Received(t)' \subseteq Replies!Received(t)
  <2>1. Replies!Received(s)' \subseteq Replies!Received(s)
    BY <1>1, <1>3 DEF Replies!Received, RepliesTyped
  <2>2. \A t \in Sessions \ {s} : Replies!Received(t)' = Replies!Received(t)
    BY <1>1 DEF Replies!Received, RepliesTyped
  <2>. QED  BY <2>1, <2>2
<1>6. SendersOpened' /\ Filed' /\ Answered'
  BY <1>1, <1>4, <1>5 DEF RepliesInv, SendersOpened, Filed, Answered, Replies!client, Replies!server
<1>. QED  BY <1>1, <1>4, <1>6, NoneOpened DEF Replies!client

LEMMA DispatchReplies ==
  ASSUME RepliesInv, NEW r \in Replies!Packet, Replies!Dispatch(r)
  PROVE  RepliesInv'
<1> DEFINE s == udp_rx[assoc[r.from]]
<1>1. /\ r \in toClient /\ toClient' = toClient \ {r} /\ RepliesTyped
      /\ queue' = IF Replies!HasRoom(s) THEN [queue EXCEPT ![s] = Append(queue[s], r)] ELSE queue
      /\ UNCHANGED <<Replies!client, got, sent, toServer, Replies!server>>
  BY DEF Replies!Dispatch, RepliesInv
<1>2. r.from \in Replies!Opened /\ r.from \in Sessions /\ assoc[r.from] \in Replies!Assocs
      /\ Replies!Opened' = Replies!Opened
  BY <1>1 DEF RepliesInv, RepliesTyped, SendersOpened, Replies!Opened, Replies!client
<1>3. CASE ~Replies!HasRoom(s)
  <2>1. UNCHANGED <<queue, got>>
    BY <1>1, <1>3
  <2>2. RepliesTyped' /\ SendersOpened'
    BY <1>1, <1>2, <2>1 DEF RepliesInv, RepliesTyped, SendersOpened, Replies!client, Replies!server
  <2>3. Filed' /\ Answered'
    BY <1>1, <1>2, <2>1 DEF RepliesInv, Filed, Answered, Replies!Received, Replies!client
  <2>. QED  BY <1>1, <1>2, <2>2, <2>3, NoneOpened DEF Replies!client
<1>4. CASE Replies!HasRoom(s)
  <2>1. s \in Sessions /\ s \in Replies!Opened /\ assoc[s] = assoc[r.from]
    BY <1>1, <1>2, <1>4 DEF Replies!HasRoom, RepliesInv, Filed, Replies!Opened
  <2>2. queue[s] \in Seq(Replies!Packet) /\ queue'[s] = Append(queue[s], r)
        /\ \A t \in Sessions \ {s} : queue'[t] = queue[t]
    BY <1>1, <1>4, <2>1 DEF RepliesTyped
  <2>3. \A i \in DOMAIN Append(queue[s], r) :
           (i \in DOMAIN queue[s] /\ Append(queue[s], r)[i] = queue[s][i]) \/ Append(queue[s], r)[i] = r
    BY <2>2
  <2>4. ASSUME NEW t \in Sessions, NEW x \in Replies!Received(t)'
        PROVE  x \in Replies!Received(t) \/ (t = s /\ x = r)
    <3>1. got' = got
      BY <1>1
    <3>2. CASE t = s
      <4>1. queue'[t] = Append(queue[s], r)
        BY <2>2, <3>2
      <4>2. \/ x \in {got[t][i] : i \in DOMAIN got[t]}
            \/ \E i \in DOMAIN Append(queue[s], r) : x = Append(queue[s], r)[i]
        BY <2>4, <3>1, <4>1 DEF Replies!Received
      <4>. QED  BY <2>3, <3>2, <4>2 DEF Replies!Received
    <3>3. CASE t # s
      BY <2>2, <2>4, <3>1, <3>3 DEF Replies!Received
    <3>. QED  BY <3>2, <3>3
  <2>5. RepliesTyped'
    <3>1. Append(queue[s], r) \in Seq(Replies!Packet)
      BY <2>2
    <3>. QED  BY <1>1, <1>4, <2>1, <3>1 DEF RepliesTyped, Replies!client, Replies!server
  <2>6. Answered'
    BY <1>1, <1>2, <2>1, <2>4 DEF RepliesInv, Answered, Replies!client
  <2>7. SendersOpened' /\ Filed'
    BY <1>1, <1>2 DEF RepliesInv, SendersOpened, Filed, Replies!client, Replies!server
  <2>. QED  BY <1>1, <1>2, <2>5, <2>6, <2>7, NoneOpened DEF Replies!client
<1>. QED  BY <1>3, <1>4

\* What the server and the network do.
LEMMA ServerReplies ==
  ASSUME RepliesInv,
         \/ \E p \in Replies!Packet : Replies!Relay(p) \/ Replies!ReadSmall(p) \/ Replies!ReadLarge(p)
         \/ \E a \in Replies!Assocs : Replies!SendUni(a)
         \/ Replies!Lose \/ UNCHANGED Replies!vars
  PROVE  RepliesInv'
<1>1. UNCHANGED <<Replies!client, Replies!inbox, sent>>
  BY DEF Replies!Relay, Replies!ReadSmall, Replies!ReadLarge, Replies!SendUni, Replies!Lose,
     Replies!vars
<1>2. /\ toServer' \cup asked' \cup toClient' \subseteq toServer \cup asked \cup toClient
      /\ Replies!Opened' = Replies!Opened
  BY <1>1 DEF Replies!Relay, Replies!ReadSmall, Replies!ReadLarge, Replies!SendUni,
            Replies!Lose, Replies!vars, Replies!server, Replies!Opened, Replies!client
<1>3. RepliesTyped' /\ SendersOpened' /\ Filed' /\ Answered'
  BY <1>1, <1>2 DEF RepliesInv, RepliesTyped, SendersOpened, Filed, Answered, Replies!Received,
                 Replies!client, Replies!inbox
<1>. QED  BY <1>1, <1>2, <1>3, NoneOpened DEF Replies!client

LEMMA NextReplies ==
  ASSUME RepliesAssumption, RepliesInv, [Replies!Next]_(Replies!vars)
  PROVE  RepliesInv'
BY OpenReplies, SessionReplies, RecvReplies, DispatchReplies, ServerReplies DEF Replies!Next

\* A session receives the answers to packets of its own id only, and of its own only until
\* the 16-bit counter has gone round, whatever datagrams are lost or late and however
\* sessions are opened and dropped (proxy/tuic.rs open_udp, TuicUdp).
THEOREM OwnRepliesHolds == RepliesAssumption => (Replies!Spec => []Replies!OwnReplies)
<1>. SUFFICES ASSUME RepliesAssumption PROVE Replies!Spec => []Replies!OwnReplies
  OBVIOUS
<1>1. ASSUME RepliesInv PROVE Replies!OwnReplies
  <2>1. ASSUME NEW s \in Sessions, NEW r \in Replies!Received(s)
        PROVE  assoc[r.from] = assoc[s] /\ (r.from # s => OpenedNumber > Ids)
    <3>1. r.from \in Replies!Opened /\ s \in Replies!Opened /\ assoc[r.from] = assoc[s]
      BY <1>1, <2>1 DEF RepliesInv, Answered
    <3>2. OpenedNumber \in Nat /\ (OpenedNumber <= Ids => r.from = s)
      BY <1>1, <3>1, FS_CardinalityType DEF RepliesInv, Drawn, OpenedNumber
    <3>. QED  BY <3>1, <3>2, RepliesNumbers
  <2>2. Replies!Cardinality(Replies!Opened) = OpenedNumber
    BY DEF OpenedNumber, Cardinality, Replies!Cardinality
  <2>. QED  BY <2>1, <2>2 DEF Replies!OwnReplies
<1>2. Replies!Init => RepliesInv
  BY InitReplies
<1>3. RepliesInv /\ [Replies!Next]_(Replies!vars) => RepliesInv'
  BY NextReplies
<1>. QED  BY <1>1, <1>2, <1>3, PTL DEF Replies!Spec
=============================================================================
