----------------------------- MODULE Relay_proofs -----------------------------
(***************************************************************************)
(* Theorems about Relay, for pipes of every capacity and streams of every  *)
(* length.                                                                 *)
(***************************************************************************)
EXTENDS Relay, SequenceTheorems, TLAPS

PipeState == [q : Seq(Nat), end : {"open", "eof", "rst"}]
PipeMap   == [Dirs -> [Pipes -> PipeState]]

TypeOK ==
  /\ kind \in {"tcp", "ws", "tuic", "anytls"}
  /\ pipe \in PipeMap
  /\ work \in [Dirs -> [Pipes -> {"run", "ended", "failed"}]]
  /\ pc \in {"header", "dial", "confirm", "relay", "done"}
  /\ app \in {"start", "wait", "open", "gone", "lost"}
  /\ shut \in BOOLEAN
  /\ ups \in {"none", "open", "gone"}
  /\ sent \in [Dirs -> Nat]
  /\ got \in [Dirs -> Seq(Nat)]
  /\ fin \in [Dirs -> {"open", "eof", "rst"}]
  /\ trouble \subseteq {"overflow", "refused", "left", "cut", "lost", "reset"}
  /\ age \in Nat

\* Before the upstream is connected nothing flows towards the client.
Silent ==
  ups = "none" =>
    /\ pc \in {"header", "dial", "done"}
    /\ \A p \in Pipes : pipe["down"][p].q = <<>>

-----------------------------------------------------------------------------
(* Routes *)

Kind == kind \in {"tcp", "ws", "tuic", "anytls"}

SuccOf(r)   == [p \in {r[i] : i \in 1 .. Len(r) - 1} |-> r[CHOOSE i \in 2 .. Len(r) : r[i - 1] = p]]
Distinct(r) == \A i, j \in 1 .. Len(r) : r[i] = r[j] => i = j

LEMMA SuccValue ==
  ASSUME NEW r, Len(r) \in Nat, Distinct(r), NEW i \in 2 .. Len(r)
  PROVE  SuccOf(r)[r[i - 1]] = r[i]
<1>1. PICK j : j = CHOOSE x \in 2 .. Len(r) : r[x - 1] = r[i - 1]
  OBVIOUS
<1>2. j \in 2 .. Len(r) /\ r[j - 1] = r[i - 1]
  BY <1>1
<1>3. j = i
  <2>1. j - 1 \in 1 .. Len(r) /\ i - 1 \in 1 .. Len(r)
    BY <1>2
  <2>. QED  BY <1>2, <2>1 DEF Distinct
<1>4. r[i - 1] \in {r[x] : x \in 1 .. Len(r) - 1}
  <2>1. i - 1 \in 1 .. Len(r) - 1
    OBVIOUS
  <2>. QED  BY <2>1
<1>. QED  BY <1>1, <1>3, <1>4 DEF SuccOf

LEMMA SuccessorsOf ==
  ASSUME Kind, NEW d \in Dirs
  PROVE  Successors[kind][d] = SuccOf(Routes[kind][d])
BY ZenonT(60) DEF Successors, Routes, SuccOf, Kind

\* First, Exit, Links and After of a direction, from its route.
LEMMA RouteTable ==
  ASSUME Kind, NEW d \in Dirs, NEW r, r = Routes[kind][d], Len(r) \in Nat, Distinct(r)
  PROVE  /\ First(d) = r[1] /\ Exit(d) = r[Len(r)]
         /\ Links(d) = DOMAIN SuccOf(r)
         /\ \A i \in 2 .. Len(r) : After(d, r[i - 1]) = r[i]
<1>1. Successors[kind][d] = SuccOf(r)
  BY SuccessorsOf
<1>2. First(d) = r[1] /\ Exit(d) = r[Len(r)] /\ Links(d) = DOMAIN SuccOf(r)
  BY <1>1 DEF First, Exit, Links
<1>3. \A i \in 2 .. Len(r) : After(d, r[i - 1]) = r[i]
  BY <1>1, SuccValue DEF After
<1>. QED  BY <1>2, <1>3

LEMMA RoutesUp ==
  ASSUME Kind
  PROVE  IF kind \in {"tcp", "tuic"}
         THEN /\ First("up") = "wire" /\ Exit("up") = "upstream" /\ Links("up") = {"wire"}
              /\ After("up", "wire") = "upstream"
         ELSE /\ First("up") = "client" /\ Exit("up") = "upstream"
              /\ Links("up") = {"client", "wire", "server"}
              /\ After("up", "client") = "wire" /\ After("up", "wire") = "server"
              /\ After("up", "server") = "upstream"
<1>1. CASE kind \in {"tcp", "tuic"}
  <2>1. PICK r : r = <<"wire", "upstream">>
    OBVIOUS
  <2>2. r = Routes[kind]["up"] /\ "up" \in Dirs
    BY <1>1, <2>1 DEF Routes, Dirs
  <2>3. Len(r) = 2 /\ r[1] = "wire" /\ r[2] = "upstream"
    BY <2>1
  <2>4. Distinct(r)
    BY <2>3 DEF Distinct
  <2>5. /\ First("up") = r[1] /\ Exit("up") = r[Len(r)] /\ Links("up") = DOMAIN SuccOf(r)
        /\ \A i \in 2 .. Len(r) : After("up", r[i - 1]) = r[i]
    BY <2>2, <2>3, <2>4, RouteTable
  <2>6. After("up", r[2 - 1]) = r[2]
    BY <2>3, <2>5
  <2>7. DOMAIN SuccOf(r) = {"wire"}
    BY <2>3 DEF SuccOf
  <2>. QED  BY <1>1, <2>3, <2>5, <2>6, <2>7
<1>2. CASE kind \in {"ws", "anytls"}
  <2>1. PICK r : r = <<"client", "wire", "server", "upstream">>
    OBVIOUS
  <2>2. r = Routes[kind]["up"] /\ "up" \in Dirs
    BY <1>2, <2>1 DEF Routes, Dirs
  <2>3. Len(r) = 4 /\ r[1] = "client" /\ r[2] = "wire" /\ r[3] = "server" /\ r[4] = "upstream"
    BY <2>1
  <2>4. Distinct(r)
    BY <2>3 DEF Distinct
  <2>5. /\ First("up") = r[1] /\ Exit("up") = r[Len(r)] /\ Links("up") = DOMAIN SuccOf(r)
        /\ \A i \in 2 .. Len(r) : After("up", r[i - 1]) = r[i]
    BY <2>2, <2>3, <2>4, RouteTable
  <2>6. After("up", r[2 - 1]) = r[2] /\ After("up", r[3 - 1]) = r[3] /\ After("up", r[4 - 1]) = r[4]
    BY <2>3, <2>5
  <2>7. DOMAIN SuccOf(r) = {"client", "wire", "server"}
    BY <2>3 DEF SuccOf
  <2>. QED  BY <1>2, <2>3, <2>5, <2>6, <2>7
<1>. QED  BY <1>1, <1>2 DEF Kind

LEMMA RoutesDown ==
  ASSUME Kind
  PROVE  /\ First("down") = "upstream"
         /\ IF kind \in {"tcp", "tuic"}
            THEN /\ Exit("down") = "wire" /\ Links("down") = {"upstream"}
                 /\ After("down", "upstream") = "wire"
            ELSE IF kind = "ws"
            THEN /\ Exit("down") = "client" /\ Links("down") = {"upstream", "server", "wire"}
                 /\ After("down", "upstream") = "server" /\ After("down", "server") = "wire"
                 /\ After("down", "wire") = "client"
            ELSE /\ Exit("down") = "client" /\ Links("down") = {"upstream", "wire"}
                 /\ After("down", "upstream") = "wire" /\ After("down", "wire") = "client"
<1>1. CASE kind \in {"tcp", "tuic"}
  <2>1. PICK r : r = <<"upstream", "wire">>
    OBVIOUS
  <2>2. r = Routes[kind]["down"] /\ "down" \in Dirs
    BY <1>1, <2>1 DEF Routes, Dirs
  <2>3. Len(r) = 2 /\ r[1] = "upstream" /\ r[2] = "wire"
    BY <2>1
  <2>4. Distinct(r)
    BY <2>3 DEF Distinct
  <2>5. /\ First("down") = r[1] /\ Exit("down") = r[Len(r)] /\ Links("down") = DOMAIN SuccOf(r)
        /\ \A i \in 2 .. Len(r) : After("down", r[i - 1]) = r[i]
    BY <2>2, <2>3, <2>4, RouteTable
  <2>6. After("down", r[2 - 1]) = r[2]
    BY <2>3, <2>5
  <2>7. DOMAIN SuccOf(r) = {"upstream"}
    BY <2>3 DEF SuccOf
  <2>. QED  BY <1>1, <2>3, <2>5, <2>6, <2>7
<1>2. CASE kind = "ws"
  <2>1. PICK r : r = <<"upstream", "server", "wire", "client">>
    OBVIOUS
  <2>2. r = Routes[kind]["down"] /\ "down" \in Dirs
    BY <1>2, <2>1 DEF Routes, Dirs
  <2>3. Len(r) = 4 /\ r[1] = "upstream" /\ r[2] = "server" /\ r[3] = "wire" /\ r[4] = "client"
    BY <2>1
  <2>4. Distinct(r)
    BY <2>3 DEF Distinct
  <2>5. /\ First("down") = r[1] /\ Exit("down") = r[Len(r)] /\ Links("down") = DOMAIN SuccOf(r)
        /\ \A i \in 2 .. Len(r) : After("down", r[i - 1]) = r[i]
    BY <2>2, <2>3, <2>4, RouteTable
  <2>6. After("down", r[2 - 1]) = r[2] /\ After("down", r[3 - 1]) = r[3] /\ After("down", r[4 - 1]) = r[4]
    BY <2>3, <2>5
  <2>7. DOMAIN SuccOf(r) = {"upstream", "server", "wire"}
    BY <2>3 DEF SuccOf
  <2>. QED  BY <1>2, <2>3, <2>5, <2>6, <2>7
<1>3. CASE kind = "anytls"
  <2>1. PICK r : r = <<"upstream", "wire", "client">>
    OBVIOUS
  <2>2. r = Routes[kind]["down"] /\ "down" \in Dirs
    BY <1>3, <2>1 DEF Routes, Dirs
  <2>3. Len(r) = 3 /\ r[1] = "upstream" /\ r[2] = "wire" /\ r[3] = "client"
    BY <2>1
  <2>4. Distinct(r)
    BY <2>3 DEF Distinct
  <2>5. /\ First("down") = r[1] /\ Exit("down") = r[Len(r)] /\ Links("down") = DOMAIN SuccOf(r)
        /\ \A i \in 2 .. Len(r) : After("down", r[i - 1]) = r[i]
    BY <2>2, <2>3, <2>4, RouteTable
  <2>6. After("down", r[2 - 1]) = r[2] /\ After("down", r[3 - 1]) = r[3]
    BY <2>3, <2>5
  <2>7. DOMAIN SuccOf(r) = {"upstream", "wire"}
    BY <2>3 DEF SuccOf
  <2>. QED  BY <1>3, <2>3, <2>5, <2>6, <2>7
<1>. QED  BY <1>1, <1>2, <1>3 DEF Kind

\* The pipes of a direction are in a line.
LEMMA Line ==
  ASSUME Kind, NEW d \in Dirs
  PROVE  /\ First(d) \in Pipes /\ Exit(d) \in Pipes /\ Exit(d) \notin Links(d) /\ First(d) \in Links(d)
         /\ Links(d) \subseteq Pipes
         /\ \A p \in Links(d) : /\ After(d, p) \in Links(d) \cup {Exit(d)}
                                /\ After(d, p) # p /\ After(d, p) # First(d)
         /\ \A p, q \in Links(d) : After(d, p) = After(d, q) => p = q
         /\ \A q \in Links(d) \cup {Exit(d)} : q = First(d) \/ \E p \in Links(d) : q = After(d, p)
<1>1. CASE d = "up"
  BY <1>1, RoutesUp DEF Pipes
<1>2. CASE d = "down"
  BY <1>2, RoutesDown DEF Pipes, Kind
<1>. QED  BY <1>1, <1>2 DEF Dirs

\* The handler's ends of the route.
LEMMA HandlerEnds ==
  ASSUME Kind
  PROVE  /\ Inlet \in Links("up") /\ After("up", Inlet) = "upstream" /\ Exit("up") = "upstream"
         /\ "upstream" \in Links("down") /\ First("down") = "upstream"
         /\ After("down", "upstream") = Outlet /\ "upstream" \notin Links("up")
BY RoutesUp, RoutesDown DEF Kind, Inlet, Outlet

-----------------------------------------------------------------------------
(* The inductive invariant of a connection that nothing has disturbed.  Data that  *)
(* overtakes an end, or an end that overtakes data, would break it.               *)

\* The chunks of s are numbered from n on.
From(s, n) == \A k \in 1 .. Len(s) : s[k] + 1 = n + k

\* Of a WebSocket that closes as a whole: a task that may fail because the other direction
\* closed first, all the way to where this one's client or upstream ended it.
Overtaken(d, p) ==
  /\ kind = "ws"
  /\ IF d = "up" THEN /\ p = "client"
                      /\ \A r \in Links("down") : work["down"][r] = "ended"
                 ELSE /\ p \in {"upstream", "server"}
                      /\ work["up"]["client"] = "ended" /\ work["up"]["wire"] = "ended"

\* A pipe has ended exactly when the task that writes to it has, and a task has only when
\* all that came before has passed through it.
Ordered ==
  /\ app # "gone" /\ ups # "gone"
  /\ \A d \in Dirs : \A p \in Pipes : pipe[d][p].end # "rst"
  /\ \A d \in Dirs : \A p \in Links(d) :
       /\ pipe[d][After(d, p)].end = "open" <=> work[d][p] = "run"
       /\ work[d][p] = "ended" => AtEnd(d, p)
       /\ work[d][p] = "failed" => Overtaken(d, p)
  /\ pipe["up"][First("up")].end # "open" => shut
  /\ \A d \in Dirs : fin[d] # "open" => AtEnd(d, Exit(d))
  /\ pc = "done" => BothDone

\* Before the header is sent, before it is read, and before the relay begins.
Phases ==
  /\ app = "start" => /\ pc = "header" /\ sent["up"] = 0
                      /\ \A p \in Pipes : pipe["up"][p].q = <<>>
  /\ pc = "header" => got["up"] = <<>> /\ pipe["up"]["upstream"].q = <<>>
  /\ app \in {"start", "wait"} => ~shut /\ got["down"] = <<>>
  /\ app = "wait" => Vless
  /\ fin["down"] # "open" => app = "open"
  /\ fin["up"] # "open" => ups = "open"
  /\ ups = "none" <=> pc \in {"header", "dial"}
  /\ pc \in {"header", "dial", "confirm"} =>
       /\ got["down"] = <<>> /\ (Vless => app # "open")
       /\ \A p \in Pipes \ {"upstream"} : pipe["down"][p].q = <<>>
       /\ \A p \in Links("down") : work["down"][p] = "run"
       /\ sent["down"] = Len(pipe["down"]["upstream"].q)
       /\ From(pipe["down"]["upstream"].q, 1)
  /\ pc = "confirm" => Vless

\* Chunks are numbered in the order they were sent, the header (or the confirmation)
\* being chunk 0: b[p] chunks have left pipe p of the queues q; g is what has arrived, t is
\* 1 when the header has been taken, and s chunks have been sent.
Counts(d, q, g, t, s, b) ==
  /\ b[Exit(d)] = Len(g) + t
  /\ \A p \in Links(d) : b[p] = b[After(d, p)] + Len(q[After(d, p)])
  /\ b[First(d)] + Len(q[First(d)]) = s + 1
  /\ \A p \in Links(d) \cup {Exit(d)} : From(q[p], b[p])
  /\ From(g, 1)

Taken(d) == IF (IF d = "up" THEN pc # "header" ELSE ~Vless \/ app = "open") THEN 1 ELSE 0

Queues(d) == [p \in Pipes |-> pipe[d][p].q]

Numbered(d, b) == Counts(d, Queues(d), got[d], Taken(d), sent[d], b)

Started(d) == IF d = "up" THEN app # "start" ELSE pc \in {"relay", "done"}

Flow(d) == Started(d) /\ EndedFirst(d) => \E b \in [Pipes -> Nat] : Numbered(d, b)

Calm == Ordered /\ Phases /\ \A d \in Dirs : Flow(d)

Undisturbed == trouble = {} => Calm

-----------------------------------------------------------------------------
(* Pipes *)

LEMMA PutTyped ==
  ASSUME NEW pi \in PipeMap, NEW d \in Dirs, NEW p \in Pipes, NEW x \in Nat
  PROVE  /\ Put(pi, d, p, x) \in PipeMap
         /\ \A e \in Dirs : e # d => Put(pi, d, p, x)[e] = pi[e]
         /\ \A r \in Pipes : r # p => Put(pi, d, p, x)[d][r] = pi[d][r]
         /\ Put(pi, d, p, x)[d][p].end = pi[d][p].end
         /\ Put(pi, d, p, x)[d][p].q =
              IF pi[d][p].end = "open" THEN Append(pi[d][p].q, x) ELSE pi[d][p].q
<1>1. pi[d][p] \in PipeState /\ pi[d] \in [Pipes -> PipeState]
  BY DEF PipeMap
<1>2. pi[d][p].q \in Seq(Nat)
  BY <1>1 DEF PipeState
<1>3. Append(pi[d][p].q, x) \in Seq(Nat)
  BY <1>2
<1>4. [pi[d][p] EXCEPT !.q = Append(@, x)] \in PipeState
  BY <1>1, <1>3 DEF PipeState
<1>. QED  BY <1>1, <1>4 DEF Put, PipeMap, PipeState

LEMMA TakeTyped ==
  ASSUME NEW pi \in PipeMap, NEW d \in Dirs, NEW p \in Pipes, pi[d][p].q # <<>>
  PROVE  /\ Take(pi, d, p) \in PipeMap
         /\ \A e \in Dirs : e # d => Take(pi, d, p)[e] = pi[e]
         /\ \A r \in Pipes : r # p => Take(pi, d, p)[d][r] = pi[d][r]
         /\ Take(pi, d, p)[d][p].end = pi[d][p].end
         /\ Take(pi, d, p)[d][p].q = Tail(pi[d][p].q)
         /\ Head(pi[d][p].q) \in Nat
<1>1. pi[d][p] \in PipeState /\ pi[d] \in [Pipes -> PipeState]
  BY DEF PipeMap
<1>2. pi[d][p].q \in Seq(Nat)
  BY <1>1 DEF PipeState
<1>3. Tail(pi[d][p].q) \in Seq(Nat) /\ Head(pi[d][p].q) \in Nat
  BY <1>2
<1>4. [pi[d][p] EXCEPT !.q = Tail(@)] \in PipeState
  BY <1>1, <1>3 DEF PipeState
<1>. QED  BY <1>1, <1>3, <1>4 DEF Take, PipeMap, PipeState

LEMMA CloseTyped ==
  ASSUME NEW pi \in PipeMap, NEW d \in Dirs, NEW p \in Pipes
  PROVE  /\ Close(pi, d, p) \in PipeMap
         /\ \A e \in Dirs : e # d => Close(pi, d, p)[e] = pi[e]
         /\ \A r \in Pipes : r # p => Close(pi, d, p)[d][r] = pi[d][r]
         /\ \A r \in Pipes : Close(pi, d, p)[d][r].q = pi[d][r].q
         /\ Close(pi, d, p)[d][p].end = IF pi[d][p].end = "open" THEN "eof" ELSE pi[d][p].end
<1>1. pi[d][p] \in PipeState /\ pi[d] \in [Pipes -> PipeState]
  BY DEF PipeMap
<1>2. [pi[d][p] EXCEPT !.end = "eof"] \in PipeState
  BY <1>1 DEF PipeState
<1>. QED  BY <1>1, <1>2 DEF Close, PipeMap, PipeState

LEMMA ResetTyped ==
  ASSUME NEW pi \in PipeMap, NEW d \in Dirs, NEW p \in Pipes
  PROVE  /\ Reset(pi, d, p) \in PipeMap
         /\ \A e \in Dirs : e # d => Reset(pi, d, p)[e] = pi[e]
         /\ \A r \in Pipes : r # p => Reset(pi, d, p)[d][r] = pi[d][r]
         /\ Reset(pi, d, p)[d][p].q = <<>> /\ Reset(pi, d, p)[d][p].end = "rst"
<1>1. <<>> \in Seq(Nat)
  OBVIOUS
<1>2. [q |-> <<>>, end |-> "rst"] \in PipeState
  BY <1>1 DEF PipeState
<1>3. pi[d] \in [Pipes -> PipeState]
  BY DEF PipeMap
<1>. QED  BY <1>2, <1>3 DEF Reset, PipeMap

LEMMA DropTyped ==
  ASSUME NEW pi \in PipeMap, NEW d \in Dirs, NEW p \in Pipes, NEW u, NEW c \in Drop(pi, d, p, u)
  PROVE  /\ c \in PipeMap
         /\ \A e \in Dirs : e # d => c[e] = pi[e]
         /\ \A r \in Pipes : r # p => c[d][r] = pi[d][r]
         /\ c[d][p].q \in {pi[d][p].q, <<>>}
         /\ c = Close(pi, d, p) \/ c[d][p].end = "rst"
<1>1. CASE c = Close(pi, d, p)
  BY <1>1, CloseTyped
<1>2. CASE c = Reset(pi, d, p)
  BY <1>2, ResetTyped
<1>. QED  BY <1>1, <1>2 DEF Drop

-----------------------------------------------------------------------------
(* Types, and silence before the upstream is connected *)

\* A list of pipes reached from another by steps that add nothing towards the client.
\* What arrives of a lost machine is part of what was there.
LEMMA ArrivingTyped ==
  ASSUME pipe \in PipeMap, NEW u \in Arriving
  PROVE  u \in PipeState
<1> DEFINE w == pipe["up"]["wire"]
<1>1. w \in PipeState /\ w.q \in Seq(Nat)
  <2>1. "up" \in Dirs /\ "wire" \in Pipes
    BY DEF Dirs, Pipes
  <2>. QED  BY <2>1 DEF PipeMap, PipeState
<1>2. u = w \/ \E k \in 0 .. Len(w.q) : u = [q |-> SubSeq(w.q, 1, k), end |-> "open"]
  <2>1. PICK K \in SUBSET (0 .. Len(w.q)) :
          u \in {w} \cup {[q |-> SubSeq(w.q, 1, k), end |-> "open"] : k \in K}
    BY DEF Arriving
  <2>. QED  BY <2>1
<1> HIDE DEF w
<1>3. ASSUME NEW k \in 0 .. Len(w.q), u = [q |-> SubSeq(w.q, 1, k), end |-> "open"]
      PROVE  u \in PipeState
  <2>1. \A i \in 1 .. k : w.q[i] \in Nat
    BY <1>1
  <2>2. SubSeq(w.q, 1, k) \in Seq(Nat)
    BY <2>1, SubSeqProperties
  <2>. QED  BY <1>3, <2>2 DEF PipeState
<1>. QED  BY <1>1, <1>2, <1>3

LEMMA SeverTyped ==
  ASSUME NEW pi \in PipeMap, NEW u \in PipeState, NEW j \in 1 .. Len(pi["down"]["wire"].q) + 1
  PROVE  /\ Sever(pi, u, j) \in PipeMap
         /\ \A p \in Pipes : pi["down"][p].q = <<>> => Sever(pi, u, j)["down"][p].q = <<>>
<1> DEFINE down == pi["down"]["wire"]
           c    == Sever(pi, u, j)
<1>1. /\ "up" \in Dirs /\ "down" \in Dirs /\ "wire" \in Pipes
      /\ \A d \in Dirs : pi[d] \in [Pipes -> PipeState]
  BY DEF Dirs, Pipes, PipeMap
<1>2. down \in PipeState /\ down.q \in Seq(Nat) /\ j \in 1 .. Len(down.q) + 1
  BY <1>1 DEF PipeState
<1>3. c = [pi EXCEPT !["up"]["wire"] = u, !["down"]["wire"].q = SubSeq(down.q, j, Len(down.q))]
  BY DEF Sever
<1>4. c = [pi EXCEPT !["up"] = [@ EXCEPT !["wire"] = u],
                     !["down"] = [@ EXCEPT !["wire"] = [down EXCEPT !.q = SubSeq(down.q, j, Len(down.q))]]]
  BY <1>1, <1>3 DEF PipeMap
<1> HIDE DEF down, c
<1> DEFINE rest == SubSeq(down.q, j, Len(down.q))
<1>5. rest \in Seq(Nat) /\ (down.q = <<>> => rest = <<>>)
  <2>1. \A i \in j .. Len(down.q) : down.q[i] \in Nat
    BY <1>2
  <2>2. /\ rest \in Seq(Nat) /\ Len(rest) = IF j <= Len(down.q) THEN Len(down.q) - j + 1 ELSE 0
    BY <1>2, <2>1, SubSeqProperties
  <2>3. down.q = <<>> => Len(rest) = 0
    BY <2>2
  <2>. QED  BY <2>2, <2>3, EmptySeq
<1> DEFINE a == [pi["up"] EXCEPT !["wire"] = u]
           b == [pi["down"] EXCEPT !["wire"] = [down EXCEPT !.q = rest]]
<1>6. c = [pi EXCEPT !["up"] = a, !["down"] = b]
  BY <1>4
<1> HIDE DEF rest
<1>7. /\ [down EXCEPT !.q = rest] \in PipeState /\ [down EXCEPT !.q = rest].q = rest
  BY <1>2, <1>5 DEF PipeState
<1>8. a \in [Pipes -> PipeState] /\ b \in [Pipes -> PipeState]
  BY <1>1, <1>7
<1> HIDE DEF a, b
<1>9. c["down"] = b /\ c \in [Dirs -> [Pipes -> PipeState]]
  BY <1>1, <1>6, <1>8 DEF PipeMap
<1>. QED
  <2>1. \A p \in Pipes : c["down"][p] = IF p = "wire" THEN [down EXCEPT !.q = rest] ELSE pi["down"][p]
    BY <1>1, <1>9 DEF b
  <2>2. ASSUME NEW p \in Pipes, pi["down"][p].q = <<>> PROVE c["down"][p].q = <<>>
    BY <1>5, <1>7, <2>1, <2>2 DEF down
  <2>. QED  BY <1>9, <2>2 DEF PipeMap, c

Quieter(pi, c) == c \in PipeMap /\ \A p \in Pipes : c["down"][p].q = pi["down"][p].q \/ c["down"][p].q = <<>>

LEMMA ReturnTyped ==
  ASSUME TypeOK, NEW why, Return(why)
  PROVE  /\ Quieter(pipe, pipe') /\ pc' = "done" /\ UNCHANGED <<kind, work, ends, age>>
         /\ why \subseteq trouble' /\ trouble' \subseteq trouble \cup why \cup {"reset"}
<1>1. Outlet \in Pipes /\ "upstream" \in Pipes /\ "up" \in Dirs /\ "down" \in Dirs
  BY DEF Outlet, Pipes, Dirs
<1>2. PICK u \in IF ups = "open" THEN Drop(pipe, "up", "upstream", HasData("down", "upstream"))
                 ELSE {pipe} :
        pipe' \in IF kind = "anytls" THEN {u}
                  ELSE Drop(u, "down", Outlet, kind = "tcp" /\ HasData("up", Inlet))
  BY DEF Return
<1>3. u \in PipeMap /\ u["down"] = pipe["down"]
  <2>1. CASE ups = "open"
    <3>1. u \in Drop(pipe, "up", "upstream", HasData("down", "upstream")) /\ pipe \in PipeMap
      BY <1>2, <2>1 DEF TypeOK
    <3>. QED  BY <1>1, <3>1, DropTyped
  <2>2. CASE ups # "open"
    BY <1>2, <2>2 DEF TypeOK
  <2>. QED  BY <2>1, <2>2
<1>4. Quieter(pipe, pipe')
  BY <1>1, <1>2, <1>3, DropTyped DEF Quieter
<1>. QED  BY <1>4 DEF Return

BaseInv == TypeOK /\ Silent /\ DialMeansConnected

LEMMA ReturnBase ==
  ASSUME BaseInv, NEW why, Return(why), why \subseteq {"refused", "left", "cut"}
  PROVE  BaseInv'
<1>1. Quieter(pipe, pipe') /\ pc' = "done" /\ UNCHANGED <<kind, work, ends, age>>
      /\ trouble' \subseteq {"overflow", "refused", "left", "cut", "lost", "reset"}
  BY ReturnTyped DEF BaseInv, TypeOK
<1>2. TypeOK'
  BY <1>1 DEF BaseInv, TypeOK, Quieter, ends
<1>3. Silent'
  BY <1>1 DEF BaseInv, Silent, Quieter, ends
<1>4. DialMeansConnected'
  BY <1>1 DEF BaseInv, DialMeansConnected, ends, Vless
<1>. QED  BY <1>2, <1>3, <1>4 DEF BaseInv

LEMMA BaseStep ==
  ASSUME BaseInv, TypeOK', kind' = kind,
         ups' = "none" => /\ ups = "none" /\ pc' \in {"header", "dial", "done"}
                          /\ Quieter(pipe, pipe')
                          /\ app' = app \/ app' # "open" \/ ~Vless
  PROVE  BaseInv'
<1>1. Silent'
  BY DEF BaseInv, Silent, Quieter
<1>2. DialMeansConnected'
  BY DEF BaseInv, DialMeansConnected, Vless
<1>. QED  BY <1>1, <1>2 DEF BaseInv

LEMMA CopyTyped ==
  ASSUME TypeOK, NEW d \in Dirs, NEW p \in Pipes, Copy(d, p)
  PROVE  /\ pipe' \in PipeMap /\ work' \in [Dirs -> [Pipes -> {"run", "ended", "failed"}]]
         /\ UNCHANGED <<kind, pc, ends, trouble, age>>
         /\ p \in Links(d) /\ After(d, p) \in Pipes
         /\ \A q \in Pipes : d = "up" => pipe'["down"][q] = pipe["down"][q]
         /\ (\A q \in Pipes : pipe["down"][q].q = <<>>) => Quieter(pipe, pipe')
<1>1. p \in Links(d) /\ After(d, p) \in Pipes /\ After(d, p) # p /\ Kind
  BY Line DEF Copy, Move, MoveFails, PassEnd, Running, TypeOK, Kind
<1>2. pipe \in PipeMap
  BY DEF TypeOK
<1>3. CASE Move(d, p)
  <2>1. HasData(d, p) /\ pipe' = Put(Take(pipe, d, p), d, After(d, p), Next1(d, p))
    BY <1>3 DEF Move
  <2>2. PICK pi : pi = Take(pipe, d, p)
    OBVIOUS
  <2>3. pi \in PipeMap /\ Next1(d, p) \in Nat
        /\ (\A e \in Dirs : e # d => pi[e] = pipe[e])
        /\ \A r \in Pipes : r # p => pi[d][r] = pipe[d][r]
    BY <1>2, <2>1, <2>2, TakeTyped DEF HasData, Next1
  <2>4. pipe' \in PipeMap
        /\ \A e \in Dirs : e # d => pipe'[e] = pi[e]
    BY <1>1, <2>1, <2>2, <2>3, PutTyped
  <2>5. d = "up" \/ (d = "down" /\ pipe["down"][p].q # <<>>)
    BY <2>1 DEF HasData, Dirs
  <2>. QED  BY <1>1, <1>3, <2>3, <2>4, <2>5 DEF Move, TypeOK, Dirs, Quieter
<1>4. CASE MoveFails(d, p)
  <2>1. HasData(d, p) /\ pipe' = Close(Take(pipe, d, p), d, After(d, p))
        /\ work' = [work EXCEPT ![d][p] = "failed"]
    BY <1>4 DEF MoveFails, Done
  <2>2. PICK pi : pi = Take(pipe, d, p)
    OBVIOUS
  <2>3. pi \in PipeMap /\ (\A e \in Dirs : e # d => pi[e] = pipe[e])
        /\ \A r \in Pipes : r # p => pi[d][r] = pipe[d][r]
    BY <1>2, <2>1, <2>2, TakeTyped DEF HasData
  <2>4. pipe' \in PipeMap
        /\ \A e \in Dirs : e # d => pipe'[e] = pi[e]
    BY <1>1, <2>1, <2>2, <2>3, CloseTyped
  <2>5. d = "up" \/ (d = "down" /\ pipe["down"][p].q # <<>>)
    BY <2>1 DEF HasData, Dirs
  <2>. QED  BY <1>1, <1>4, <2>1, <2>3, <2>4, <2>5 DEF MoveFails, TypeOK, Dirs, Quieter
<1>5. CASE PassEnd(d, p)
  <2>1. pipe' = Close(pipe, d, After(d, p))
    BY <1>5 DEF PassEnd
  <2>2. /\ pipe' \in PipeMap
        /\ \A e \in Dirs : e # d => pipe'[e] = pipe[e]
        /\ \A r \in Pipes : pipe'[d][r].q = pipe[d][r].q
    BY <1>1, <1>2, <2>1, CloseTyped
  <2>3. work' \in [Dirs -> [Pipes -> {"run", "ended", "failed"}]]
    BY <1>5 DEF PassEnd, Done, TypeOK
  <2>. QED  BY <1>1, <1>5, <2>2, <2>3 DEF PassEnd, Dirs, Quieter
<1>. QED  BY <1>3, <1>4, <1>5 DEF Copy

LEMMA CopyBase ==
  ASSUME BaseInv, NEW d \in Dirs, NEW p \in Pipes, Copy(d, p)
  PROVE  BaseInv'
<1>1. TypeOK'
  BY CopyTyped DEF BaseInv, TypeOK, ends
<1>2. ups = "none" => Quieter(pipe, pipe')
  BY CopyTyped DEF BaseInv, Silent
<1>3. UNCHANGED <<kind, pc, ups, app>>
  BY CopyTyped DEF BaseInv, ends
<1>4. ups = "none" => pc \in {"header", "dial", "done"}
  BY DEF BaseInv, Silent
<1>. QED  BY <1>1, <1>2, <1>3, <1>4, BaseStep

LEMMA OverflowTyped ==
  ASSUME TypeOK, Overflow
  PROVE  Quieter(pipe, pipe')
<1>1. Kind /\ kind = "anytls" /\ HasData("up", "wire") /\ pipe \in PipeMap
  BY DEF Overflow, TypeOK, Kind
<1>2. PICK t : t = After("up", "wire")
  OBVIOUS
<1>3. "up" # "down" /\ t \in Pipes /\ "wire" \in Pipes /\ "up" \in Dirs /\ "down" \in Dirs
  BY <1>1, <1>2, RoutesUp DEF Pipes, Dirs
<1>4. PICK a, b : a = Take(pipe, "up", "wire") /\ b = Close(a, "up", t)
  OBVIOUS
<1>5. a \in PipeMap /\ a["down"] = pipe["down"]
  BY <1>1, <1>3, <1>4, TakeTyped DEF HasData
<1>6. b \in PipeMap /\ b["down"] = a["down"]
  BY <1>3, <1>4, <1>5, CloseTyped
<1>7. pipe' = Close(b, "down", "wire")
  BY <1>2, <1>4 DEF Overflow
<1>8. pipe' \in PipeMap /\ \A r \in Pipes : pipe'["down"][r].q = b["down"][r].q
  <2>1. Close(b, "down", "wire") \in PipeMap
    BY <1>3, <1>6, CloseTyped
  <2>2. \A r \in Pipes : r # "wire" => Close(b, "down", "wire")["down"][r] = b["down"][r]
    BY <1>3, <1>6, CloseTyped
  <2>3. Close(b, "down", "wire")["down"]["wire"].q = b["down"]["wire"].q
    BY <1>3, <1>6, CloseTyped
  <2>4. \A r \in Pipes : Close(b, "down", "wire")["down"][r].q = b["down"][r].q
    BY <2>2, <2>3
  <2>. QED  BY <1>7, <2>1, <2>4, Zenon
<1>. QED  BY <1>5, <1>6, <1>8 DEF Quieter

LEMMA HandlerBase ==
  ASSUME BaseInv, Overflow \/ Handler \/ Connected \/ Refused \/ Tick
  PROVE  BaseInv'
<1>1. TypeOK /\ Inlet \in Pipes /\ Outlet \in Pipes /\ "up" \in Dirs /\ "down" \in Dirs
  BY DEF BaseInv, Inlet, Outlet, Pipes, Dirs
<1>2. CASE Overflow
  <2>1. Quieter(pipe, pipe') /\ UNCHANGED <<kind, work, pc, ends, age>>
        /\ trouble' = trouble \cup {"overflow"}
    BY <1>1, <1>2, OverflowTyped DEF Overflow
  <2>2. TypeOK'
    BY <1>1, <2>1 DEF TypeOK, ends, Quieter
  <2>. QED  BY <2>1, <2>2, BaseStep DEF ends, BaseInv, Silent
<1>3. CASE \E why \in SUBSET {"refused", "left", "cut"} : Return(why)
  BY <1>3, ReturnBase
<1>4. CASE pc = "header" /\ pc' = "dial" /\ HasData("up", Inlet) /\ pipe' = Take(pipe, "up", Inlet)
           /\ UNCHANGED <<kind, work, ends, trouble, age>>
  <2>1. pipe' \in PipeMap /\ pipe'["down"] = pipe["down"]
    <3>1. pipe \in PipeMap /\ pipe["up"][Inlet].q # <<>> /\ "up" # "down"
      BY <1>1, <1>4 DEF TypeOK, HasData
    <3>. QED  BY <1>1, <1>4, <3>1, TakeTyped
  <2>2. TypeOK'
    BY <1>1, <1>4, <2>1 DEF TypeOK, ends
  <2>. QED  BY <1>4, <2>1, <2>2, BaseStep DEF ends, Quieter
<1>5. CASE Connected
  <2>1. TypeOK'
    BY <1>1, <1>5 DEF Connected, TypeOK
  <2>. QED  BY <1>5, <2>1, BaseStep DEF Connected
<1>6. CASE pc = "confirm" /\ pipe' = Put(pipe, "down", Outlet, 0) /\ pc' = "relay"
           /\ UNCHANGED <<kind, work, ends, trouble, age>>
  <2>1. pipe' \in PipeMap
    BY <1>1, <1>6, PutTyped DEF TypeOK
  <2>2. TypeOK' /\ ups # "none"
    BY <1>1, <1>6, <2>1 DEF TypeOK, ends, BaseInv, Silent
  <2>. QED  BY <1>6, <2>2, BaseStep DEF ends
<1>7. CASE Tick
  <2>1. TypeOK'
    BY <1>1, <1>7 DEF Tick, TypeOK, ends
  <2>. QED  BY <1>7, <2>1, BaseStep DEF Tick, ends, BaseInv, Silent
<1>8. CASE ReadHeader
  BY <1>3, <1>4, <1>8 DEF ReadHeader
<1>9. CASE Confirm
  BY <1>3, <1>6, <1>9 DEF Confirm
<1>10. CASE HeaderTimeout \/ Refused \/ ConnectTimeout \/ RelayEnds \/ Cut
  BY <1>3, <1>10 DEF HeaderTimeout, Refused, ConnectTimeout, RelayEnds, Cut
<1>. QED  BY <1>2, <1>5, <1>7, <1>8, <1>9, <1>10 DEF Handler

\* What the actions of the client and the upstream leave of the types.
LEMMA EndsTyped ==
  ASSUME BaseInv, pipe' \in PipeMap, UNCHANGED <<kind, work, pc, age>>,
         app' \in {"start", "wait", "open", "gone", "lost"}, shut' \in BOOLEAN,
         ups' \in {"none", "open", "gone"}, sent' \in [Dirs -> Nat], got' \in [Dirs -> Seq(Nat)],
         fin' \in [Dirs -> {"open", "eof", "rst"}], trouble' \subseteq trouble \cup {"left", "lost", "reset"}
  PROVE  TypeOK'
BY DEF BaseInv, TypeOK

LEMMA ClientBase ==
  ASSUME BaseInv, Hello \/ DialOk \/ DialFails \/ AppSend \/ AppShut \/ AppRead \/ AppEnd
                  \/ AppDrop \/ Vanish \/ Noticed
  PROVE  BaseInv'
<1>1. /\ TypeOK /\ pipe \in PipeMap /\ "up" \in Dirs /\ "down" \in Dirs /\ "up" # "down"
      /\ First("up") \in Pipes /\ Exit("down") \in Pipes /\ "wire" \in Pipes /\ "client" \in Pipes
  BY Line DEF BaseInv, TypeOK, Dirs, Pipes, Kind
<1>2. ASSUME UNCHANGED <<kind, pc>>, pipe' \in PipeMap, TypeOK', ups' = ups,
             pipe'["down"] = pipe["down"], app' = app \/ app' # "open" \/ ~Vless
      PROVE  BaseInv'
  BY <1>2, BaseStep DEF BaseInv, Silent, Quieter
<1>3. CASE Hello
  <2>1. pipe' \in PipeMap /\ pipe'["down"] = pipe["down"]
    BY <1>1, <1>3, PutTyped DEF Hello
  <2>. QED  BY <1>1, <1>2, <1>3, <2>1, EndsTyped DEF Hello, TypeOK
<1>4. CASE DialOk
  <2>1. pipe["down"][Exit("down")].q # <<>> /\ pipe' = Take(pipe, "down", Exit("down"))
    BY <1>4 DEF DialOk, HasData
  <2>2. pipe' \in PipeMap /\ ups # "none"
    BY <1>1, <2>1, TakeTyped DEF BaseInv, Silent
  <2>3. TypeOK'
    BY <1>1, <1>4, <2>2, EndsTyped DEF DialOk, TypeOK
  <2>. QED  BY <1>4, <2>2, <2>3, BaseStep DEF DialOk
<1>5. CASE DialFails \/ AppShut \/ AppDrop
  <2>1. pipe' \in PipeMap /\ pipe'["down"] = pipe["down"]
    <3>1. pipe' = Close(pipe, "up", First("up"))
      BY <1>5 DEF DialFails, AppShut, AppDrop
    <3>2. \A p \in Pipes : Close(pipe, "up", p) \in PipeMap /\ Close(pipe, "up", p)["down"] = pipe["down"]
      BY <1>1, CloseTyped
    <3>. QED  BY <1>1, <3>1, <3>2
  <2>. QED  BY <1>1, <1>2, <1>5, <2>1, EndsTyped DEF DialFails, AppShut, AppDrop, TypeOK
<1>6. CASE AppSend
  <2>1. sent' \in [Dirs -> Nat] /\ sent'["up"] \in Nat
    BY <1>1, <1>6 DEF AppSend, TypeOK
  <2>2. pipe' \in PipeMap /\ pipe'["down"] = pipe["down"]
    <3>1. pipe' = Put(pipe, "up", First("up"), sent'["up"])
      BY <1>6 DEF AppSend
    <3>2. \A p \in Pipes, x \in Nat : Put(pipe, "up", p, x) \in PipeMap
                                       /\ Put(pipe, "up", p, x)["down"] = pipe["down"]
      BY <1>1, PutTyped
    <3>. QED  BY <1>1, <2>1, <3>1, <3>2
  <2>. QED  BY <1>1, <1>2, <1>6, <2>1, <2>2, EndsTyped DEF AppSend, TypeOK
<1>7. CASE AppRead
  <2>1. pipe["down"][Exit("down")].q # <<>> /\ pipe' = Take(pipe, "down", Exit("down"))
    BY <1>7 DEF AppRead, HasData
  <2>2. pipe' \in PipeMap /\ ups # "none" /\ Next1("down", Exit("down")) \in Nat
    BY <1>1, <2>1, TakeTyped DEF BaseInv, Silent, Next1
  <2>3. got' \in [Dirs -> Seq(Nat)]
    BY <1>1, <1>7, <2>2 DEF AppRead, TypeOK
  <2>4. TypeOK'
    BY <1>1, <1>7, <2>2, <2>3, EndsTyped DEF AppRead, TypeOK
  <2>. QED  BY <1>7, <2>2, <2>4, BaseStep DEF AppRead
<1>8. CASE AppEnd
  <2>1. fin' \in [Dirs -> {"open", "eof", "rst"}]
    BY <1>1, <1>8 DEF AppEnd, TypeOK, PipeMap, PipeState
  <2>. QED  BY <1>1, <1>2, <1>8, <2>1, EndsTyped DEF AppEnd, TypeOK
<1>10. CASE Vanish
  <2>1. pipe' \in PipeMap /\ \A p \in Pipes : pipe["down"][p].q = <<>> => pipe'["down"][p].q = <<>>
    <3>1. PICK u \in Arriving, j \in 1 .. Len(pipe["down"]["wire"].q) + 1 : pipe' = Sever(pipe, u, j)
      BY <1>10 DEF Vanish
    <3>2. u \in PipeState
      BY <1>1, ArrivingTyped
    <3>. QED  BY <1>1, <3>1, <3>2, SeverTyped
  <2>2. TypeOK'
    BY <1>1, <1>10, <2>1, EndsTyped DEF Vanish, TypeOK
  <2>. QED  BY <1>10, <2>1, <2>2, BaseStep DEF Vanish, BaseInv, Silent, Quieter
<1>9. CASE Noticed
  <2>1. pipe' \in PipeMap /\ pipe'["down"] = pipe["down"]
    <3>1. pipe' = Reset(pipe, "up", "wire")
      BY <1>9 DEF Noticed
    <3>. QED  BY <1>1, <3>1, ResetTyped, ZenonT(60)
  <2>2. TypeOK'
    BY <1>1, <1>9, <2>1 DEF Noticed, AtClient, TypeOK
  <2>. QED  BY <1>1, <1>2, <1>9, <2>1, <2>2 DEF Noticed
<1>. QED  BY <1>3, <1>4, <1>5, <1>6, <1>7, <1>8, <1>9, <1>10

LEMMA UpstreamBase ==
  ASSUME BaseInv, UpRead \/ UpEnd \/ UpSend \/ UpShut \/ UpReset
  PROVE  BaseInv'
<1>1. /\ TypeOK /\ pipe \in PipeMap /\ "up" \in Dirs /\ "down" \in Dirs /\ "upstream" \in Pipes
      /\ ups = "open" /\ UNCHANGED <<kind, app, pc, age>>
  BY DEF BaseInv, TypeOK, Dirs, Pipes, UpRead, UpEnd, UpSend, UpShut, UpReset, ends
<1>2. ASSUME TypeOK', ups' # "none"
      PROVE  BaseInv'
  BY <1>1, <1>2, BaseStep
<1>3. CASE UpRead
  <2>1. pipe["up"]["upstream"].q # <<>> /\ pipe' = Take(pipe, "up", "upstream")
    BY <1>3 DEF UpRead, HasData
  <2>2. pipe' \in PipeMap /\ Next1("up", "upstream") \in Nat
    BY <1>1, <2>1, TakeTyped DEF Next1
  <2>3. got' \in [Dirs -> Seq(Nat)]
    BY <1>1, <1>3, <2>2 DEF UpRead, TypeOK
  <2>. QED  BY <1>1, <1>2, <1>3, <2>2, <2>3, EndsTyped DEF UpRead, TypeOK
<1>4. CASE UpEnd
  <2>1. fin' \in [Dirs -> {"open", "eof", "rst"}]
    BY <1>1, <1>4 DEF UpEnd, TypeOK, PipeMap, PipeState
  <2>. QED  BY <1>1, <1>2, <1>4, <2>1, EndsTyped DEF UpEnd, TypeOK
<1>5. CASE UpSend
  <2>1. sent' \in [Dirs -> Nat] /\ sent'["down"] \in Nat
    BY <1>1, <1>5 DEF UpSend, TypeOK
  <2>2. pipe' \in PipeMap
    BY <1>1, <1>5, <2>1, PutTyped DEF UpSend
  <2>. QED  BY <1>1, <1>2, <1>5, <2>1, <2>2, EndsTyped DEF UpSend, TypeOK
<1>6. CASE UpShut
  <2>1. pipe' \in PipeMap
    BY <1>1, <1>6, CloseTyped DEF UpShut
  <2>. QED  BY <1>1, <1>2, <1>6, <2>1, EndsTyped DEF UpShut, TypeOK, ends
<1>7. CASE UpReset
  <2>1. pipe' \in PipeMap
    BY <1>1, <1>7, ResetTyped DEF UpReset
  <2>. QED  BY <1>1, <1>2, <1>7, <2>1, EndsTyped DEF UpReset, TypeOK
<1>. QED  BY <1>3, <1>4, <1>5, <1>6, <1>7

LEMMA InitBase == Init => BaseInv
<1>. SUFFICES ASSUME Init PROVE BaseInv
  OBVIOUS
<1>1. <<>> \in Seq(Nat) /\ Empty \in PipeState
  BY DEF Empty, PipeState
<1>2. TypeOK
  BY <1>1, KindsAssumption DEF Init, TypeOK, PipeMap
<1>3. Silent /\ DialMeansConnected
  BY DEF Init, Silent, DialMeansConnected, Empty, Dirs
<1>. QED  BY <1>2, <1>3 DEF BaseInv

LEMMA NextBase == BaseInv /\ [Next]_vars => BaseInv'
<1>. SUFFICES ASSUME BaseInv, [Next]_vars PROVE BaseInv'
  OBVIOUS
<1>1. CASE UNCHANGED vars
  BY <1>1 DEF vars, ends, BaseInv, TypeOK, Silent, DialMeansConnected, Vless
<1>2. CASE \E d \in Dirs, p \in Pipes : Copy(d, p)
  BY <1>2, CopyBase
<1>. QED  BY <1>1, <1>2, HandlerBase, ClientBase, UpstreamBase DEF Next, Handler

LEMMA BaseInvariance == Spec => []BaseInv
BY InitBase, NextBase, PTL DEF Spec

\* "Sending this before dialing makes the client believe a failed/hung target is live": no
\* confirmation reaches a client of VLESS unless the upstream was connected, for pipes of any
\* capacity and whatever is lost, cut or reset (vless.rs handle_stream, dial_tcp, dial_ws).
THEOREM DialMeansConnectedHolds == Spec => []DialMeansConnected
BY BaseInvariance, PTL DEF BaseInv

-----------------------------------------------------------------------------
(* The numbers of the chunks *)

QueueMap == [Pipes -> Seq(Nat)]

LEMMA TailFrom ==
  ASSUME NEW s \in Seq(Nat), s # <<>>, NEW n \in Nat, From(s, n)
  PROVE  /\ Head(s) = n /\ Tail(s) \in Seq(Nat) /\ From(Tail(s), n + 1)
         /\ Len(s) \in Nat /\ Len(s) # 0 /\ Len(Tail(s)) = Len(s) - 1
<1>1. Len(s) \in Nat /\ Len(s) # 0 /\ Head(s) = s[1] /\ Tail(s) \in Seq(Nat)
      /\ Len(Tail(s)) = Len(s) - 1 /\ \A k \in 1 .. Len(s) - 1 : Tail(s)[k] = s[k + 1]
  OBVIOUS
<1>2. \A k \in 1 .. Len(s) : s[k] \in Nat
  OBVIOUS
<1>3. 1 \in 1 .. Len(s)
  BY <1>1
<1>4. s[1] + 1 = n + 1 /\ s[1] \in Nat
  BY <1>2, <1>3 DEF From
<1>5. ASSUME NEW k \in 1 .. Len(s) - 1 PROVE Tail(s)[k] + 1 = (n + 1) + k
  <2>1. k \in Nat /\ k + 1 \in 1 .. Len(s) /\ Tail(s)[k] = s[k + 1]
    BY <1>1
  <2>2. s[k + 1] + 1 = n + (k + 1)
    BY <2>1 DEF From
  <2>. QED  BY <2>1, <2>2
<1>. QED  BY <1>1, <1>4, <1>5 DEF From

LEMMA AppendFrom ==
  ASSUME NEW s \in Seq(Nat), NEW n \in Nat, From(s, n), NEW x \in Nat, x = n + Len(s)
  PROVE  Append(s, x) \in Seq(Nat) /\ From(Append(s, x), n) /\ Len(Append(s, x)) = Len(s) + 1
<1> PICK a : a = Append(s, x)
  OBVIOUS
<1>1. /\ Len(s) \in Nat /\ a \in Seq(Nat) /\ Len(a) = Len(s) + 1 /\ a[Len(s) + 1] = x
      /\ \A k \in 1 .. Len(s) : a[k] = s[k]
  OBVIOUS
<1>2. ASSUME NEW k \in 1 .. Len(a) PROVE a[k] + 1 = n + k
  <2>1. CASE k \in 1 .. Len(s)
    BY <1>1, <2>1 DEF From
  <2>2. CASE k = Len(s) + 1
    BY <1>1, <2>2
  <2>. QED  BY <1>1, <2>1, <2>2
<1>. QED  BY <1>1, <1>2 DEF From

LEMMA LineTyped ==
  ASSUME Kind, NEW d \in Dirs, NEW q \in QueueMap, NEW b \in [Pipes -> Nat]
  PROVE  /\ Exit(d) \in Pipes /\ First(d) \in Pipes
         /\ \A x \in Links(d) \cup {Exit(d)} : x \in Pipes
         /\ \A x \in Links(d) : After(d, x) \in Pipes
         /\ \A x \in Pipes : q[x] \in Seq(Nat) /\ Len(q[x]) \in Nat /\ b[x] \in Nat
<1>1. \A x \in Pipes : q[x] \in Seq(Nat) /\ b[x] \in Nat
  BY DEF QueueMap
<1>. QED  BY <1>1, Line

\* One chunk from a pipe to the next.
LEMMA CountsMove ==
  ASSUME Kind, NEW d \in Dirs, NEW q \in QueueMap, NEW g, NEW t, NEW s,
         NEW b \in [Pipes -> Nat], Counts(d, q, g, t, s, b),
         NEW p \in Links(d), q[p] # <<>>, NEW u, u = After(d, p),
         NEW q2 \in QueueMap, q2[p] = Tail(q[p]), q2[u] = Append(q[u], Head(q[p])),
         \A x \in Pipes \ {p, u} : q2[x] = q[x]
  PROVE  Counts(d, q2, g, t, s, [b EXCEPT ![p] = @ + 1])
<1> PICK c : c = [b EXCEPT ![p] = @ + 1]
  OBVIOUS
<1>1. /\ p \in Pipes /\ u \in Pipes /\ u # p /\ u # First(d) /\ p # Exit(d) /\ u \in Links(d) \cup {Exit(d)}
      /\ \A x \in Links(d) : After(d, x) # x
      /\ \A x \in Links(d) : After(d, x) = u => x = p
  BY Line
<1>2. c[p] = b[p] + 1 /\ \A x \in Pipes : x # p => c[x] = b[x]
  BY <1>1
<1>3. b[p] = b[u] + Len(q[u]) /\ From(q[p], b[p]) /\ From(q[u], b[u])
  BY <1>1 DEF Counts
<1>4. b[p] \in Nat /\ b[u] \in Nat /\ q[p] \in Seq(Nat) /\ q[u] \in Seq(Nat) /\ Len(q[u]) \in Nat
  BY <1>1, LineTyped
<1>5. Head(q[p]) = b[p] /\ From(q2[p], b[p] + 1) /\ Len(q2[p]) = Len(q[p]) - 1 /\ Len(q[p]) \in Nat
  BY <1>3, <1>4, TailFrom
<1>6. From(q2[u], b[u]) /\ Len(q2[u]) = Len(q[u]) + 1
  BY <1>3, <1>4, <1>5, AppendFrom
<1>7. c[Exit(d)] = Len(g) + t /\ From(g, 1)
  BY <1>1, <1>2, LineTyped DEF Counts
<1>8. ASSUME NEW x \in Links(d) PROVE c[x] = c[After(d, x)] + Len(q2[After(d, x)])
  <2> PICK y : y = After(d, x)
    OBVIOUS
  <2>1. x \in Pipes /\ y \in Pipes /\ y # x /\ b[x] = b[y] + Len(q[y])
        /\ b[x] \in Nat /\ b[y] \in Nat /\ Len(q[y]) \in Nat
    BY <1>1, LineTyped DEF Counts
  <2>2. CASE x = p
    <3>1. y = u /\ c[y] = b[u]
      BY <1>1, <1>2, <2>1, <2>2
    <3>2. b[p] + 1 = b[u] + (Len(q[u]) + 1)
      <4>1. PICK m, n \in Nat, k \in Nat : m = b[p] /\ n = b[u] /\ k = Len(q[u]) /\ m = n + k
        BY <1>3, <1>4
      <4>2. m + 1 = n + (k + 1)
        BY <4>1
      <4>. QED  BY <4>1, <4>2
    <3>3. c[p] = b[u] + Len(q2[u])
      BY <1>2, <1>6, <3>2
    <3>. QED  BY <2>2, <3>1, <3>3
  <2>3. CASE x # p /\ y = p
    <3>1. c[x] = b[x] /\ c[y] = b[y] + 1 /\ Len(q2[y]) = Len(q[y]) - 1
      BY <1>2, <1>5, <2>1, <2>3
    <3>. QED  BY <2>1, <3>1
  <2>4. CASE x # p /\ y # p
    <3>1. c[x] = b[x] /\ c[y] = b[y] /\ q2[y] = q[y]
      BY <1>1, <1>2, <2>1, <2>4
    <3>. QED  BY <2>1, <3>1
  <2>. QED  BY <2>2, <2>3, <2>4
<1>9. c[First(d)] + Len(q2[First(d)]) = s + 1
  <2> PICK f : f = First(d)
    OBVIOUS
  <2>1. b[f] + Len(q[f]) = s + 1 /\ f \in Pipes /\ b[f] \in Nat /\ Len(q[f]) \in Nat /\ f # u
    BY <1>1, LineTyped DEF Counts
  <2>2. CASE f = p
    <3>1. c[f] = b[f] + 1 /\ Len(q2[f]) = Len(q[f]) - 1
      BY <1>2, <1>5, <2>2
    <3>2. c[f] + Len(q2[f]) = b[f] + Len(q[f])
      BY <2>1, <3>1
    <3>. QED  BY <2>1, <3>2
  <2>3. CASE f # p
    <3>1. c[f] = b[f] /\ q2[f] = q[f]
      BY <1>2, <2>1, <2>3
    <3>. QED  BY <2>1, <3>1
  <2>. QED  BY <2>2, <2>3
<1>10. ASSUME NEW x \in Links(d) \cup {Exit(d)} PROVE From(q2[x], c[x])
  <2>1. x \in Pipes /\ From(q[x], b[x])
    BY LineTyped DEF Counts
  <2>. QED  BY <1>1, <1>2, <1>5, <1>6, <2>1
<1>. QED  BY <1>7, <1>8, <1>9, <1>10 DEF Counts

\* The next chunk is sent.
LEMMA CountsSend ==
  ASSUME Kind, NEW d \in Dirs, NEW q \in QueueMap, NEW g, NEW t, NEW s \in Nat,
         NEW b \in [Pipes -> Nat], Counts(d, q, g, t, s, b), NEW f, f = First(d),
         NEW q2, q2[f] = Append(q[f], s + 1), \A x \in Pipes \ {f} : q2[x] = q[x]
  PROVE  Counts(d, q2, g, t, s + 1, b)
<1>1. f \in Pipes /\ f \in Links(d) /\ \A x \in Links(d) : After(d, x) # f
  BY Line
<1>2. b[f] + Len(q[f]) = s + 1 /\ From(q[f], b[f])
  BY <1>1 DEF Counts
<1>3. q[f] \in Seq(Nat) /\ b[f] \in Nat /\ Len(q[f]) \in Nat
  BY <1>1, LineTyped
<1>4. From(q2[f], b[f]) /\ Len(q2[f]) = Len(q[f]) + 1
  BY <1>2, <1>3, AppendFrom
<1>5. b[f] + Len(q2[f]) = (s + 1) + 1
  BY <1>2, <1>3, <1>4
<1>6. \A x \in Links(d) : b[x] = b[After(d, x)] + Len(q2[After(d, x)])
  BY <1>1, LineTyped DEF Counts
<1>7. \A x \in Links(d) \cup {Exit(d)} : From(q2[x], b[x])
  BY <1>4, LineTyped DEF Counts
<1>. QED  BY <1>5, <1>6, <1>7 DEF Counts

\* Chunk x is the header or the confirmation, or it is received.
Receives(g, t, x, g2, t2) ==
  \/ g2 = g /\ t2 = t + 1
  \/ t = 1 /\ t2 = 1 /\ g2 = Append(g, x)

\* A chunk is taken at the end of the route: the confirmation if nothing has been taken yet.
LEMMA CountsTake ==
  ASSUME Kind, NEW d \in Dirs, NEW q \in QueueMap, NEW g \in Seq(Nat), NEW t \in Nat, NEW s,
         NEW b \in [Pipes -> Nat], Counts(d, q, g, t, s, b), NEW e, e = Exit(d), q[e] # <<>>,
         NEW q2, q2[e] = Tail(q[e]), \A x \in Pipes \ {e} : q2[x] = q[x],
         NEW g2, NEW t2, Receives(g, t, Head(q[e]), g2, t2)
  PROVE  Counts(d, q2, g2, t2, s, [b EXCEPT ![e] = @ + 1])
<1> PICK c : c = [b EXCEPT ![e] = @ + 1]
  OBVIOUS
<1>1. e \in Pipes /\ e \notin Links(d) /\ First(d) \in Links(d)
  BY Line
<1>2. c[e] = b[e] + 1 /\ \A x \in Pipes : x # e => c[x] = b[x]
  BY <1>1
<1>3. b[e] = Len(g) + t /\ From(q[e], b[e]) /\ From(g, 1)
  BY DEF Counts
<1>4. q[e] \in Seq(Nat) /\ b[e] \in Nat /\ Len(g) \in Nat
  BY <1>1, LineTyped
<1>5. Head(q[e]) = b[e] /\ From(q2[e], b[e] + 1) /\ Len(q2[e]) = Len(q[e]) - 1 /\ Len(q[e]) \in Nat
  BY <1>3, <1>4, TailFrom
<1>6. c[e] = Len(g2) + t2 /\ From(g2, 1)
  <2>1. CASE g2 = g /\ t2 = t + 1
    BY <1>2, <1>3, <1>4, <2>1
  <2>2. CASE t = 1 /\ t2 = 1 /\ g2 = Append(g, Head(q[e]))
    <3>1. b[e] = 1 + Len(g)
      BY <1>3, <1>4, <2>2
    <3>2. From(g2, 1) /\ Len(g2) = Len(g) + 1
      BY <1>3, <1>4, <1>5, <2>2, <3>1, AppendFrom
    <3>. QED  BY <1>2, <1>3, <1>4, <2>2, <3>1, <3>2
  <2>. QED  BY <2>1, <2>2 DEF Receives
<1>7. ASSUME NEW x \in Links(d) PROVE c[x] = c[After(d, x)] + Len(q2[After(d, x)])
  <2> PICK y : y = After(d, x)
    OBVIOUS
  <2>1. x \in Pipes /\ y \in Pipes /\ x # e /\ b[x] = b[y] + Len(q[y])
        /\ b[x] \in Nat /\ b[y] \in Nat /\ Len(q[y]) \in Nat /\ c[x] = b[x]
    BY <1>1, <1>2, LineTyped DEF Counts
  <2>2. CASE y = e
    <3>1. c[y] = b[y] + 1 /\ Len(q2[y]) = Len(q[y]) - 1
      BY <1>2, <1>5, <2>2
    <3>. QED  BY <2>1, <3>1
  <2>3. CASE y # e
    <3>1. c[y] = b[y] /\ q2[y] = q[y]
      BY <1>2, <2>1, <2>3
    <3>. QED  BY <2>1, <3>1
  <2>. QED  BY <2>2, <2>3
<1>8. c[First(d)] + Len(q2[First(d)]) = s + 1
  BY <1>1, <1>2, LineTyped DEF Counts
<1>9. ASSUME NEW x \in Links(d) \cup {e} PROVE From(q2[x], c[x])
  <2>1. x \in Pipes /\ From(q[x], b[x])
    BY LineTyped DEF Counts
  <2>. QED  BY <1>2, <1>5, <2>1
<1>. QED  BY <1>6, <1>7, <1>8, <1>9 DEF Counts

\* The header is taken off, where the handler reads.
LEMMA CountsHeader ==
  ASSUME Kind, NEW q \in QueueMap, NEW g, NEW s,
         NEW b \in [Pipes -> Nat], Counts("up", q, g, 0, s, b),
         g = <<>>, q["upstream"] = <<>>, NEW p, p = Inlet, q[p] # <<>>,
         NEW q2, q2[p] = Tail(q[p]), \A x \in Pipes \ {p} : q2[x] = q[x]
  PROVE  Counts("up", q2, g, 1, s, [b EXCEPT ![p] = 1, !["upstream"] = 1])
<1> PICK c : c = [b EXCEPT ![p] = 1, !["upstream"] = 1]
  OBVIOUS
<1>1. /\ "up" \in Dirs /\ Exit("up") = "upstream" /\ p \in Links("up") /\ After("up", p) = "upstream"
      /\ "upstream" \in Pipes /\ p \in Pipes /\ p # "upstream" /\ "upstream" \notin Links("up")
  BY HandlerEnds, Line DEF Dirs
<1>2. \A x \in Links("up") : After("up", x) = "upstream" => x = p
  BY <1>1, Line
<1>3. c[p] = 1 /\ c["upstream"] = 1 /\ \A x \in Pipes : x \notin {p, "upstream"} => c[x] = b[x]
  BY <1>1
<1>4. Len(g) = 0 /\ Len(q["upstream"]) = 0
  OBVIOUS
<1>5. b["upstream"] = 0 /\ b[p] = 0 /\ From(q[p], b[p]) /\ From(g, 1)
  BY <1>1, <1>4 DEF Counts
<1>6. q[p] \in Seq(Nat)
  BY <1>1, LineTyped
<1>7. From(q2[p], 1) /\ Len(q2[p]) = Len(q[p]) - 1 /\ Len(q[p]) \in Nat
  BY <1>5, <1>6, TailFrom
<1>8. From(q2["upstream"], 1) /\ Len(q2["upstream"]) = 0
  BY <1>1, <1>4 DEF From
<1>9. c[p] = b[p] + 1 /\ c["upstream"] = Len(g) + 1
  BY <1>3, <1>4, <1>5
<1>10. ASSUME NEW x \in Links("up") PROVE c[x] = c[After("up", x)] + Len(q2[After("up", x)])
  <2> PICK y : y = After("up", x)
    OBVIOUS
  <2>1. x \in Pipes /\ y \in Pipes /\ x # "upstream" /\ b[x] = b[y] + Len(q[y])
        /\ b[x] \in Nat /\ b[y] \in Nat /\ Len(q[y]) \in Nat /\ y # x
    BY <1>1, LineTyped, Line DEF Counts
  <2>2. CASE x = p
    BY <1>1, <1>3, <1>8, <2>2
  <2>3. CASE x # p /\ y = p
    <3>1. c[x] = b[x] /\ c[y] = b[y] + 1 /\ Len(q2[y]) = Len(q[y]) - 1
      BY <1>3, <1>7, <1>9, <2>1, <2>3
    <3>. QED  BY <2>1, <3>1
  <2>4. CASE x # p /\ y # p
    <3>1. c[x] = b[x] /\ c[y] = b[y] /\ q2[y] = q[y]
      BY <1>2, <1>3, <2>1, <2>4
    <3>. QED  BY <2>1, <3>1
  <2>. QED  BY <2>2, <2>3, <2>4
<1>11. c[First("up")] + Len(q2[First("up")]) = s + 1
  <2> PICK f : f = First("up")
    OBVIOUS
  <2>1. b[f] + Len(q[f]) = s + 1 /\ f \in Pipes /\ b[f] \in Nat /\ Len(q[f]) \in Nat /\ f # "upstream"
    BY <1>1, LineTyped, Line DEF Counts
  <2>2. CASE f = p
    <3>1. c[f] = b[f] + 1 /\ Len(q2[f]) = Len(q[f]) - 1
      BY <1>7, <1>9, <2>2
    <3>2. c[f] + Len(q2[f]) = b[f] + Len(q[f])
      BY <2>1, <3>1
    <3>. QED  BY <2>1, <3>2
  <2>3. CASE f # p
    <3>1. c[f] = b[f] /\ q2[f] = q[f]
      BY <1>3, <2>1, <2>3
    <3>. QED  BY <2>1, <3>1
  <2>. QED  BY <2>2, <2>3
<1>12. ASSUME NEW x \in Links("up") \cup {"upstream"} PROVE From(q2[x], c[x])
  <2>1. x \in Pipes /\ From(q[x], b[x])
    BY <1>1, LineTyped DEF Counts
  <2>. QED  BY <1>3, <1>7, <1>8, <2>1
<1>. QED  BY <1>1, <1>5, <1>9, <1>10, <1>11, <1>12 DEF Counts

-----------------------------------------------------------------------------
(* Ends do not overtake data *)

LEMMA OvertakenLate ==
  ASSUME TypeOK, Ordered, NEW d \in Dirs, NEW p, Overtaken(d, p)
  PROVE  ~EndedFirst(d)
<1>1. Kind /\ kind = "ws" /\ "up" \in Dirs /\ "down" \in Dirs
  BY DEF Overtaken, TypeOK, Kind, Dirs
<1>2. CASE d = "up"
  <2>1. "upstream" \in Links("down") /\ "upstream" \in Pipes
    BY <1>1, RoutesDown DEF Pipes
  <2>2. AtEnd("down", "upstream")
    BY <1>1, <1>2, <2>1 DEF Overtaken, Ordered
  <2>3. pipe["down"]["upstream"].end \in {"open", "eof", "rst"}
    BY <1>1, <2>1 DEF TypeOK, PipeMap, PipeState
  <2>. QED  BY <1>1, <1>2, <2>1, <2>2, <2>3 DEF EndedFirst, UpstreamEnded, AtEnd, Ordered
<1>3. CASE d = "down"
  <2>1. "client" \in Links("up") /\ First("up") = "client"
    BY <1>1, RoutesUp
  <2>2. AtEnd("up", "client")
    BY <1>1, <1>3, <2>1 DEF Overtaken, Ordered
  <2>. QED  BY <1>1, <1>3, <2>1, <2>2 DEF EndedFirst, AtEnd, Ordered
<1>. QED  BY <1>2, <1>3 DEF Dirs

\* The only reason for a task to fail is a WebSocket that closes as a whole.
LEMMA RefusedIsOvertaken ==
  ASSUME TypeOK, Ordered, NEW d \in Dirs, NEW p \in Links(d), work[d][p] = "run",
         Refuses(d, After(d, p))
  PROVE  Overtaken(d, p)
<1> PICK t : t = After(d, p)
  OBVIOUS
<1>1. /\ Kind /\ "up" \in Dirs /\ "down" \in Dirs /\ t \in Links(d) \cup {Exit(d)}
      /\ t # First(d) /\ t # p
  BY Line DEF TypeOK, Kind, Dirs
<1>2. pipe[d][t].end = "open"
  BY DEF Ordered
<1>3. t \in Links(d) => work[d][t] # "ended"
  BY <1>2 DEF Ordered, AtEnd
<1>4. CASE PeerClosed(d, t)
  <2>1. kind = "ws" /\ t = "wire"
    BY <1>4 DEF PeerClosed
  <2>2. CASE d = "up"
    <3>1. p = "client" /\ work["down"]["wire"] = "ended"
      BY <1>1, <1>4, <2>1, <2>2, RoutesUp DEF PeerClosed
    <3>2. AtEnd("down", "wire") /\ "wire" \in Links("down") /\ "server" \in Links("down")
          /\ After("down", "server") = "wire"
      BY <1>1, <2>1, <3>1, RoutesDown DEF Ordered
    <3>3. work["down"]["server"] # "run"
      BY <1>1, <3>2 DEF Ordered, AtEnd
    <3>4. work["down"]["server"] = "ended"
      <4>1. work["down"]["server"] = "failed" => Overtaken("down", "server")
        BY <1>1, <3>2 DEF Ordered
      <4>2. work["down"]["server"] \in {"run", "ended", "failed"}
        BY <1>1 DEF TypeOK, Pipes
      <4>. QED  BY <2>2, <3>1, <3>3, <4>1, <4>2 DEF Overtaken
    <3>5. AtEnd("down", "server") /\ "upstream" \in Links("down") /\ After("down", "upstream") = "server"
      BY <1>1, <2>1, <3>2, <3>4, RoutesDown DEF Ordered
    <3>6. work["down"]["upstream"] # "run"
      BY <1>1, <3>5 DEF Ordered, AtEnd
    <3>7. work["down"]["upstream"] = "ended"
      <4>1. work["down"]["upstream"] = "failed" => Overtaken("down", "upstream")
        BY <1>1, <3>5 DEF Ordered
      <4>2. work["down"]["upstream"] \in {"run", "ended", "failed"}
        BY <1>1 DEF TypeOK, Pipes
      <4>. QED  BY <2>2, <3>1, <3>6, <4>1, <4>2 DEF Overtaken
    <3>8. Links("down") = {"upstream", "server", "wire"}
      BY <1>1, <2>1, RoutesDown
    <3>. QED  BY <2>1, <2>2, <3>1, <3>4, <3>7, <3>8 DEF Overtaken
  <2>3. CASE d = "down"
    <3>1. p = "server" /\ work["up"]["wire"] = "ended"
      BY <1>1, <1>4, <2>1, <2>3, RoutesDown DEF PeerClosed
    <3>2. /\ "wire" \in Links("up") /\ "client" \in Links("up") /\ After("up", "client") = "wire"
          /\ "server" \in Links("down")
      BY <1>1, <2>1, RoutesUp, RoutesDown
    <3>3. AtEnd("up", "wire")
      BY <1>1, <3>1, <3>2 DEF Ordered
    <3>4. work["up"]["client"] # "run"
      BY <1>1, <3>2, <3>3 DEF Ordered, AtEnd
    <3>5. work["up"]["client"] = "ended"
      <4>1. work["up"]["client"] = "failed" => Overtaken("up", "client")
        BY <1>1, <3>2 DEF Ordered
      <4>2. work["up"]["client"] \in {"run", "ended", "failed"}
        BY <1>1 DEF TypeOK, Pipes
      <4>. QED  BY <2>3, <3>1, <3>2, <3>4, <4>1, <4>2 DEF Overtaken
    <3>. QED  BY <2>1, <2>3, <3>1, <3>5 DEF Overtaken
  <2>. QED  BY <2>2, <2>3 DEF Dirs
<1>5. CASE Gone(d, t)
  <2>1. t # Exit(d)
    BY <1>5 DEF Gone, Ordered
  <2>2. t \in Links(d) /\ work[d][t] \in {"run", "ended", "failed"} /\ t \in Pipes
    BY <1>1, <2>1, Line DEF TypeOK
  <2>3. work[d][t] # "run"
    <3>1. CASE Copies(d, t)
      <4>1. pc = "done" /\ BothDone
        BY <1>5, <2>1, <3>1 DEF Gone, Ordered
      <4>. QED  BY <3>1, <4>1 DEF BothDone, Copies
    <3>2. CASE ~Copies(d, t)
      <4>1. Outlet \in Pipes /\ t \in {"client", "wire", "server", "upstream"} /\ t # "upstream"
        BY <1>1, <2>1, <2>2, <3>2, RoutesUp, RoutesDown DEF Pipes, Copies, Outlet, Dirs
      <4>2. d = "up" => t = "wire" /\ kind = "ws"
        BY <1>1, <1>5, <2>1, <2>2, <3>2, RoutesUp DEF Copies, Inlet, Gone, Kind
      <4>3. d = "down" => t = "wire" \/ (t = "server" /\ kind = "ws")
        BY <1>1, <2>1, <2>2, <3>2, <4>1, RoutesDown DEF Copies, Kind
      <4>. QED  BY <1>5, <2>1, <3>2, <4>2, <4>3 DEF Gone, Dirs
    <3>. QED  BY <3>1, <3>2
  <2>4. Overtaken(d, t)
    BY <1>3, <2>2, <2>3 DEF Ordered
  <2>5. d = "down" /\ t = "server" /\ p = "upstream"
    BY <1>1, <2>4, RoutesUp, RoutesDown DEF Overtaken, Dirs
  <2>. QED  BY <2>4, <2>5 DEF Overtaken
<1>. QED  BY <1>4, <1>5 DEF Refuses

\* A step that moves data, and ends nothing.
LEMMA OrderedQueues ==
  ASSUME Ordered, UNCHANGED <<kind, work, fin>>, pc' = pc \/ pc' # "done",
         app' # "gone", ups' # "gone", shut => shut',
         \A d \in Dirs : \A p \in Pipes : pipe'[d][p].end = pipe[d][p].end,
         \A d \in Dirs : \A p \in Pipes : AtEnd(d, p) => AtEnd(d, p)',
         Kind
  PROVE  Ordered'
<1>1. /\ \A d \in Dirs : Links(d)' = Links(d) /\ First(d)' = First(d) /\ Exit(d)' = Exit(d)
      /\ \A d \in Dirs : \A p \in Links(d) : After(d, p)' = After(d, p)
  BY DEF Links, First, Exit, After
<1>2. \A d \in Dirs : First(d) \in Pipes /\ Exit(d) \in Pipes
  BY Line
<1>3. \A d \in Dirs : \A p \in Links(d) : p \in Pipes /\ After(d, p) \in Pipes
  BY Line
<1>4. \A d \in Dirs : \A p \in Links(d) : Overtaken(d, p)' <=> Overtaken(d, p)
  BY DEF Overtaken, Links
<1>5. \A d \in Dirs : \A p \in Links(d) :
       /\ pipe'[d][After(d, p)].end = "open" <=> work'[d][p] = "run"
       /\ work'[d][p] = "ended" => AtEnd(d, p)'
       /\ work'[d][p] = "failed" => Overtaken(d, p)'
  BY <1>3, <1>4 DEF Ordered
<1>6. "up" \in Dirs
  BY DEF Dirs
<1>7. pipe'["up"][First("up")].end # "open" => shut'
  BY <1>2, <1>6 DEF Ordered
<1>8. \A d \in Dirs : fin'[d] # "open" => AtEnd(d, Exit(d))'
  BY <1>1, <1>2 DEF Ordered
<1>9. pc' = "done" => BothDone'
  BY DEF Ordered, BothDone, Inlet
<1>. QED  BY <1>1, <1>5, <1>6, <1>7, <1>8, <1>9 DEF Ordered

LEMMA QueuesTyped ==
  ASSUME TypeOK, NEW d \in Dirs
  PROVE  Queues(d) \in QueueMap /\ \A p \in Pipes : Queues(d)[p] = pipe[d][p].q
BY DEF TypeOK, PipeMap, PipeState, Queues, QueueMap

LEMMA FlowWith ==
  ASSUME UNCHANGED kind, NEW d \in Dirs, NEW b \in [Pipes -> Nat], NEW q, q = Queues(d)', NEW g, g = got'[d],
         NEW t, t = Taken(d)', NEW s, s = sent'[d], Counts(d, q, g, t, s, b)
  PROVE  Flow(d)'
<1>1. Counts(d, q, g, t, s, b)'
  BY DEF Counts, Links, First, Exit, After
<1>2. Numbered(d, b)'
  BY <1>1 DEF Numbered
<1>. QED  BY <1>2 DEF Flow

\* A direction that a step leaves alone.
LEMMA FlowFrame ==
  ASSUME UNCHANGED kind, NEW d \in Dirs, Flow(d),
         Started(d)' /\ EndedFirst(d)' => Started(d) /\ EndedFirst(d),
         \A p \in Pipes : pipe'[d][p].q = pipe[d][p].q,
         got'[d] = got[d], Taken(d)' = Taken(d), sent'[d] = sent[d]
  PROVE  Flow(d)'
<1>. SUFFICES ASSUME Started(d)', EndedFirst(d)' PROVE Flow(d)'
  BY DEF Flow
<1>1. PICK b \in [Pipes -> Nat] : Counts(d, Queues(d), got[d], Taken(d), sent[d], b)
  BY DEF Flow, Numbered
<1>2. Queues(d)' = Queues(d)
  BY DEF Queues
<1>. QED  BY <1>1, <1>2, FlowWith

\* When the last pipe has ended, and nothing was overtaken, everything has arrived.
LEMMA EndsWhole ==
  ASSUME TypeOK, Ordered, NEW d \in Dirs, Started(d), EndedFirst(d), Flow(d), AtEnd(d, Exit(d))
  PROVE  /\ pipe[d][First(d)].end # "open"
         /\ Len(got[d]) + Taken(d) = sent[d] + 1
<1>1. PICK b \in [Pipes -> Nat] : Counts(d, Queues(d), got[d], Taken(d), sent[d], b)
  BY DEF Flow, Numbered
<1>2. /\ Kind /\ "up" \in Dirs /\ "down" \in Dirs /\ Exit(d) \in Pipes /\ First(d) \in Pipes
      /\ Links(d) \subseteq Pipes
  BY Line DEF TypeOK, Kind, Dirs
<1>3. Queues(d) \in QueueMap /\ \A p \in Pipes : Queues(d)[p] = pipe[d][p].q
  BY QueuesTyped
<1>4. \A p \in Pipes : b[p] \in Nat
  OBVIOUS
<1>5. ASSUME NEW p \in Links(d), AtEnd(d, After(d, p)), b[After(d, p)] = b[Exit(d)]
      PROVE  AtEnd(d, p) /\ b[p] = b[Exit(d)]
  <2>1. work[d][p] # "run" /\ work[d][p] # "failed"
    BY <1>5, OvertakenLate DEF Ordered, AtEnd
  <2>2. work[d][p] \in {"run", "ended", "failed"}
    BY <1>2 DEF TypeOK
  <2>3. AtEnd(d, p)
    BY <2>1, <2>2 DEF Ordered
  <2>4. After(d, p) \in Pipes
    BY <1>2, Line
  <2>5. Queues(d)[After(d, p)] = <<>>
    BY <1>3, <1>5, <2>4 DEF AtEnd, HasData
  <2>6. b[p] = b[After(d, p)] + Len(Queues(d)[After(d, p)])
    BY <1>1 DEF Counts
  <2>7. b[p] = b[After(d, p)]
    BY <1>4, <2>4, <2>5, <2>6
  <2>. QED  BY <1>5, <2>3, <2>7
<1>6. AtEnd(d, First(d)) /\ b[First(d)] = b[Exit(d)]
  <2>1. CASE d = "up" /\ kind \in {"tcp", "tuic"}
    BY <1>2, <1>5, <2>1, RoutesUp
  <2>2. CASE d = "up" /\ kind \notin {"tcp", "tuic"}
    <3>1. AtEnd("up", "server") /\ b["server"] = b[Exit("up")]
      BY <1>2, <1>5, <2>2, RoutesUp
    <3>2. AtEnd("up", "wire") /\ b["wire"] = b[Exit("up")]
      BY <1>2, <1>5, <2>2, <3>1, RoutesUp
    <3>. QED  BY <1>2, <1>5, <2>2, <3>2, RoutesUp
  <2>3. CASE d = "down" /\ kind \in {"tcp", "tuic"}
    BY <1>2, <1>5, <2>3, RoutesDown
  <2>4. CASE d = "down" /\ kind = "ws"
    <3>1. AtEnd("down", "wire") /\ b["wire"] = b[Exit("down")]
      BY <1>2, <1>5, <2>4, RoutesDown
    <3>2. AtEnd("down", "server") /\ b["server"] = b[Exit("down")]
      BY <1>2, <1>5, <2>4, <3>1, RoutesDown
    <3>. QED  BY <1>2, <1>5, <2>4, <3>2, RoutesDown
  <2>5. CASE d = "down" /\ kind = "anytls"
    <3>1. AtEnd("down", "wire") /\ b["wire"] = b[Exit("down")]
      BY <1>2, <1>5, <2>5, RoutesDown
    <3>. QED  BY <1>2, <1>5, <2>5, <3>1, RoutesDown
  <2>. QED  BY <1>2, <2>1, <2>2, <2>3, <2>4, <2>5 DEF Dirs, Kind
<1>7. Queues(d)[First(d)] = <<>> /\ pipe[d][First(d)].end # "open"
  BY <1>2, <1>3, <1>6 DEF AtEnd, HasData
<1>8. b[First(d)] + Len(Queues(d)[First(d)]) = sent[d] + 1 /\ b[Exit(d)] = Len(got[d]) + Taken(d)
  BY <1>1 DEF Counts
<1>. QED  BY <1>2, <1>4, <1>6, <1>7, <1>8

\* A stream that has ended has been read to its end.
LEMMA CalmIsWhole ==
  ASSUME TypeOK, Calm
  PROVE  CleanEndIsWhole
<1>1. /\ Kind /\ "up" \in Dirs /\ "down" \in Dirs /\ First("down") = "upstream"
  BY RoutesDown DEF TypeOK, Kind, Dirs
<1>2. ASSUME NEW d \in Dirs, NEW s \in Nat, s = sent[d], Len(got[d]) + 1 = s + 1, From(got[d], 1)
      PROVE  got[d] = [i \in 1 .. s |-> i]
  <2>1. got[d] \in Seq(Nat) /\ Len(got[d]) \in Nat
    BY DEF TypeOK
  <2>2. Len(got[d]) = s
    BY <1>2, <2>1
  <2>3. PICK g : g = got[d]
    OBVIOUS
  <2>4. \A k \in 1 .. s : g[k] \in Nat /\ g[k] + 1 = 1 + k
    BY <1>2, <2>1, <2>2, <2>3 DEF From
  <2>5. \A k \in 1 .. s : g[k] = k
    BY <2>4
  <2>. QED  BY <2>1, <2>2, <2>3, <2>5
<1>3. ASSUME NEW d \in Dirs, fin[d] = "eof", EndedFirst(d), Started(d), Taken(d) = 1
      PROVE  pipe[d][First(d)].end # "open" /\ got[d] = [i \in 1 .. sent[d] |-> i]
  <2>1. AtEnd(d, Exit(d))
    BY <1>3 DEF Calm, Ordered
  <2>2. pipe[d][First(d)].end # "open" /\ Len(got[d]) + 1 = sent[d] + 1
    BY <1>3, <2>1, EndsWhole DEF Calm
  <2>3. From(got[d], 1) /\ sent[d] \in Nat
    BY <1>3 DEF Calm, Flow, Numbered, Counts, TypeOK
  <2>. QED  BY <1>2, <2>2, <2>3
<1>4. ASSUME fin["down"] = "eof", EndedFirst("down")
      PROVE  UpstreamEnded /\ got["down"] = [i \in 1 .. sent["down"] |-> i]
  <2>1. Started("down") /\ Taken("down") = 1
    <3>1. pipe["down"][Exit("down")].end # "open" /\ app = "open"
      BY <1>1, <1>4 DEF Calm, Ordered, Phases, AtEnd
    <3>2. PICK p \in Links("down") : After("down", p) = Exit("down")
      BY <1>1, Line
    <3>3. pc \in {"relay", "done"}
      BY <1>1, <3>1, <3>2 DEF Calm, Ordered, Phases, TypeOK
    <3>. QED  BY <3>1, <3>3 DEF Started, Taken
  <2>2. pipe["down"]["upstream"].end \in {"open", "eof", "rst"} /\ pipe["down"]["upstream"].end # "rst"
    BY <1>1 DEF Calm, Ordered, TypeOK, PipeMap, PipeState, Pipes
  <2>. QED  BY <1>1, <1>3, <1>4, <2>1, <2>2 DEF UpstreamEnded
<1>5. ASSUME fin["up"] = "eof", EndedFirst("up")
      PROVE  shut /\ got["up"] = [i \in 1 .. sent["up"] |-> i]
  <2>1. Started("up") /\ Taken("up") = 1
    BY <1>5 DEF Calm, Phases, Started, Taken
  <2>. QED  BY <1>1, <1>3, <1>5, <2>1 DEF Calm, Ordered
<1>. QED  BY <1>4, <1>5 DEF CleanEndIsWhole

LEMMA QueuesTypedNext ==
  ASSUME TypeOK', NEW d \in Dirs
  PROVE  Queues(d)' \in QueueMap /\ \A p \in Pipes : Queues(d)'[p] = pipe'[d][p].q
BY DEF TypeOK, PipeMap, PipeState, Queues, QueueMap

\* Until the relay begins the upstream's data stay where they are.
LEMMA Undelivered ==
  ASSUME TypeOK, Phases, NEW p \in Pipes, pipe["down"][p].q # <<>>, pc \in {"header", "dial", "confirm"}
  PROVE  p = "upstream"
BY DEF Phases

\* c is pi after one chunk went in direction d from pipe p to the end of pipe t.
Moved(pi, d, p, t, c) ==
  /\ \A e \in Dirs : e # d => c[e] = pi[e]
  /\ \A r \in Pipes \ {p, t} : c[d][r] = pi[d][r]
  /\ c[d][p].end = pi[d][p].end /\ c[d][p].q = Tail(pi[d][p].q)
  /\ c[d][t].end = "open" /\ c[d][t].q = Append(pi[d][t].q, Head(pi[d][p].q))

LEMMA MovedPipes ==
  ASSUME NEW pi \in PipeMap, NEW d \in Dirs, NEW p \in Pipes, NEW t \in Pipes, t # p,
         pi[d][p].q # <<>>, pi[d][t].end = "open",
         NEW c, c = Put(Take(pi, d, p), d, t, Head(pi[d][p].q))
  PROVE  Moved(pi, d, p, t, c)
<1>1. PICK a : a = Take(pi, d, p)
  OBVIOUS
<1>2. /\ a \in PipeMap /\ Head(pi[d][p].q) \in Nat
      /\ \A e \in Dirs : e # d => a[e] = pi[e]
      /\ \A r \in Pipes : r # p => a[d][r] = pi[d][r]
      /\ a[d][p].end = pi[d][p].end /\ a[d][p].q = Tail(pi[d][p].q)
  BY <1>1, TakeTyped
<1>3. PICK x \in Nat : x = Head(pi[d][p].q)
  BY <1>2
<1>4. c = Put(a, d, t, x)
  BY <1>1, <1>3
<1>5. /\ \A e \in Dirs : e # d => c[e] = a[e]
      /\ \A r \in Pipes : r # t => c[d][r] = a[d][r]
      /\ c[d][t].end = a[d][t].end
      /\ c[d][t].q = IF a[d][t].end = "open" THEN Append(a[d][t].q, x) ELSE a[d][t].q
  <2>1. /\ \A e \in Dirs : e # d => Put(a, d, t, x)[e] = a[e]
        /\ \A r \in Pipes : r # t => Put(a, d, t, x)[d][r] = a[d][r]
    BY <1>2, PutTyped
  <2>2. Put(a, d, t, x)[d][t].end = a[d][t].end
    BY <1>2, PutTyped
  <2>3. Put(a, d, t, x)[d][t].q = IF a[d][t].end = "open" THEN Append(a[d][t].q, x) ELSE a[d][t].q
    BY <1>2, PutTyped
  <2>. QED  BY <1>4, <2>1, <2>2, <2>3, SMTT(60)
<1>6. a[d][t] = pi[d][t]
  BY <1>2
<1>. QED  BY <1>2, <1>3, <1>5, <1>6, ZenonT(60) DEF Moved

LEMMA MoveCalm ==
  ASSUME TypeOK, TypeOK', Calm, NEW d \in Dirs, NEW p \in Pipes, Move(d, p)
  PROVE  Calm'
<1> PICK t : t = After(d, p)
  OBVIOUS
<1>1. /\ Kind /\ p \in Links(d) /\ t \in Pipes /\ t # p /\ t # First(d) /\ p # Exit(d)
      /\ work[d][p] = "run" /\ pipe[d][p].q # <<>> /\ (Copies(d, p) => pc = "relay")
      /\ UNCHANGED <<kind, work, pc, ends, trouble, age>> /\ "up" \in Dirs /\ "down" \in Dirs
  BY Line DEF Move, Running, HasData, TypeOK, Kind, Dirs
<1>2. pipe[d][t].end = "open"
  BY <1>1 DEF Calm, Ordered
<1>6. /\ \A e \in Dirs : e # d => pipe'[e] = pipe[e]
      /\ \A r \in Pipes \ {p, t} : pipe'[d][r] = pipe[d][r]
      /\ pipe'[d][p].end = pipe[d][p].end /\ pipe'[d][p].q = Tail(pipe[d][p].q)
      /\ pipe'[d][t].end = "open" /\ pipe'[d][t].q = Append(pipe[d][t].q, Head(pipe[d][p].q))
  <2>1. pipe' = Put(Take(pipe, d, p), d, t, Head(pipe[d][p].q))
    BY DEF Move, Next1
  <2>2. pipe \in PipeMap
    BY DEF TypeOK
  <2>3. \A c : c = Put(Take(pipe, d, p), d, t, Head(pipe[d][p].q)) => Moved(pipe, d, p, t, c)
    BY <1>1, <1>2, <2>2, MovedPipes, Zenon
  <2>4. Moved(pipe, d, p, t, pipe')
    BY <2>1, <2>3, Zenon
  <2>. QED  BY <2>4 DEF Moved
<1>7. ASSUME NEW e \in Dirs, NEW r \in Pipes
      PROVE  pipe'[e][r].end = pipe[e][r].end /\ (AtEnd(e, r) => AtEnd(e, r)')
  <2>1. CASE e # d
    BY <1>6, <2>1 DEF AtEnd, HasData
  <2>2. CASE e = d /\ r = p
    BY <1>1, <1>6, <2>2 DEF AtEnd, HasData
  <2>3. CASE e = d /\ r = t
    BY <1>2, <1>6, <2>3 DEF AtEnd, HasData
  <2>4. CASE e = d /\ r \notin {p, t}
    BY <1>6, <2>4 DEF AtEnd, HasData
  <2>. QED  BY <2>1, <2>2, <2>3, <2>4
<1>8. Ordered'
  BY <1>1, <1>7, OrderedQueues DEF Calm, Ordered, ends
<1>9. Phases'
  <2>1. d = "down" => pc \notin {"header", "dial", "confirm"}
    BY <1>1, Undelivered DEF Calm, Copies
  <2>2. d = "up" => app # "start"
    BY <1>1 DEF Calm, Phases
  <2>3. d = "up" /\ pc = "header" => pipe'["up"]["upstream"] = pipe["up"]["upstream"]
    <3>1. d = "up" /\ t = "upstream" => p = Inlet
      BY <1>1, RoutesUp DEF Inlet, Kind
    <3>2. d = "up" => p # "upstream"
      BY <1>1, HandlerEnds
    <3>. QED  BY <1>1, <1>6, <3>1, <3>2 DEF Copies, Pipes
  <2>4. CASE d = "up"
    <3>1. pipe'["down"] = pipe["down"]
      BY <1>1, <1>6, <2>4
    <3>. QED  BY <1>1, <2>2, <2>3, <2>4, <3>1 DEF Calm, Phases, ends, Vless, Links
  <2>5. CASE d = "down"
    <3>1. pipe'["up"] = pipe["up"]
      BY <1>1, <1>6, <2>5
    <3>. QED  BY <1>1, <2>1, <2>5, <3>1 DEF Calm, Phases, ends, Vless, TypeOK
  <2>. QED  BY <2>4, <2>5 DEF Dirs
<1>10. \A e \in Dirs : Started(e)' = Started(e) /\ EndedFirst(e)' = EndedFirst(e) /\ Taken(e)' = Taken(e)
  <2>1. "upstream" \in Pipes
    BY DEF Pipes
  <2>. QED  BY <1>1, <1>7, <2>1 DEF Started, EndedFirst, Taken, UpstreamEnded, Vless, ends
<1>11. Flow(d)'
  <2>. SUFFICES ASSUME Started(d), EndedFirst(d) PROVE Flow(d)'
    BY <1>10 DEF Flow
  <2>1. PICK b \in [Pipes -> Nat] : Counts(d, Queues(d), got[d], Taken(d), sent[d], b)
    BY DEF Calm, Flow, Numbered
  <2>2. PICK q, q2 : q = Queues(d) /\ q2 = Queues(d)'
    OBVIOUS
  <2>3. /\ q \in QueueMap /\ q2 \in QueueMap
        /\ \A r \in Pipes : q[r] = pipe[d][r].q
        /\ \A r \in Pipes : q2[r] = pipe'[d][r].q
    BY <2>2, QueuesTyped, QueuesTypedNext
  <2>4. q[p] # <<>> /\ \A r \in Pipes \ {p, t} : q2[r] = q[r]
    BY <1>1, <1>6, <2>3
  <2>. q2[p] = Tail(q[p]) /\ q2[t] = Append(q[t], Head(q[p]))
    BY <1>1, <1>6, <2>3
  <2>5. PICK c : c = [b EXCEPT ![p] = @ + 1]
    OBVIOUS
  <2>6. Counts(d, q2, got[d], Taken(d), sent[d], c)
    <3>1. PICK g, k, s : g = got[d] /\ k = Taken(d) /\ s = sent[d] /\ Counts(d, q, g, k, s, b)
      BY <2>1, <2>2
    <3>2. Counts(d, q2, g, k, s, c)
      BY <1>1, <2>3, <2>4, <2>5, <3>1, CountsMove, ZenonT(60)
    <3>. QED  BY <3>1, <3>2
  <2>7. c \in [Pipes -> Nat]
    BY <2>5
  <2>. QED  BY <1>1, <1>10, <2>2, <2>6, <2>7, FlowWith DEF ends
<1>12. ASSUME NEW e \in Dirs, e # d PROVE Flow(e)'
  BY <1>1, <1>6, <1>10, <1>12, FlowFrame DEF Calm, ends
<1>. QED  BY <1>8, <1>9, <1>11, <1>12 DEF Calm

\* A task that returns, and with it the pipe it writes to.
LEMMA OrderedReturn ==
  ASSUME TypeOK, Ordered, NEW d \in Dirs, NEW p \in Links(d), work[d][p] = "run",
         NEW how \in {"ended", "failed"}, work' = [work EXCEPT ![d][p] = how],
         UNCHANGED <<kind, fin, pc, app, ups, shut>>,
         pipe'[d][After(d, p)].end = "eof",
         \A e \in Dirs : \A r \in Pipes : (e = d /\ r = After(d, p)) \/ pipe'[e][r].end = pipe[e][r].end,
         \A e \in Dirs : \A r \in Pipes : AtEnd(e, r) => AtEnd(e, r)',
         how = "ended" => AtEnd(d, p)', how = "failed" => Overtaken(d, p)
  PROVE  Ordered'
<1> PICK t : t = After(d, p)
  OBVIOUS
<1>1. /\ Kind /\ p \in Pipes /\ t \in Pipes /\ t # First(d) /\ "up" \in Dirs
      /\ \A e \in Dirs : First(e) \in Pipes /\ Exit(e) \in Pipes
      /\ \A e \in Dirs : \A r \in Links(e) : r \in Pipes /\ After(e, r) \in Pipes
      /\ \A r \in Links(d) : After(d, r) = t => r = p
  BY Line DEF TypeOK, Kind, Dirs
<1>2. /\ \A e \in Dirs : Links(e)' = Links(e) /\ First(e)' = First(e) /\ Exit(e)' = Exit(e)
      /\ \A e \in Dirs : \A r \in Links(e) : After(e, r)' = After(e, r)
  BY DEF Links, First, Exit, After
<1>3. /\ work'[d][p] = how
      /\ \A e \in Dirs : \A r \in Pipes : (e = d /\ r = p) \/ work'[e][r] = work[e][r]
  BY <1>1 DEF TypeOK
<1>4. ASSUME NEW e \in Dirs, NEW r, Overtaken(e, r) PROVE Overtaken(e, r)'
  <2>1. kind' = "ws" /\ kind = "ws" /\ "client" \in Pipes /\ "wire" \in Pipes /\ "down" \in Dirs
    BY <1>4 DEF Overtaken, Pipes, Dirs
  <2>2. \A f \in Dirs : \A x \in Pipes : work[f][x] = "ended" => work'[f][x] = "ended"
    BY <1>3
  <2>3. \A x \in Links("down") : x \in Pipes
    BY <1>1, <2>1
  <2>. QED  BY <1>1, <1>2, <1>4, <2>1, <2>2, <2>3 DEF Overtaken
<1>5. ASSUME NEW e \in Dirs, NEW r \in Links(e)
      PROVE  /\ pipe'[e][After(e, r)].end = "open" <=> work'[e][r] = "run"
             /\ work'[e][r] = "ended" => AtEnd(e, r)'
             /\ work'[e][r] = "failed" => Overtaken(e, r)'
  <2>1. CASE e = d /\ r = p
    BY <1>3, <1>4, <2>1
  <2>2. CASE ~(e = d /\ r = p)
    <3>1. work'[e][r] = work[e][r] /\ r \in Pipes /\ After(e, r) \in Pipes
      BY <1>1, <1>3, <2>2
    <3>2. pipe'[e][After(e, r)].end = pipe[e][After(e, r)].end
      BY <1>1, <2>2, <3>1
    <3>. QED  BY <1>4, <3>1, <3>2 DEF Ordered
  <2>. QED  BY <2>1, <2>2
<1>6. pipe'["up"][First("up")].end # "open" => shut'
  BY <1>1 DEF Ordered
<1>7. \A e \in Dirs : fin'[e] # "open" => AtEnd(e, Exit(e))'
  BY <1>1, <1>2 DEF Ordered
<1>8. \A e \in Dirs : \A r \in Pipes : pipe'[e][r].end # "rst"
  BY <1>1 DEF Ordered
<1>9. BothDone => BothDone'
  <2>1. Inlet \in Pipes /\ "upstream" \in Pipes /\ "down" \in Dirs
    BY DEF Inlet, Pipes, Dirs
  <2>. QED  BY <1>1, <1>3, <2>1 DEF BothDone, Inlet
<1>. QED  BY <1>1, <1>2, <1>5, <1>6, <1>7, <1>8, <1>9 DEF Ordered

LEMMA ShutPipes ==
  ASSUME NEW pi \in PipeMap, NEW d \in Dirs, NEW p \in Pipes, NEW t \in Pipes, t # p,
         pi[d][p].q # <<>>, pi[d][t].end = "open", NEW c, c = Close(Take(pi, d, p), d, t)
  PROVE  /\ \A e \in Dirs : e # d => c[e] = pi[e]
         /\ \A r \in Pipes \ {p, t} : c[d][r] = pi[d][r]
         /\ c[d][p].end = pi[d][p].end /\ c[d][t].end = "eof"
         /\ c[d][t].q = pi[d][t].q
<1>1. PICK a : a = Take(pi, d, p)
  OBVIOUS
<1>2. /\ a \in PipeMap
      /\ \A e \in Dirs : e # d => a[e] = pi[e]
      /\ \A r \in Pipes : r # p => a[d][r] = pi[d][r]
      /\ a[d][p].end = pi[d][p].end
  BY <1>1, TakeTyped
<1>3. /\ \A e \in Dirs : e # d => Close(a, d, t)[e] = a[e]
      /\ \A r \in Pipes : r # t => Close(a, d, t)[d][r] = a[d][r]
  <2>1. \A e \in Dirs : e # d => Close(a, d, t)[e] = a[e]
    BY <1>2, CloseTyped
  <2>2. \A r \in Pipes : r # t => Close(a, d, t)[d][r] = a[d][r]
    BY <1>2, CloseTyped
  <2>. QED  BY <2>1, <2>2
<1>4. Close(a, d, t)[d][t].q = a[d][t].q
  BY <1>2, CloseTyped
<1>5. Close(a, d, t)[d][t].end = "eof"
  <2>1. a[d][t].end = "open"
    BY <1>2
  <2>. QED  BY <1>2, <2>1, CloseTyped
<1>6. c = Close(a, d, t) /\ a[d][t] = pi[d][t]
  BY <1>1, <1>2
<1>. QED  BY <1>2, <1>3, <1>4, <1>5, <1>6

LEMMA MoveFailsCalm ==
  ASSUME TypeOK, TypeOK', Calm, NEW d \in Dirs, NEW p \in Pipes, MoveFails(d, p)
  PROVE  Calm'
<1> PICK t : t = After(d, p)
  OBVIOUS
<1>1. /\ Kind /\ p \in Links(d) /\ t \in Pipes /\ t # p /\ t # First(d) /\ p # Exit(d) /\ p # t
      /\ work[d][p] = "run" /\ pipe[d][p].q # <<>> /\ (Copies(d, p) => pc = "relay")
      /\ UNCHANGED <<kind, pc, ends, trouble, age>> /\ "up" \in Dirs /\ "down" \in Dirs
      /\ work' = [work EXCEPT ![d][p] = "failed"] /\ Refuses(d, t)
  BY Line DEF MoveFails, Running, HasData, TypeOK, Kind, Dirs, Done
<1>2. pipe[d][t].end = "open" /\ Overtaken(d, p) /\ ~EndedFirst(d)
  <2>1. Overtaken(d, p)
    BY <1>1, RefusedIsOvertaken DEF Calm
  <2>. QED  BY <1>1, <2>1, OvertakenLate DEF Calm, Ordered
<1>6. /\ \A e \in Dirs : e # d => pipe'[e] = pipe[e]
      /\ \A r \in Pipes \ {p, t} : pipe'[d][r] = pipe[d][r]
      /\ pipe'[d][p].end = pipe[d][p].end /\ pipe'[d][t].end = "eof" /\ pipe'[d][t].q = pipe[d][t].q
  <2>1. pipe' = Close(Take(pipe, d, p), d, t)
    BY DEF MoveFails
  <2>2. pipe \in PipeMap
    BY DEF TypeOK
  <2>3. PICK c : c = Close(Take(pipe, d, p), d, t)
    OBVIOUS
  <2>4. \A e \in Dirs : e # d => c[e] = pipe[e]
    BY <1>1, <1>2, <2>2, <2>3, ShutPipes
  <2>5. \A r \in Pipes \ {p, t} : c[d][r] = pipe[d][r]
    BY <1>1, <1>2, <2>2, <2>3, ShutPipes
  <2>6. c[d][p].end = pipe[d][p].end /\ c[d][t].end = "eof"
    BY <1>1, <1>2, <2>2, <2>3, ShutPipes
  <2>7. c[d][t].q = pipe[d][t].q
    BY <1>1, <1>2, <2>2, <2>3, ShutPipes
  <2>. QED  BY <2>1, <2>3, <2>4, <2>5, <2>6, <2>7
<1>7. ASSUME NEW e \in Dirs, NEW r \in Pipes
      PROVE  /\ (e = d /\ r = t) \/ pipe'[e][r].end = pipe[e][r].end
             /\ AtEnd(e, r) => AtEnd(e, r)'
  <2>1. CASE e # d
    BY <1>6, <2>1 DEF AtEnd, HasData
  <2>2. CASE e = d /\ r = p
    BY <1>1, <1>6, <2>2 DEF AtEnd, HasData
  <2>3. CASE e = d /\ r = t
    BY <1>2, <1>6, <2>3 DEF AtEnd, HasData
  <2>4. CASE e = d /\ r \notin {p, t}
    BY <1>6, <2>4 DEF AtEnd, HasData
  <2>. QED  BY <2>1, <2>2, <2>3, <2>4
<1>8. Ordered'
  BY <1>1, <1>2, <1>6, <1>7, OrderedReturn DEF Calm, ends
<1>9. Phases'
  <2>1. d = "down" => pc \notin {"header", "dial", "confirm"}
    BY <1>1, Undelivered DEF Calm, Copies
  <2>2. d = "up" => app # "start"
    BY <1>1 DEF Calm, Phases
  <2>3. d = "up" => pipe'["up"]["upstream"].q = pipe["up"]["upstream"].q
    <3>1. d = "up" => p # "upstream"
      BY <1>1, HandlerEnds
    <3>. QED  BY <1>1, <1>6, <3>1 DEF Pipes
  <2>4. CASE d = "up"
    <3>1. pipe'["down"] = pipe["down"] /\ work'["down"] = work["down"]
      BY <1>1, <1>6, <2>4 DEF TypeOK
    <3>. QED  BY <1>1, <2>2, <2>3, <2>4, <3>1 DEF Calm, Phases, ends, Vless, Links
  <2>5. CASE d = "down"
    <3>1. pipe'["up"] = pipe["up"]
      BY <1>1, <1>6, <2>5
    <3>. QED  BY <1>1, <2>1, <2>5, <3>1 DEF Calm, Phases, ends, Vless, TypeOK
  <2>. QED  BY <2>4, <2>5 DEF Dirs
<1>10. \A e \in Dirs : Started(e)' = Started(e) /\ EndedFirst(e)' = EndedFirst(e) /\ Taken(e)' = Taken(e)
  <2>1. "upstream" \in Pipes /\ (d = "down" => t # "upstream")
    BY <1>1, RoutesDown DEF Pipes
  <2>2. UpstreamEnded' = UpstreamEnded
    BY <1>1, <1>7, <2>1 DEF UpstreamEnded
  <2>. QED  BY <1>1, <2>2 DEF Started, EndedFirst, Taken, Vless, ends
<1>11. Flow(d)'
  BY <1>2, <1>10 DEF Flow
<1>12. ASSUME NEW e \in Dirs, e # d PROVE Flow(e)'
  BY <1>1, <1>6, <1>10, <1>12, FlowFrame DEF Calm, ends
<1>. QED  BY <1>8, <1>9, <1>11, <1>12 DEF Calm

LEMMA ClosedPipes ==
  ASSUME NEW pi \in PipeMap, NEW d \in Dirs, NEW t \in Pipes, NEW c, c = Close(pi, d, t)
  PROVE  /\ \A e \in Dirs : e # d => c[e] = pi[e]
         /\ \A r \in Pipes \ {t} : c[d][r] = pi[d][r]
         /\ c[d][t].q = pi[d][t].q
         /\ pi[d][t].end = "open" => c[d][t].end = "eof"
         /\ pi[d][t].end # "open" => c = pi
<1>1. /\ \A e \in Dirs : e # d => Close(pi, d, t)[e] = pi[e]
      /\ \A r \in Pipes : r # t => Close(pi, d, t)[d][r] = pi[d][r]
  BY CloseTyped
<1>2. Close(pi, d, t)[d][t].q = pi[d][t].q
  BY CloseTyped
<1>3. pi[d][t].end = "open" => Close(pi, d, t)[d][t].end = "eof"
  BY CloseTyped
<1>4. pi[d][t].end # "open" => c = pi
  BY DEF Close
<1>. QED  BY <1>1, <1>2, <1>3, <1>4

LEMMA PassEndCalm ==
  ASSUME TypeOK, TypeOK', Calm, NEW d \in Dirs, NEW p \in Pipes, PassEnd(d, p)
  PROVE  Calm'
<1> PICK t : t = After(d, p)
  OBVIOUS
<1>1. /\ Kind /\ p \in Links(d) /\ t \in Pipes /\ t # p /\ t # First(d) /\ p # t
      /\ work[d][p] = "run" /\ AtEnd(d, p) /\ (Copies(d, p) => pc = "relay")
      /\ UNCHANGED <<kind, pc, ends, trouble, age>> /\ "up" \in Dirs /\ "down" \in Dirs
  BY Line DEF PassEnd, Running, TypeOK, Kind, Dirs
<1>2. pipe[d][t].end = "open" /\ pipe[d][p].end # "rst"
  BY <1>1 DEF Calm, Ordered
<1>3. work' = [work EXCEPT ![d][p] = "ended"]
  <2>1. pipe[d][p].end \in {"open", "eof", "rst"}
    BY DEF TypeOK, PipeMap, PipeState
  <2>2. pipe[d][p].end = "eof"
    BY <1>1, <1>2, <2>1 DEF AtEnd
  <2>. QED  BY <2>2 DEF PassEnd, Done
<1>6. /\ \A e \in Dirs : e # d => pipe'[e] = pipe[e]
      /\ \A r \in Pipes \ {t} : pipe'[d][r] = pipe[d][r]
      /\ pipe'[d][t].end = "eof" /\ pipe'[d][t].q = pipe[d][t].q
  <2>1. pipe' = Close(pipe, d, t)
    BY DEF PassEnd
  <2>2. pipe \in PipeMap
    BY DEF TypeOK
  <2>3. PICK c : c = Close(pipe, d, t)
    OBVIOUS
  <2>4. \A e \in Dirs : e # d => c[e] = pipe[e]
    BY <1>1, <2>2, <2>3, ClosedPipes
  <2>5. \A r \in Pipes \ {t} : c[d][r] = pipe[d][r]
    BY <1>1, <2>2, <2>3, ClosedPipes
  <2>6. c[d][t].q = pipe[d][t].q /\ (pipe[d][t].end = "open" => c[d][t].end = "eof")
    BY <1>1, <2>2, <2>3, ClosedPipes
  <2>. QED  BY <1>2, <2>1, <2>3, <2>4, <2>5, <2>6
<1>7. ASSUME NEW e \in Dirs, NEW r \in Pipes
      PROVE  /\ (e = d /\ r = t) \/ pipe'[e][r].end = pipe[e][r].end
             /\ AtEnd(e, r) => AtEnd(e, r)'
             /\ pipe'[e][r].q = pipe[e][r].q
  <2>1. CASE e # d
    BY <1>6, <2>1 DEF AtEnd, HasData
  <2>2. CASE e = d /\ r = t
    BY <1>2, <1>6, <2>2 DEF AtEnd, HasData
  <2>3. CASE e = d /\ r # t
    BY <1>6, <2>3 DEF AtEnd, HasData
  <2>. QED  BY <2>1, <2>2, <2>3
<1>8. Ordered'
  <2>1. AtEnd(d, p)'
    BY <1>1, <1>7
  <2>. QED  BY <1>1, <1>3, <1>6, <1>7, <2>1, OrderedReturn DEF Calm, ends
<1>9. Phases'
  <2>1. d = "down" => pc \notin {"header", "dial", "confirm"}
    <3>1. CASE p = First(d)
      BY <1>1, <3>1, RoutesDown DEF Copies
    <3>2. CASE p # First(d)
      <4>1. PICK r \in Links(d) : p = After(d, r)
        BY <1>1, <3>2, Line
      <4>2. work[d][r] # "run"
        BY <1>1, <4>1 DEF Calm, Ordered, AtEnd
      <4>. QED  BY <4>2 DEF Calm, Phases
    <3>. QED  BY <3>1, <3>2
  <2>2. d = "up" => work'["down"] = work["down"]
    BY <1>1, <1>3 DEF TypeOK
  <2>3. /\ \A r \in Pipes : pipe'["up"][r].q = pipe["up"][r].q
        /\ \A r \in Pipes : pipe'["down"][r].q = pipe["down"][r].q
        /\ "upstream" \in Pipes
    BY <1>1, <1>7 DEF Pipes
  <2>. QED  BY <1>1, <2>1, <2>2, <2>3 DEF Calm, Phases, ends, Vless, Links, Dirs
<1>10. \A e \in Dirs : Started(e)' = Started(e) /\ EndedFirst(e)' = EndedFirst(e) /\ Taken(e)' = Taken(e)
  <2>1. "upstream" \in Pipes /\ (d = "down" => t # "upstream")
    BY <1>1, RoutesDown DEF Pipes
  <2>2. UpstreamEnded' = UpstreamEnded
    BY <1>1, <1>7, <2>1 DEF UpstreamEnded
  <2>. QED  BY <1>1, <2>2 DEF Started, EndedFirst, Taken, Vless, ends
<1>11. ASSUME NEW e \in Dirs PROVE Flow(e)'
  BY <1>1, <1>7, <1>10, FlowFrame DEF Calm, ends
<1>. QED  BY <1>8, <1>9, <1>11 DEF Calm

\* A step that takes a chunk from one pipe, or puts one in.
LEMMA OnePipe ==
  ASSUME NEW d \in Dirs, NEW p \in Pipes, \A e \in Dirs : e # d => pipe'[e] = pipe[e],
         \A r \in Pipes \ {p} : pipe'[d][r] = pipe[d][r], pipe'[d][p].end = pipe[d][p].end,
         pipe[d][p].q # <<>> \/ pipe[d][p].end = "open"
  PROVE  /\ \A e \in Dirs : \A r \in Pipes : pipe'[e][r].end = pipe[e][r].end
         /\ \A e \in Dirs : \A r \in Pipes : AtEnd(e, r) => AtEnd(e, r)'
<1>1. ASSUME NEW e \in Dirs, NEW r \in Pipes
      PROVE  pipe'[e][r].end = pipe[e][r].end /\ (AtEnd(e, r) => AtEnd(e, r)')
  <2>1. CASE e # d
    BY <2>1 DEF AtEnd, HasData
  <2>2. CASE e = d /\ r = p
    BY <2>2 DEF AtEnd, HasData
  <2>3. CASE e = d /\ r # p
    BY <2>3 DEF AtEnd, HasData
  <2>. QED  BY <2>1, <2>2, <2>3
<1>. QED  BY <1>1

LEMMA TakeStep ==
  ASSUME TypeOK, NEW d \in Dirs, NEW p \in Pipes, pipe[d][p].q # <<>>, pipe' = Take(pipe, d, p)
  PROVE  /\ \A e \in Dirs : e # d => pipe'[e] = pipe[e]
         /\ \A r \in Pipes \ {p} : pipe'[d][r] = pipe[d][r]
         /\ pipe'[d][p].q = Tail(pipe[d][p].q)
         /\ \A e \in Dirs : \A r \in Pipes : pipe'[e][r].end = pipe[e][r].end
         /\ \A e \in Dirs : \A r \in Pipes : AtEnd(e, r) => AtEnd(e, r)'
<1>1. pipe \in PipeMap
  BY DEF TypeOK
<1>2. \A e \in Dirs : e # d => Take(pipe, d, p)[e] = pipe[e]
  BY <1>1, TakeTyped
<1>3. \A r \in Pipes : r # p => Take(pipe, d, p)[d][r] = pipe[d][r]
  BY <1>1, TakeTyped
<1>4. Take(pipe, d, p)[d][p].end = pipe[d][p].end
  BY <1>1, TakeTyped
<1>5. Take(pipe, d, p)[d][p].q = Tail(pipe[d][p].q)
  BY <1>1, TakeTyped
<1>6. /\ \A e \in Dirs : e # d => pipe'[e] = pipe[e]
      /\ \A r \in Pipes \ {p} : pipe'[d][r] = pipe[d][r]
      /\ pipe'[d][p].end = pipe[d][p].end
  BY <1>2, <1>3, <1>4
<1>7. pipe'[d][p].q = Tail(pipe[d][p].q)
  BY <1>5
<1>. QED  BY <1>6, <1>7, OnePipe

LEMMA PutStep ==
  ASSUME TypeOK, NEW d \in Dirs, NEW p \in Pipes, pipe[d][p].end = "open", NEW x \in Nat,
         pipe' = Put(pipe, d, p, x)
  PROVE  /\ \A e \in Dirs : e # d => pipe'[e] = pipe[e]
         /\ \A r \in Pipes \ {p} : pipe'[d][r] = pipe[d][r]
         /\ pipe'[d][p].q = Append(pipe[d][p].q, x)
         /\ \A e \in Dirs : \A r \in Pipes : pipe'[e][r].end = pipe[e][r].end
         /\ \A e \in Dirs : \A r \in Pipes : AtEnd(e, r) => AtEnd(e, r)'
<1>1. pipe \in PipeMap
  BY DEF TypeOK
<1>2. \A e \in Dirs : e # d => Put(pipe, d, p, x)[e] = pipe[e]
  BY <1>1, PutTyped
<1>3. \A r \in Pipes : r # p => Put(pipe, d, p, x)[d][r] = pipe[d][r]
  BY <1>1, PutTyped
<1>4. Put(pipe, d, p, x)[d][p].end = pipe[d][p].end
  BY <1>1, PutTyped
<1>5. Put(pipe, d, p, x)[d][p].q = Append(pipe[d][p].q, x)
  BY <1>1, PutTyped
<1>6. /\ \A e \in Dirs : e # d => pipe'[e] = pipe[e]
      /\ \A r \in Pipes \ {p} : pipe'[d][r] = pipe[d][r]
      /\ pipe'[d][p].end = pipe[d][p].end
  BY <1>2, <1>3, <1>4
<1>7. pipe'[d][p].q = Append(pipe[d][p].q, x)
  BY <1>5
<1>. QED  BY <1>6, <1>7, OnePipe

LEMMA HeaderCalm ==
  ASSUME TypeOK, TypeOK', Calm, pc = "header", pc' = "dial", HasData("up", Inlet),
         pipe' = Take(pipe, "up", Inlet), UNCHANGED <<kind, work, ends, trouble, age>>
  PROVE  Calm'
<1> PICK p : p = Inlet
  OBVIOUS
<1>1. /\ Kind /\ "up" \in Dirs /\ "down" \in Dirs /\ p \in Pipes /\ p # "upstream"
      /\ "upstream" \in Pipes /\ pipe["up"][p].q # <<>>
  BY DEF TypeOK, Kind, Dirs, Inlet, HasData, Pipes
<1>2. /\ pipe'["down"] = pipe["down"]
      /\ \A r \in Pipes \ {p} : pipe'["up"][r] = pipe["up"][r]
      /\ pipe'["up"][p].q = Tail(pipe["up"][p].q)
      /\ \A e \in Dirs : \A r \in Pipes : pipe'[e][r].end = pipe[e][r].end
      /\ \A e \in Dirs : \A r \in Pipes : AtEnd(e, r) => AtEnd(e, r)'
  BY <1>1, TakeStep
<1>3. Ordered'
  BY <1>1, <1>2, OrderedQueues DEF Calm, Ordered, ends
<1>4. app # "start"
  BY <1>1 DEF Calm, Phases
<1>5. Phases'
  BY <1>1, <1>2, <1>4 DEF Calm, Phases, ends, Vless, Links
<1>6. EndedFirst("up")' = EndedFirst("up")
  BY <1>1, <1>2 DEF EndedFirst, UpstreamEnded, ends
<1>7. Flow("up")'
  <2>. SUFFICES ASSUME EndedFirst("up") PROVE Flow("up")'
    BY <1>6 DEF Flow
  <2>1. Started("up") /\ Taken("up") = 0 /\ Taken("up")' = 1 /\ got["up"] = <<>> /\ pipe["up"]["upstream"].q = <<>>
    BY <1>4 DEF Started, Taken, Calm, Phases
  <2>2. PICK b \in [Pipes -> Nat] : Counts("up", Queues("up"), got["up"], 0, sent["up"], b)
    BY <1>1, <2>1 DEF Calm, Flow, Numbered
  <2>3. PICK q, q2 : q = Queues("up") /\ q2 = Queues("up")'
    OBVIOUS
  <2>4. /\ q \in QueueMap /\ q2 \in QueueMap
        /\ \A r \in Pipes : q[r] = pipe["up"][r].q
        /\ \A r \in Pipes : q2[r] = pipe'["up"][r].q
    BY <1>1, <2>3, QueuesTyped, QueuesTypedNext
  <2>5. q["upstream"] = <<>> /\ q[p] # <<>> /\ \A r \in Pipes \ {p} : q2[r] = q[r]
    BY <1>1, <1>2, <2>1, <2>4
  <2>6. q2[p] = Tail(q[p])
    BY <1>1, <1>2, <2>4
  <2>7. PICK c : c = [b EXCEPT ![p] = 1, !["upstream"] = 1]
    OBVIOUS
  <2>8. PICK g, s : g = got["up"] /\ s = sent["up"] /\ g = <<>> /\ Counts("up", q, g, 0, s, b)
    BY <2>1, <2>2, <2>3
  <2>9. Counts("up", q2, g, 1, s, c)
    BY <1>1, <2>4, <2>5, <2>6, <2>7, <2>8, CountsHeader
  <2>10. c \in [Pipes -> Nat] /\ got'["up"] = g /\ sent'["up"] = s
    BY <2>7, <2>8 DEF ends
  <2>. QED  BY <1>1, <2>1, <2>3, <2>9, <2>10, FlowWith
<1>8. Flow("down")'
  BY DEF Flow, Started
<1>. QED  BY <1>3, <1>5, <1>7, <1>8 DEF Calm, Dirs

\* When the relay begins, what the upstream has sent is still in its pipe; a confirmation,
\* if there is one, goes ahead of it.
LEMMA CountsRelay ==
  ASSUME Kind, NEW q \in QueueMap, NEW s, s = Len(q["upstream"]), From(q["upstream"], 1),
         \A r \in Pipes \ {"upstream"} : q[r] = <<>>
  PROVE  /\ Counts("down", q, <<>>, 1, s, [r \in Pipes |-> 1])
         /\ \A q2 : (q2[Outlet] = << 0 >> /\ \A r \in Pipes \ {Outlet} : q2[r] = q[r])
              => Counts("down", q2, <<>>, 0, s, [r \in Pipes |-> IF r = "upstream" THEN 1 ELSE 0])
<1>1. /\ "down" \in Dirs /\ "upstream" \in Pipes /\ Exit("down") \in Pipes /\ First("down") = "upstream"
      /\ Outlet \in Pipes /\ Outlet # "upstream" /\ Outlet = After("down", "upstream")
      /\ Exit("down") # "upstream" /\ Exit("down") \notin Links("down")
  BY Line, HandlerEnds DEF Dirs, Pipes, Outlet
<1>2. /\ \A r \in Links("down") : r \in Pipes /\ After("down", r) \in Pipes /\ After("down", r) # "upstream"
      /\ \A r \in Links("down") : r # "upstream" => After("down", r) # Outlet
  BY <1>1, HandlerEnds, Line
<1>3. Len(q["upstream"]) \in Nat
  BY <1>1 DEF QueueMap
<1>4. \A r \in Pipes \ {"upstream"} : Len(q[r]) = 0 /\ \A n : From(q[r], n)
  BY DEF From
<1>5. From(<<>>, 1) /\ Len(<<>>) = 0
  BY DEF From
<1>6. Counts("down", q, <<>>, 1, s, [r \in Pipes |-> 1])
  <2> PICK b : b = [r \in Pipes |-> 1]
    OBVIOUS
  <2>1. \A r \in Pipes : b[r] = 1
    OBVIOUS
  <2>2. b[Exit("down")] = Len(<<>>) + 1
    BY <1>1, <1>5, <2>1
  <2>3. \A r \in Links("down") : b[r] = b[After("down", r)] + Len(q[After("down", r)])
    BY <1>2, <1>4, <2>1
  <2>4. b[First("down")] + Len(q[First("down")]) = s + 1
    BY <1>1, <1>3, <2>1
  <2>5. \A r \in Links("down") \cup {Exit("down")} : From(q[r], b[r])
    BY <1>1, <1>2, <1>4, <2>1
  <2>. QED  BY <1>5, <2>2, <2>3, <2>4, <2>5 DEF Counts
<1>7. ASSUME NEW q2, q2[Outlet] = << 0 >>, \A r \in Pipes \ {Outlet} : q2[r] = q[r]
      PROVE  Counts("down", q2, <<>>, 0, s, [r \in Pipes |-> IF r = "upstream" THEN 1 ELSE 0])
  <2> PICK b : b = [r \in Pipes |-> IF r = "upstream" THEN 1 ELSE 0]
    OBVIOUS
  <2>1. b["upstream"] = 1 /\ \A r \in Pipes \ {"upstream"} : b[r] = 0
    BY <1>1
  <2>2. Len(q2[Outlet]) = 1 /\ From(q2[Outlet], 0)
    BY <1>7 DEF From
  <2>3. b[Exit("down")] = Len(<<>>) + 0
    BY <1>1, <1>5, <2>1
  <2>4. ASSUME NEW r \in Links("down")
        PROVE  b[r] = b[After("down", r)] + Len(q2[After("down", r)])
    <3>1. CASE r = "upstream"
      BY <1>1, <2>1, <2>2, <3>1
    <3>2. CASE r # "upstream"
      <4>1. After("down", r) \in Pipes \ {"upstream", Outlet} /\ r \in Pipes
        BY <1>2, <3>2
      <4>2. Len(q2[After("down", r)]) = 0 /\ b[After("down", r)] = 0 /\ b[r] = 0
        BY <1>4, <1>7, <2>1, <3>2, <4>1
      <4>. QED  BY <4>2
    <3>. QED  BY <3>1, <3>2
  <2>5. b[First("down")] + Len(q2[First("down")]) = s + 1
    <3>1. q2["upstream"] = q["upstream"]
      BY <1>1, <1>7
    <3>. QED  BY <1>1, <1>3, <2>1, <3>1
  <2>6. ASSUME NEW r \in Links("down") \cup {Exit("down")} PROVE From(q2[r], b[r])
    <3>1. CASE r = Outlet
      BY <1>1, <2>1, <2>2, <3>1
    <3>2. CASE r # Outlet
      BY <1>1, <1>2, <1>4, <1>7, <2>1, <3>2
    <3>. QED  BY <3>1, <3>2
  <2>. QED  BY <1>5, <2>3, <2>4, <2>5, <2>6 DEF Counts
<1>. QED  BY <1>6, <1>7

\* While nothing has been relayed, the queues towards the client are as CountsRelay wants.
LEMMA QueuesEarly ==
  ASSUME TypeOK, Phases, pc \in {"header", "dial", "confirm"}
  PROVE  /\ Queues("down") \in QueueMap /\ sent["down"] = Len(Queues("down")["upstream"])
         /\ From(Queues("down")["upstream"], 1) /\ got["down"] = <<>>
         /\ \A r \in Pipes \ {"upstream"} : Queues("down")[r] = <<>>
<1>1. "down" \in Dirs /\ "upstream" \in Pipes
  BY DEF Dirs, Pipes
<1>2. Queues("down") \in QueueMap /\ \A r \in Pipes : Queues("down")[r] = pipe["down"][r].q
  BY <1>1, QueuesTyped
<1>. QED  BY <1>1, <1>2 DEF Phases

LEMMA ConnectedCalm ==
  ASSUME TypeOK, TypeOK', Calm, Connected
  PROVE  Calm'
<1>1. /\ Kind /\ "up" \in Dirs /\ "down" \in Dirs /\ pc = "dial" /\ ups' = "open"
      /\ UNCHANGED <<kind, pipe, work, app, shut, sent, got, fin, trouble, age>>
      /\ pc' = IF Vless THEN "confirm" ELSE "relay"
  BY DEF Connected, TypeOK, Kind, Dirs
<1>2. Ordered'
  <2>1. \A e \in Dirs : \A r \in Pipes : pipe'[e][r].end = pipe[e][r].end
    BY <1>1
  <2>2. \A e \in Dirs : \A r \in Pipes : AtEnd(e, r) => AtEnd(e, r)'
    BY <1>1 DEF AtEnd, HasData
  <2>. QED  BY <1>1, <2>1, <2>2, OrderedQueues DEF Calm, Ordered
<1>3. Phases'
  BY <1>1 DEF Calm, Phases, Vless, Links
<1>4. Flow("up")'
  BY <1>1, FlowFrame DEF Calm, Started, EndedFirst, UpstreamEnded, Taken
<1>5. Flow("down")'
  <2>1. CASE Vless
    BY <1>1, <2>1 DEF Flow, Started
  <2>2. CASE ~Vless
    <3>1. PICK q, s : q = Queues("down") /\ s = sent["down"]
      OBVIOUS
    <3>2. /\ q \in QueueMap /\ s = Len(q["upstream"]) /\ From(q["upstream"], 1)
          /\ \A r \in Pipes \ {"upstream"} : q[r] = <<>>
      BY <1>1, <3>1, QueuesEarly DEF Calm
    <3>3. Counts("down", q, <<>>, 1, s, [r \in Pipes |-> 1])
      BY <1>1, <3>2, CountsRelay
    <3>4. got'["down"] = <<>> /\ sent'["down"] = s /\ Queues("down")' = q
      BY <1>1, <3>1 DEF Calm, Phases, Queues
    <3>5. Taken("down")' = 1
      BY <1>1, <2>2 DEF Taken, Vless
    <3>6. [r \in Pipes |-> 1] \in [Pipes -> Nat]
      OBVIOUS
    <3>. QED  BY <1>1, <3>3, <3>4, <3>5, <3>6, FlowWith
  <2>. QED  BY <2>1, <2>2
<1>. QED  BY <1>2, <1>3, <1>4, <1>5 DEF Calm, Dirs

LEMMA ConfirmCalm ==
  ASSUME TypeOK, TypeOK', Calm, pc = "confirm", pipe' = Put(pipe, "down", Outlet, 0), pc' = "relay",
         UNCHANGED <<kind, work, ends, trouble, age>>
  PROVE  Calm'
<1> PICK p : p = Outlet
  OBVIOUS
<1>1. /\ Kind /\ "up" \in Dirs /\ "down" \in Dirs /\ p \in Pipes /\ p # "upstream" /\ "upstream" \in Pipes
      /\ "upstream" \in Links("down") /\ p = After("down", "upstream")
  BY HandlerEnds DEF TypeOK, Kind, Dirs, Outlet, Pipes
<1>2. pipe["down"][p].end = "open" /\ pipe["down"][p].q = <<>>
  BY <1>1 DEF Calm, Ordered, Phases
<1>3. /\ pipe'["up"] = pipe["up"]
      /\ \A r \in Pipes \ {p} : pipe'["down"][r] = pipe["down"][r]
      /\ pipe'["down"][p].q = Append(pipe["down"][p].q, 0)
      /\ \A e \in Dirs : \A r \in Pipes : pipe'[e][r].end = pipe[e][r].end
      /\ \A e \in Dirs : \A r \in Pipes : AtEnd(e, r) => AtEnd(e, r)'
  BY <1>1, <1>2, PutStep
<1>4. Ordered'
  BY <1>1, <1>3, OrderedQueues DEF Calm, Ordered, ends
<1>5. Phases'
  BY <1>1, <1>3 DEF Calm, Phases, ends, Vless
<1>6. Flow("up")'
  BY <1>1, <1>3, FlowFrame DEF Calm, Started, EndedFirst, UpstreamEnded, Taken, ends
<1>7. Flow("down")'
  <2>1. PICK q, q2, s : q = Queues("down") /\ q2 = Queues("down")' /\ s = sent["down"]
    OBVIOUS
  <2>2. /\ q \in QueueMap /\ s = Len(q["upstream"]) /\ From(q["upstream"], 1)
        /\ \A r \in Pipes \ {"upstream"} : q[r] = <<>>
    BY <1>1, <2>1, QueuesEarly DEF Calm
  <2>3. \A r \in Pipes : q[r] = pipe["down"][r].q /\ q2[r] = pipe'["down"][r].q
    BY <1>1, <2>1, QueuesTyped, QueuesTypedNext
  <2>4. q2[Outlet] = << 0 >> /\ \A r \in Pipes \ {Outlet} : q2[r] = q[r]
    BY <1>1, <1>2, <1>3, <2>3
  <2>5. PICK b : b = [r \in Pipes |-> IF r = "upstream" THEN 1 ELSE 0]
    OBVIOUS
  <2>6. Counts("down", q2, <<>>, 0, s, b)
    BY <1>1, <2>2, <2>4, <2>5, CountsRelay
  <2>7. got'["down"] = <<>> /\ sent'["down"] = s /\ b \in [Pipes -> Nat]
    BY <1>1, <2>1, <2>5 DEF Calm, Phases, ends
  <2>8. Taken("down")' = 0
    BY DEF Taken, Vless, ends, Calm, Phases
  <2>. QED  BY <1>1, <2>1, <2>6, <2>7, <2>8, FlowWith
<1>. QED  BY <1>4, <1>5, <1>6, <1>7 DEF Calm, Dirs

LEMMA TickCalm ==
  ASSUME TypeOK, Calm, Tick
  PROVE  Calm'
<1>1. /\ Kind /\ "up" \in Dirs /\ "down" \in Dirs /\ UNCHANGED <<kind, pipe, work, pc, ends, trouble>>
  BY DEF Tick, TypeOK, Kind, Dirs
<1>2. Ordered'
  <2>1. \A e \in Dirs : \A r \in Pipes : pipe'[e][r].end = pipe[e][r].end
    BY <1>1
  <2>2. \A e \in Dirs : \A r \in Pipes : AtEnd(e, r) => AtEnd(e, r)'
    BY <1>1 DEF AtEnd, HasData
  <2>. QED  BY <1>1, <2>1, <2>2, OrderedQueues DEF Calm, Ordered, ends
<1>3. Phases'
  BY <1>1 DEF Calm, Phases, Vless, Links, ends
<1>4. \A d \in Dirs : Flow(d)'
  BY <1>1, FlowFrame DEF Calm, Started, EndedFirst, UpstreamEnded, Taken, Vless, ends
<1>. QED  BY <1>2, <1>3, <1>4 DEF Calm

\* A handler that returns after both directions have ended changes nothing more.
LEMMA RelayEndsCalm ==
  ASSUME TypeOK, Calm, RelayEnds, trouble' = {}
  PROVE  Calm'
<1>1. /\ Kind /\ "up" \in Dirs /\ "down" \in Dirs /\ "upstream" \in Pipes /\ Outlet \in Pipes
      /\ pc = "relay" /\ pc' = "done" /\ BothDone /\ UNCHANGED <<kind, work, ends, age>>
  BY DEF RelayEnds, Return, TypeOK, Kind, Dirs, Pipes, Outlet
<1>2. pipe["up"]["upstream"].end # "open" /\ pipe["down"][Outlet].end # "open"
  BY <1>1, HandlerEnds DEF BothDone, Calm, Ordered
<1>3. \A d \in Dirs : \A r \in Pipes : pipe[d][r].end # "rst"
  BY DEF Calm, Ordered
<1>4. pipe \in PipeMap
  BY DEF TypeOK
<1>5. PICK u, c :
        /\ u \in IF ups = "open" THEN Drop(pipe, "up", "upstream", HasData("down", "upstream")) ELSE {pipe}
        /\ c \in IF kind = "anytls" THEN {u}
                 ELSE Drop(u, "down", Outlet, kind = "tcp" /\ HasData("up", Inlet))
        /\ pipe' = c
        /\ trouble' = trouble \cup {} \cup
             (IF \E d \in Dirs, p \in Pipes : c[d][p].end = "rst" /\ pipe[d][p].end # "rst"
              THEN {"reset"} ELSE {})
  BY DEF RelayEnds, Return
<1>6. \A d \in Dirs : \A p \in Pipes : c[d][p].end # "rst"
  BY <1>3, <1>5
<1>7. u = pipe \/ (u["up"]["upstream"].end = "rst" /\ u \in PipeMap)
  <2>1. u = pipe \/ u = Close(pipe, "up", "upstream") \/ u = Reset(pipe, "up", "upstream")
    BY <1>5 DEF Drop
  <2>. QED  BY <1>1, <1>2, <1>4, <2>1, ClosedPipes, ResetTyped
<1>8. c = u \/ c = Close(u, "down", Outlet) \/ c = Reset(u, "down", Outlet)
  BY <1>5 DEF Drop
<1>9. u = pipe
  <2>. SUFFICES ASSUME u["up"]["upstream"].end = "rst", u \in PipeMap PROVE FALSE
    BY <1>7
  <2>1. \A e \in Dirs : e # "down" => Close(u, "down", Outlet)[e] = u[e]
    BY <1>1, CloseTyped
  <2>2. \A e \in Dirs : e # "down" => Reset(u, "down", Outlet)[e] = u[e]
    BY <1>1, ResetTyped
  <2>3. c["up"] = u["up"]
    BY <1>1, <1>8, <2>1, <2>2
  <2>. QED  BY <1>1, <1>6, <2>3
<1>10. pipe' = pipe
  <2>1. Close(pipe, "down", Outlet) = pipe
    BY <1>2 DEF Close
  <2>2. Reset(pipe, "down", Outlet)["down"][Outlet].end = "rst"
    BY <1>1, <1>4, ResetTyped
  <2>. QED  BY <1>1, <1>5, <1>6, <1>8, <1>9, <2>1, <2>2
<1>11. trouble = {}
  BY <1>5
<1>12. Ordered'
  <2>1. /\ \A d \in Dirs : \A p \in Pipes : AtEnd(d, p)' <=> AtEnd(d, p)
        /\ \A d \in Dirs : \A p \in Pipes : Overtaken(d, p)' <=> Overtaken(d, p)
        /\ \A d \in Dirs : Links(d)' = Links(d) /\ First(d)' = First(d) /\ Exit(d)' = Exit(d)
        /\ \A d \in Dirs : \A p \in Links(d) : After(d, p)' = After(d, p)
    BY <1>1, <1>10 DEF AtEnd, HasData, Overtaken, Links, First, Exit, After
  <2>2. BothDone'
    BY <1>1 DEF BothDone, Inlet
  <2>3. \A d \in Dirs : Links(d) \subseteq Pipes /\ Exit(d) \in Pipes
    BY <1>1, Line
  <2>. QED  BY <1>1, <1>10, <2>1, <2>2, <2>3 DEF Calm, Ordered, ends
<1>13. Phases'
  BY <1>1, <1>10 DEF Calm, Phases, Vless, Links, ends
<1>14. \A d \in Dirs : Flow(d)'
  BY <1>1, <1>10, FlowFrame DEF Calm, Started, EndedFirst, UpstreamEnded, Taken, Vless, ends
<1>. QED  BY <1>12, <1>13, <1>14 DEF Calm

\* Every other way for the handler to return is a disturbance.
LEMMA HandlerCalm ==
  ASSUME TypeOK, TypeOK', Calm, trouble' = {}, Overflow \/ Handler \/ Connected \/ Refused \/ Tick
  PROVE  Calm'
<1>1. ASSUME NEW why, why # {} PROVE ~Return(why)
  BY <1>1 DEF Return
<1>2. ~Overflow
  BY DEF Overflow
<1>3. CASE ReadHeader
  BY <1>1, <1>3, HeaderCalm DEF ReadHeader
<1>4. CASE Confirm
  BY <1>1, <1>4, ConfirmCalm DEF Confirm
<1>5. ~HeaderTimeout /\ ~Refused /\ ~ConnectTimeout /\ ~Cut
  BY <1>1 DEF HeaderTimeout, Refused, ConnectTimeout, Cut
<1>. QED  BY <1>2, <1>3, <1>4, <1>5, ConnectedCalm, TickCalm, RelayEndsCalm DEF Handler

\* The next chunk is put in the first pipe.
LEMMA FlowSend ==
  ASSUME TypeOK, TypeOK', UNCHANGED kind, NEW d \in Dirs, Flow(d),
         Started(d)' /\ EndedFirst(d)' => Started(d) /\ EndedFirst(d),
         sent'[d] = sent[d] + 1, got'[d] = got[d], Taken(d)' = Taken(d),
         pipe'[d][First(d)].q = Append(pipe[d][First(d)].q, sent[d] + 1),
         \A r \in Pipes \ {First(d)} : pipe'[d][r] = pipe[d][r]
  PROVE  Flow(d)'
<1>. SUFFICES ASSUME Started(d)', EndedFirst(d)' PROVE Flow(d)'
  BY DEF Flow
<1>1. Kind /\ First(d) \in Pipes
  BY Line DEF TypeOK, Kind
<1>2. PICK q, q2, g, t, f : q = Queues(d) /\ q2 = Queues(d)' /\ g = got[d] /\ t = Taken(d) /\ f = First(d)
  OBVIOUS
<1>3. PICK s \in Nat : s = sent[d]
  BY DEF TypeOK
<1>4. PICK b \in [Pipes -> Nat] : Counts(d, q, g, t, s, b)
  BY <1>2, <1>3 DEF Flow, Numbered
<1>5. q \in QueueMap /\ \A r \in Pipes : q[r] = pipe[d][r].q /\ q2[r] = pipe'[d][r].q
  BY <1>2, QueuesTyped, QueuesTypedNext
<1>6. q2[f] = Append(q[f], s + 1) /\ \A r \in Pipes \ {f} : q2[r] = q[r]
  <2>1. q[f] = pipe[d][f].q /\ q2[f] = pipe'[d][f].q
    BY <1>1, <1>2, <1>5
  <2>2. q2[f] = Append(q[f], s + 1)
    BY <1>2, <1>3, <2>1
  <2>3. \A r \in Pipes \ {f} : q2[r] = q[r]
    BY <1>2, <1>5
  <2>. QED  BY <2>2, <2>3
<1>7. PICK s2, g2, t2 : s2 = sent'[d] /\ g2 = got'[d] /\ t2 = Taken(d)'
  OBVIOUS
<1>8. s2 = s + 1 /\ g2 = g /\ t2 = t
  BY <1>2, <1>3, <1>7
<1>9. Counts(d, q2, g2, t2, s2, b)
  <2>1. Kind /\ f = First(d) /\ q \in QueueMap
    BY <1>1, <1>2, <1>5
  <2>2. Counts(d, q2, g, t, s + 1, b)
    BY <1>3, <1>4, <1>6, <2>1, CountsSend, ZenonT(60)
  <2>. QED  BY <1>8, <2>2
<1>. QED  BY <1>2, <1>7, <1>9, FlowWith

\* A chunk is taken from the last pipe: the confirmation, or what is received next.
LEMMA FlowTake ==
  ASSUME TypeOK, TypeOK', UNCHANGED kind, NEW d \in Dirs, Flow(d),
         Started(d)' /\ EndedFirst(d)' => Started(d) /\ EndedFirst(d),
         sent'[d] = sent[d], pipe[d][Exit(d)].q # <<>>,
         pipe'[d][Exit(d)].q = Tail(pipe[d][Exit(d)].q),
         \A r \in Pipes \ {Exit(d)} : pipe'[d][r] = pipe[d][r],
         \/ got'[d] = got[d] /\ Taken(d)' = Taken(d) + 1
         \/ Taken(d) = 1 /\ Taken(d)' = 1 /\ got'[d] = Append(got[d], Head(pipe[d][Exit(d)].q))
  PROVE  Flow(d)'
<1>. SUFFICES ASSUME Started(d)', EndedFirst(d)' PROVE Flow(d)'
  BY DEF Flow
<1>1. Kind /\ Exit(d) \in Pipes
  BY Line DEF TypeOK, Kind
<1>2. PICK q, q2, s, e : q = Queues(d) /\ q2 = Queues(d)' /\ s = sent[d] /\ e = Exit(d)
  OBVIOUS
<1>3. PICK g \in Seq(Nat), t \in Nat : g = got[d] /\ t = Taken(d)
  BY DEF TypeOK, Taken
<1>4. PICK g2, t2, s2 : g2 = got'[d] /\ t2 = Taken(d)' /\ s2 = sent'[d]
  OBVIOUS
<1>5. PICK b \in [Pipes -> Nat] : Counts(d, q, g, t, s, b)
  BY <1>2, <1>3 DEF Flow, Numbered
<1>6. q \in QueueMap /\ \A r \in Pipes : q[r] = pipe[d][r].q /\ q2[r] = pipe'[d][r].q
  BY <1>2, QueuesTyped, QueuesTypedNext
<1>7. q[e] # <<>> /\ q2[e] = Tail(q[e]) /\ \A r \in Pipes \ {e} : q2[r] = q[r]
  <2>1. q[e] = pipe[d][e].q /\ q2[e] = pipe'[d][e].q
    BY <1>1, <1>2, <1>6
  <2>2. q[e] # <<>> /\ q2[e] = Tail(q[e])
    BY <1>2, <2>1
  <2>3. \A r \in Pipes \ {e} : q2[r] = q[r]
    BY <1>2, <1>6
  <2>. QED  BY <2>2, <2>3
<1>8. Receives(g, t, Head(q[e]), g2, t2)
  BY <1>1, <1>2, <1>3, <1>4, <1>6 DEF Receives
<1>9. PICK c : c = [b EXCEPT ![e] = @ + 1]
  OBVIOUS
<1>10. Counts(d, q2, g2, t2, s, c)
  <2>1. /\ Kind /\ q \in QueueMap /\ g \in Seq(Nat) /\ t \in Nat /\ b \in [Pipes -> Nat]
        /\ Counts(d, q, g, t, s, b) /\ e = Exit(d) /\ q[e] # <<>> /\ q2[e] = Tail(q[e])
        /\ \A r \in Pipes \ {e} : q2[r] = q[r]
    BY <1>1, <1>2, <1>3, <1>5, <1>6, <1>7
  <2>2. Counts(d, q2, g2, t2, s, [b EXCEPT ![e] = @ + 1])
    BY <1>8, <2>1, CountsTake
  <2>. QED  BY <1>9, <2>2
<1>11. c \in [Pipes -> Nat]
  <2>1. b[e] + 1 \in Nat
    BY <1>1, <1>2
  <2>. QED  BY <1>9, <2>1
<1>12. s2 = s
  BY <1>2, <1>4
<1>13. Counts(d, q2, g2, t2, s2, c)
  BY <1>10, <1>12
<1>. QED  BY <1>2, <1>4, <1>11, <1>13, FlowWith

LEMMA HelloCalm ==
  ASSUME TypeOK, TypeOK', Calm, Hello
  PROVE  Calm'
<1> PICK x : x = IF kind = "ws" THEN "client" ELSE "wire"
  OBVIOUS
<1>1. /\ Kind /\ "up" \in Dirs /\ "down" \in Dirs /\ x \in Pipes /\ x \in Links("up") \cup {Exit("up")}
      /\ x # "upstream" /\ "upstream" \in Pipes /\ Exit("up") = "upstream"
      /\ UNCHANGED <<kind, work, pc, shut, ups, sent, got, fin, trouble, age>>
      /\ pipe' = Put(pipe, "up", x, 0) /\ app = "start" /\ app' = (IF Vless THEN "wait" ELSE "open")
  BY RoutesUp DEF Hello, TypeOK, Kind, Dirs, Pipes
<1>2. /\ pc = "header" /\ ~shut /\ got["up"] = <<>> /\ sent["up"] = 0
      /\ \A r \in Pipes : pipe["up"][r].q = <<>>
  BY <1>1 DEF Calm, Phases
<1>3. pipe["up"][x].end = "open"
  <2>1. CASE x = First("up")
    BY <1>2, <2>1 DEF Calm, Ordered
  <2>2. CASE x # First("up")
    <3>1. kind = "anytls" /\ "client" \in Links("up") /\ "client" \in Pipes
          /\ After("up", "client") = x /\ First("up") = "client"
      BY <1>1, <2>2, RoutesUp DEF Kind, Pipes
    <3>2. pipe["up"]["client"].end = "open"
      BY <1>2, <3>1 DEF Calm, Ordered
    <3>3. work["up"]["client"] # "ended" /\ work["up"]["client"] # "failed"
      BY <1>1, <3>1, <3>2 DEF Calm, Ordered, AtEnd, Overtaken
    <3>4. work["up"]["client"] = "run"
      BY <1>1, <3>1, <3>3 DEF TypeOK
    <3>. QED  BY <1>1, <3>1, <3>4 DEF Calm, Ordered
  <2>. QED  BY <2>1, <2>2
<1>4. /\ pipe'["down"] = pipe["down"]
      /\ \A r \in Pipes \ {x} : pipe'["up"][r] = pipe["up"][r]
      /\ pipe'["up"][x].q = Append(pipe["up"][x].q, 0)
      /\ \A e \in Dirs : \A r \in Pipes : pipe'[e][r].end = pipe[e][r].end
      /\ \A e \in Dirs : \A r \in Pipes : AtEnd(e, r) => AtEnd(e, r)'
  BY <1>1, <1>3, PutStep, SMTT(60)
<1>5. Ordered'
  <2>1. Kind /\ Ordered /\ app # "gone" /\ ups # "gone"
    BY <1>1 DEF Calm, Ordered
  <2>2. UNCHANGED <<kind, work, fin>> /\ pc' = pc /\ app' # "gone" /\ ups' # "gone" /\ (shut => shut')
    BY <1>1, <2>1
  <2>3. /\ \A e \in Dirs : \A r \in Pipes : pipe'[e][r].end = pipe[e][r].end
        /\ \A e \in Dirs : \A r \in Pipes : AtEnd(e, r) => AtEnd(e, r)'
    BY <1>4
  <2>. QED  BY <2>1, <2>2, <2>3, OrderedQueues
<1>6. Phases'
  <2>1. /\ pipe'["down"] = pipe["down"] /\ pipe'["up"]["upstream"] = pipe["up"]["upstream"]
        /\ app = "start" /\ app' # "start" /\ (app' = "wait" => Vless) /\ (Vless => app' # "open")
        /\ pc = "header" /\ ~shut
    BY <1>1, <1>2, <1>4
  <2>2. /\ UNCHANGED <<pc, shut, ups, sent, got, fin, work>>
        /\ Vless' = Vless /\ Links("down")' = Links("down")
    BY <1>1 DEF Vless, Links
  <2>3. fin["down"] = "open"
    BY <2>1 DEF Calm, Phases
  <2>. QED  BY <2>1, <2>2, <2>3, SMTT(60) DEF Calm, Phases
<1>7. Flow("up")'
  <2>1. PICK q : q = Queues("up")'
    OBVIOUS
  <2>2. q[x] = << 0 >> /\ \A r \in Pipes \ {x} : q[r] = <<>>
    BY <1>1, <1>2, <1>4, <2>1, QueuesTypedNext
  <2>3. PICK b : b = [r \in Pipes |-> IF r = "client" /\ x # "client" THEN 1 ELSE 0]
    OBVIOUS
  <2>4. \A r \in Pipes : b[r] = IF r = "client" /\ x # "client" THEN 1 ELSE 0
    BY <2>3
  <2>5. /\ Len(q[x]) = 1 /\ From(q[x], 0) /\ Len(<<>>) = 0 /\ From(<<>>, 1)
        /\ \A r \in Pipes \ {x} : Len(q[r]) = 0 /\ \A n : From(q[r], n)
    BY <2>2 DEF From
  <2>6. b[Exit("up")] = Len(<<>>) + 0
    BY <1>1, <2>4, <2>5
  <2>7. \A r \in Links("up") : b[r] = b[After("up", r)] + Len(q[After("up", r)])
    <3>1. CASE kind \in {"tcp", "tuic"}
      <4>1. x = "wire" /\ Links("up") = {"wire"} /\ After("up", "wire") = "upstream"
        BY <1>1, <3>1, RoutesUp
      <4>2. b["wire"] = 0 /\ b["upstream"] = 0
        BY <2>4, <4>1 DEF Pipes
      <4>3. Len(q["upstream"]) = 0
        BY <2>5, <4>1 DEF Pipes
      <4>. QED  BY <4>1, <4>2, <4>3
    <3>2. CASE kind = "ws"
      <4>1. x = "client" /\ Links("up") = {"client", "wire", "server"}
            /\ After("up", "client") = "wire" /\ After("up", "wire") = "server"
            /\ After("up", "server") = "upstream"
        BY <1>1, <3>2, RoutesUp
      <4>2. \A r \in Pipes : b[r] = 0
        BY <2>4, <4>1
      <4>3. Len(q["wire"]) = 0 /\ Len(q["server"]) = 0 /\ Len(q["upstream"]) = 0
        BY <2>5, <4>1 DEF Pipes
      <4>. QED  BY <4>1, <4>2, <4>3 DEF Pipes
    <3>3. CASE kind = "anytls"
      <4>1. x = "wire" /\ Links("up") = {"client", "wire", "server"}
            /\ After("up", "client") = "wire" /\ After("up", "wire") = "server"
            /\ After("up", "server") = "upstream"
        BY <1>1, <3>3, RoutesUp
      <4>2. b["client"] = 1 /\ b["wire"] = 0 /\ b["server"] = 0 /\ b["upstream"] = 0
        BY <2>4, <4>1 DEF Pipes
      <4>3. Len(q["wire"]) = 1 /\ Len(q["server"]) = 0 /\ Len(q["upstream"]) = 0
        BY <2>5, <4>1 DEF Pipes
      <4>4. b["client"] = b["wire"] + Len(q["wire"])
        BY <4>2, <4>3
      <4>5. b["wire"] = b["server"] + Len(q["server"]) /\ b["server"] = b["upstream"] + Len(q["upstream"])
        BY <4>2, <4>3
      <4>. QED  BY <4>1, <4>4, <4>5
    <3>. QED  BY <1>1, <3>1, <3>2, <3>3 DEF Kind
  <2>8. b[First("up")] + Len(q[First("up")]) = 0 + 1
    <3>1. CASE x = First("up")
      <4>1. b[x] = 0 /\ Len(q[x]) = 1
        BY <1>1, <2>4, <2>5
      <4>. QED  BY <3>1, <4>1
    <3>2. CASE x # First("up")
      <4>1. First("up") = "client" /\ "client" \in Pipes
        BY <1>1, <3>2, RoutesUp DEF Kind, Pipes
      <4>. QED  BY <2>4, <2>5, <3>2, <4>1
    <3>. QED  BY <3>1, <3>2
  <2>9. \A r \in Links("up") \cup {Exit("up")} : From(q[r], b[r])
    <3>1. \A r \in Links("up") \cup {Exit("up")} : r \in Pipes
      BY <1>1, Line
    <3>2. b[x] = 0
      BY <1>1, <2>4
    <3>. QED  BY <2>5, <3>1, <3>2
  <2>10. Counts("up", q, <<>>, 0, 0, b)
    BY <2>5, <2>6, <2>7, <2>8, <2>9 DEF Counts
  <2>11. b \in [Pipes -> Nat] /\ got'["up"] = <<>> /\ sent'["up"] = 0
    BY <1>1, <1>2, <2>3
  <2>12. Taken("up")' = 0
    BY <1>1, <1>2 DEF Taken
  <2>. QED  BY <1>1, <2>1, <2>10, <2>11, <2>12, FlowWith
<1>8. Flow("down")'
  BY <1>1, <1>2 DEF Flow, Started
<1>. QED  BY <1>5, <1>6, <1>7, <1>8 DEF Calm, Dirs

\* The client's program and the upstream.  While the upstream is there the header has been read.
LEMMA UpstreamThere ==
  ASSUME TypeOK, Phases, ups = "open"
  PROVE  pc \in {"confirm", "relay", "done"} /\ app # "start" /\ Taken("up") = 1
BY DEF TypeOK, Phases, Taken

\* What the client can read has been sent after the confirmation.
LEMMA ClientReads ==
  ASSUME TypeOK, Phases, HasData("down", Exit("down"))
  PROVE  /\ Exit("down") \in Pipes /\ Exit("down") # "upstream" /\ pc \in {"relay", "done"}
<1>1. Exit("down") \in Pipes /\ Exit("down") # "upstream"
  BY RoutesDown DEF TypeOK, Kind, Pipes
<1>. QED  BY <1>1 DEF TypeOK, Phases, HasData

LEMMA DialOkCalm ==
  ASSUME TypeOK, TypeOK', Calm, DialOk
  PROVE  Calm'
<1> PICK x : x = Exit("down")
  OBVIOUS
<1>1. /\ Kind /\ "up" \in Dirs /\ "down" \in Dirs /\ app = "wait" /\ app' = "open"
      /\ UNCHANGED <<kind, work, pc, shut, ups, sent, got, fin, trouble, age>>
      /\ pipe["down"][x].q # <<>> /\ pipe' = Take(pipe, "down", x)
  BY DEF DialOk, HasData, TypeOK, Kind, Dirs
<1>2. x \in Pipes /\ x # "upstream" /\ pc \in {"relay", "done"}
  BY ClientReads DEF DialOk, Calm
<1>3. /\ pipe'["up"] = pipe["up"]
      /\ \A r \in Pipes \ {x} : pipe'["down"][r] = pipe["down"][r]
      /\ pipe'["down"][x].q = Tail(pipe["down"][x].q)
      /\ \A e \in Dirs : \A r \in Pipes : pipe'[e][r].end = pipe[e][r].end
      /\ \A e \in Dirs : \A r \in Pipes : AtEnd(e, r) => AtEnd(e, r)'
  BY <1>1, <1>2, TakeStep
<1>4. Ordered'
  BY <1>1, <1>3, OrderedQueues DEF Calm, Ordered
<1>5. Phases'
  BY <1>1, <1>2, <1>3 DEF Calm, Phases, Vless, Links
<1>6. Flow("up")'
  BY <1>1, <1>3, FlowFrame DEF Calm, Started, EndedFirst, UpstreamEnded, Taken, Pipes
<1>7. Flow("down")'
  <2>1. Vless
    BY <1>1 DEF Calm, Phases
  <2>2. Taken("down") = 0 /\ Taken("down")' = 1
    BY <1>1, <2>1 DEF Taken, Vless
  <2>3. Started("down")' /\ EndedFirst("down")' => Started("down") /\ EndedFirst("down")
    BY <1>1 DEF Started, EndedFirst
  <2>4. Flow("down") /\ sent'["down"] = sent["down"] /\ got'["down"] = got["down"]
    BY <1>1 DEF Calm
  <2>. QED  BY <1>1, <1>2, <1>3, <2>2, <2>3, <2>4, FlowTake
<1>. QED  BY <1>4, <1>5, <1>6, <1>7 DEF Calm, Dirs

\* An undisturbed dial does not fail: the confirmation comes before the end.
LEMMA DialAnswered ==
  ASSUME TypeOK, Calm, DialFails
  PROVE  FALSE
<1> PICK x : x = Exit("down")
  OBVIOUS
<1>1. /\ Kind /\ "down" \in Dirs /\ app = "wait" /\ AtEnd("down", x) /\ Vless /\ ~shut
      /\ got["down"] = <<>>
  BY DEF DialFails, TypeOK, Kind, Dirs, Calm, Phases
<1>2. CASE pc \in {"header", "dial", "confirm"}
  <2>1. PICK p \in Links("down") : x = After("down", p)
    BY <1>1, RoutesDown DEF Kind
  <2>2. work["down"][p] = "run"
    BY <1>2 DEF Calm, Phases
  <2>3. pipe["down"][x].end = "open"
    BY <1>1, <2>1, <2>2 DEF Calm, Ordered
  <2>. QED  BY <1>1, <2>3 DEF AtEnd
<1>3. CASE pc \in {"relay", "done"}
  <2>1. Started("down") /\ EndedFirst("down") /\ Taken("down") = 0
    BY <1>1, <1>3 DEF Started, EndedFirst, Taken
  <2>2. Len(got["down"]) + Taken("down") = sent["down"] + 1
    BY <1>1, <2>1, EndsWhole DEF Calm
  <2>3. Len(got["down"]) = 0 /\ sent["down"] \in Nat
    BY <1>1 DEF TypeOK
  <2>. QED  BY <2>1, <2>2, <2>3
<1>. QED  BY <1>2, <1>3 DEF TypeOK

LEMMA AppReadCalm ==
  ASSUME TypeOK, TypeOK', Calm, AppRead
  PROVE  Calm'
<1> PICK x : x = Exit("down")
  OBVIOUS
<1>1. /\ Kind /\ "up" \in Dirs /\ "down" \in Dirs /\ app = "open"
      /\ UNCHANGED <<kind, work, pc, app, shut, ups, sent, fin, trouble, age>>
      /\ pipe["down"][x].q # <<>> /\ pipe' = Take(pipe, "down", x)
      /\ got' = [got EXCEPT !["down"] = Append(@, Head(pipe["down"][x].q))]
  BY DEF AppRead, HasData, Next1, TypeOK, Kind, Dirs
<1>2. x \in Pipes /\ x # "upstream" /\ pc \in {"relay", "done"}
  BY ClientReads DEF AppRead, Calm
<1>3. /\ pipe'["up"] = pipe["up"]
      /\ \A r \in Pipes \ {x} : pipe'["down"][r] = pipe["down"][r]
      /\ pipe'["down"][x].q = Tail(pipe["down"][x].q)
      /\ \A e \in Dirs : \A r \in Pipes : pipe'[e][r].end = pipe[e][r].end
      /\ \A e \in Dirs : \A r \in Pipes : AtEnd(e, r) => AtEnd(e, r)'
  BY <1>1, <1>2, TakeStep
<1>4. got'["up"] = got["up"] /\ got'["down"] = Append(got["down"], Head(pipe["down"][x].q))
  BY <1>1 DEF TypeOK
<1>5. Ordered'
  BY <1>1, <1>3, OrderedQueues DEF Calm, Ordered
<1>6. Phases'
  BY <1>1, <1>2, <1>3, <1>4 DEF Calm, Phases, Vless, Links
<1>7. Flow("up")'
  BY <1>1, <1>3, <1>4, FlowFrame DEF Calm, Started, EndedFirst, UpstreamEnded, Taken, Pipes
<1>8. Flow("down")'
  <2>1. Taken("down") = 1 /\ Taken("down")' = 1
    BY <1>1 DEF Taken, Vless
  <2>2. Started("down")' /\ EndedFirst("down")' => Started("down") /\ EndedFirst("down")
    BY <1>1 DEF Started, EndedFirst
  <2>3. Flow("down") /\ sent'["down"] = sent["down"]
    BY <1>1 DEF Calm
  <2>. QED  BY <1>1, <1>2, <1>3, <1>4, <2>1, <2>2, <2>3, FlowTake
<1>. QED  BY <1>5, <1>6, <1>7, <1>8 DEF Calm, Dirs

LEMMA UpReadCalm ==
  ASSUME TypeOK, TypeOK', Calm, UpRead
  PROVE  Calm'
<1>1. /\ Kind /\ "up" \in Dirs /\ "down" \in Dirs /\ ups = "open" /\ "upstream" \in Pipes
      /\ UNCHANGED <<kind, work, pc, app, shut, ups, sent, fin, trouble, age>>
      /\ pipe["up"]["upstream"].q # <<>> /\ pipe' = Take(pipe, "up", "upstream")
      /\ got' = [got EXCEPT !["up"] = Append(@, Head(pipe["up"]["upstream"].q))]
  BY DEF UpRead, HasData, Next1, TypeOK, Kind, Dirs, Pipes
<1>2. pc \in {"confirm", "relay", "done"} /\ app # "start" /\ Taken("up") = 1
  BY <1>1, UpstreamThere DEF Calm
<1>3. /\ pipe'["down"] = pipe["down"]
      /\ \A r \in Pipes \ {"upstream"} : pipe'["up"][r] = pipe["up"][r]
      /\ pipe'["up"]["upstream"].q = Tail(pipe["up"]["upstream"].q)
      /\ \A e \in Dirs : \A r \in Pipes : pipe'[e][r].end = pipe[e][r].end
      /\ \A e \in Dirs : \A r \in Pipes : AtEnd(e, r) => AtEnd(e, r)'
  BY <1>1, TakeStep
<1>4. got'["down"] = got["down"] /\ got'["up"] = Append(got["up"], Head(pipe["up"]["upstream"].q))
  BY <1>1 DEF TypeOK
<1>5. Ordered'
  BY <1>1, <1>3, OrderedQueues DEF Calm, Ordered
<1>6. Phases'
  BY <1>1, <1>2, <1>3, <1>4 DEF Calm, Phases, Vless, Links
<1>7. Flow("down")'
  BY <1>1, <1>3, <1>4, FlowFrame DEF Calm, Started, EndedFirst, Taken, Vless
<1>8. Flow("up")'
  <2>1. Taken("up")' = 1
    BY <1>1, <1>2 DEF Taken
  <2>2. Started("up")' /\ EndedFirst("up")' => Started("up") /\ EndedFirst("up")
    BY <1>1, <1>3 DEF Started, EndedFirst, UpstreamEnded
  <2>3. Flow("up") /\ sent'["up"] = sent["up"] /\ Exit("up") = "upstream"
    BY <1>1, HandlerEnds DEF Calm
  <2>. QED  BY <1>1, <1>2, <1>3, <1>4, <2>1, <2>2, <2>3, FlowTake
<1>. QED  BY <1>5, <1>6, <1>7, <1>8 DEF Calm, Dirs

LEMMA AppSendCalm ==
  ASSUME TypeOK, TypeOK', Calm, AppSend
  PROVE  Calm'
<1> PICK x : x = First("up")
  OBVIOUS
<1>1. /\ Kind /\ "up" \in Dirs /\ "down" \in Dirs /\ app = "open" /\ ~shut
      /\ x \in Pipes /\ x # "upstream"
      /\ UNCHANGED <<kind, work, pc, app, shut, ups, got, fin, trouble, age>>
      /\ sent' = [sent EXCEPT !["up"] = @ + 1] /\ pipe' = Put(pipe, "up", x, sent'["up"])
  BY RoutesUp DEF AppSend, TypeOK, Kind, Dirs, Pipes
<1>2. sent'["up"] = sent["up"] + 1 /\ sent'["up"] \in Nat /\ sent'["down"] = sent["down"]
  BY <1>1 DEF TypeOK
<1>3. pipe["up"][x].end = "open"
  BY <1>1 DEF Calm, Ordered
<1>4. /\ pipe'["down"] = pipe["down"]
      /\ \A r \in Pipes \ {x} : pipe'["up"][r] = pipe["up"][r]
      /\ pipe'["up"][x].q = Append(pipe["up"][x].q, sent'["up"])
      /\ \A e \in Dirs : \A r \in Pipes : pipe'[e][r].end = pipe[e][r].end
      /\ \A e \in Dirs : \A r \in Pipes : AtEnd(e, r) => AtEnd(e, r)'
  BY <1>1, <1>2, <1>3, PutStep, ZenonT(60)
<1>5. Ordered'
  <2>1. Kind /\ Ordered /\ app # "gone" /\ ups # "gone"
    BY <1>1 DEF Calm, Ordered
  <2>2. UNCHANGED <<kind, work, fin>> /\ pc' = pc /\ app' # "gone" /\ ups' # "gone" /\ (shut => shut')
    BY <1>1, <2>1
  <2>3. /\ \A e \in Dirs : \A r \in Pipes : pipe'[e][r].end = pipe[e][r].end
        /\ \A e \in Dirs : \A r \in Pipes : AtEnd(e, r) => AtEnd(e, r)'
    BY <1>4
  <2>. QED  BY <2>1, <2>2, <2>3, OrderedQueues
<1>6. Phases'
  <2>1. /\ pipe'["up"]["upstream"] = pipe["up"]["upstream"] /\ pipe'["down"] = pipe["down"]
        /\ sent'["down"] = sent["down"] /\ app = "open"
    BY <1>1, <1>2, <1>4 DEF Pipes
  <2>2. /\ UNCHANGED <<pc, app, shut, ups, got, fin, work>>
        /\ Vless' = Vless /\ Links("down")' = Links("down")
    BY <1>1 DEF Vless, Links
  <2>. QED  BY <2>1, <2>2, SMTT(60) DEF Calm, Phases
<1>7. Flow("down")'
  <2>1. Started("down")' = Started("down") /\ EndedFirst("down")' = EndedFirst("down") /\ Taken("down")' = Taken("down")
    BY <1>1, <1>4 DEF Started, EndedFirst, UpstreamEnded, Taken, Vless
  <2>2. Flow("down") /\ got'["down"] = got["down"] /\ sent'["down"] = sent["down"] /\ UNCHANGED kind
    BY <1>1, <1>2 DEF Calm
  <2>3. pipe'["down"] = pipe["down"] /\ "down" \in Dirs
    BY <1>1, <1>4
  <2>. QED  BY <2>1, <2>2, <2>3, FlowFrame
<1>8. Flow("up")'
  <2>1. Started("up")' /\ EndedFirst("up")' => Started("up") /\ EndedFirst("up")
    BY <1>1, <1>4 DEF Started, EndedFirst, UpstreamEnded
  <2>2. Flow("up") /\ got'["up"] = got["up"] /\ Taken("up")' = Taken("up")
    BY <1>1 DEF Calm, Taken
  <2>3. pipe'["up"][x].q = Append(pipe["up"][x].q, sent["up"] + 1)
    BY <1>2, <1>4
  <2>. QED  BY <1>1, <1>2, <1>4, <2>1, <2>2, <2>3, FlowSend, ZenonT(60)
<1>. QED  BY <1>5, <1>6, <1>7, <1>8 DEF Calm, Dirs

LEMMA UpSendCalm ==
  ASSUME TypeOK, TypeOK', Calm, UpSend
  PROVE  Calm'
<1> PICK x : x = "upstream"
  OBVIOUS
<1>1. /\ Kind /\ "up" \in Dirs /\ "down" \in Dirs /\ ups = "open"
      /\ x \in Pipes /\ First("down") = x /\ pipe["down"][x].end = "open"
      /\ UNCHANGED <<kind, work, pc, app, shut, ups, got, fin, trouble, age>>
      /\ sent' = [sent EXCEPT !["down"] = @ + 1] /\ pipe' = Put(pipe, "down", x, sent'["down"])
  BY HandlerEnds DEF UpSend, TypeOK, Kind, Dirs, Pipes
<1>2. sent'["down"] = sent["down"] + 1 /\ sent'["down"] \in Nat /\ sent'["up"] = sent["up"]
  BY <1>1 DEF TypeOK
<1>3. pc \in {"confirm", "relay", "done"} /\ app # "start"
  BY <1>1, UpstreamThere DEF Calm
<1>4. /\ pipe'["up"] = pipe["up"]
      /\ \A r \in Pipes \ {x} : pipe'["down"][r] = pipe["down"][r]
      /\ pipe'["down"][x].q = Append(pipe["down"][x].q, sent'["down"])
      /\ \A e \in Dirs : \A r \in Pipes : pipe'[e][r].end = pipe[e][r].end
      /\ \A e \in Dirs : \A r \in Pipes : AtEnd(e, r) => AtEnd(e, r)'
  BY <1>1, <1>2, PutStep, ZenonT(60)
<1>5. Ordered'
  <2>1. Kind /\ Ordered /\ app # "gone" /\ ups # "gone"
    BY <1>1 DEF Calm, Ordered
  <2>2. UNCHANGED <<kind, work, fin>> /\ pc' = pc /\ app' # "gone" /\ ups' # "gone" /\ (shut => shut')
    BY <1>1, <2>1
  <2>3. /\ \A e \in Dirs : \A r \in Pipes : pipe'[e][r].end = pipe[e][r].end
        /\ \A e \in Dirs : \A r \in Pipes : AtEnd(e, r) => AtEnd(e, r)'
    BY <1>4
  <2>. QED  BY <2>1, <2>2, <2>3, OrderedQueues
<1>6. pc = "confirm" => sent'["down"] = Len(pipe'["down"][x].q) /\ From(pipe'["down"][x].q, 1)
  <2>. SUFFICES ASSUME pc = "confirm"
                PROVE  sent'["down"] = Len(pipe'["down"][x].q) /\ From(pipe'["down"][x].q, 1)
    OBVIOUS
  <2>1. PICK q, n : q = pipe["down"][x].q /\ n = sent'["down"]
    OBVIOUS
  <2>2. q \in Seq(Nat) /\ Len(q) \in Nat
    BY <1>1, <2>1 DEF TypeOK, PipeMap, PipeState
  <2>3. From(q, 1) /\ sent["down"] = Len(q)
    BY <2>1 DEF Calm, Phases
  <2>4. n \in Nat /\ n = 1 + Len(q)
    BY <1>2, <2>1, <2>2, <2>3
  <2>5. From(Append(q, n), 1) /\ Len(Append(q, n)) = Len(q) + 1
    BY <2>2, <2>3, <2>4, AppendFrom
  <2>. QED  BY <1>4, <2>1, <2>2, <2>4, <2>5
<1>7. Phases'
  <2>1. /\ pipe'["up"] = pipe["up"] /\ sent'["up"] = sent["up"] /\ "upstream" \in Pipes
        /\ \A r \in Pipes \ {"upstream"} : pipe'["down"][r].q = pipe["down"][r].q
    BY <1>1, <1>2, <1>4
  <2>2. /\ UNCHANGED <<pc, app, shut, ups, got, fin, work>>
        /\ Vless' = Vless /\ Links("down")' = Links("down")
    BY <1>1 DEF Vless, Links
  <2>. QED  BY <1>1, <1>3, <1>6, <2>1, <2>2, SMTT(60) DEF Calm, Phases
<1>8. Flow("up")'
  <2>1. Started("up")' = Started("up") /\ EndedFirst("up")' = EndedFirst("up") /\ Taken("up")' = Taken("up")
    BY <1>1, <1>4 DEF Started, EndedFirst, UpstreamEnded, Taken, Vless
  <2>2. Flow("up") /\ got'["up"] = got["up"] /\ sent'["up"] = sent["up"] /\ UNCHANGED kind
    BY <1>1, <1>2 DEF Calm
  <2>3. pipe'["up"] = pipe["up"] /\ "up" \in Dirs
    BY <1>1, <1>4
  <2>. QED  BY <2>1, <2>2, <2>3, FlowFrame
<1>9. Flow("down")'
  <2>1. Started("down")' /\ EndedFirst("down")' => Started("down") /\ EndedFirst("down")
    BY <1>1 DEF Started, EndedFirst
  <2>2. Flow("down") /\ got'["down"] = got["down"] /\ Taken("down")' = Taken("down")
    BY <1>1 DEF Calm, Taken, Vless
  <2>3. pipe'["down"][x].q = Append(pipe["down"][x].q, sent["down"] + 1)
    BY <1>2, <1>4
  <2>. QED  BY <1>1, <1>2, <1>4, <2>1, <2>2, <2>3, FlowSend, ZenonT(60)
<1>. QED  BY <1>5, <1>7, <1>8, <1>9 DEF Calm, Dirs

\* The sender of a direction ends it.
LEMMA OrderedShut ==
  ASSUME TypeOK, Ordered, NEW d \in Dirs, UNCHANGED <<kind, work, fin, pc, app, ups>>,
         pipe[d][First(d)].end = "open", pipe' = Close(pipe, d, First(d)),
         shut => shut', d = "up" => shut'
  PROVE  /\ Ordered' /\ \A e \in Dirs : \A r \in Pipes : pipe'[e][r].q = pipe[e][r].q
         /\ d = "up" => pipe'["down"] = pipe["down"]
<1> PICK f : f = First(d)
  OBVIOUS
<1>1. Kind /\ f \in Pipes /\ f # Exit(d) /\ "up" \in Dirs /\ "down" \in Dirs
      /\ \A p \in Links(d) : After(d, p) # f
  BY Line DEF TypeOK, Kind, Dirs
<1>2. /\ \A e \in Dirs : e # d => pipe'[e] = pipe[e]
      /\ \A r \in Pipes \ {f} : pipe'[d][r] = pipe[d][r]
      /\ pipe'[d][f].q = pipe[d][f].q /\ pipe'[d][f].end = "eof"
  <2>1. pipe \in PipeMap
    BY DEF TypeOK
  <2>. QED  BY <1>1, <2>1, ClosedPipes
<1>3. \A e \in Dirs : \A r \in Pipes :
        /\ pipe'[e][r].q = pipe[e][r].q /\ (AtEnd(e, r) => AtEnd(e, r)')
        /\ (e # d \/ r # f => pipe'[e][r].end = pipe[e][r].end)
  <2>1. ASSUME NEW e \in Dirs, NEW r \in Pipes
        PROVE  /\ pipe'[e][r].q = pipe[e][r].q /\ (AtEnd(e, r) => AtEnd(e, r)')
               /\ (e # d \/ r # f => pipe'[e][r].end = pipe[e][r].end)
    <3>1. CASE e = d /\ r = f
      BY <1>2, <3>1 DEF AtEnd, HasData
    <3>2. CASE e # d \/ r # f
      <4>1. pipe'[e][r] = pipe[e][r]
        BY <1>2, <3>2
      <4>. QED  BY <3>2, <4>1 DEF AtEnd, HasData
    <3>. QED  BY <3>1, <3>2
  <2>. QED  BY <2>1
<1>4. /\ \A e \in Dirs : \A p \in Pipes : Overtaken(e, p)' <=> Overtaken(e, p)
      /\ \A e \in Dirs : Links(e)' = Links(e) /\ First(e)' = First(e) /\ Exit(e)' = Exit(e)
      /\ \A e \in Dirs : \A p \in Links(e) : After(e, p)' = After(e, p)
      /\ BothDone' <=> BothDone
  BY DEF Overtaken, Links, First, Exit, After, BothDone, Inlet
<1>5. \A e \in Dirs : /\ Links(e) \subseteq Pipes /\ Exit(e) \in Pipes /\ First(e) \in Pipes
                      /\ \A p \in Links(e) : After(e, p) \in Pipes
  BY <1>1, Line
<1>6. \A e \in Dirs : \A p \in Pipes : pipe'[e][p].end # "rst"
  BY <1>2, <1>3 DEF Ordered
<1>7. ASSUME NEW e \in Dirs, NEW p \in Links(e)
      PROVE  /\ pipe'[e][After(e, p)].end = "open" <=> work'[e][p] = "run"
             /\ work'[e][p] = "ended" => AtEnd(e, p)'
             /\ work'[e][p] = "failed" => Overtaken(e, p)'
  BY <1>1, <1>3, <1>4, <1>5 DEF Ordered
<1>8. (pipe["up"][First("up")].end # "open" => shut)'
  <2>1. pipe'["up"][First("up")].end # "open" => shut'
    BY <1>1, <1>3, <1>5 DEF Ordered
  <2>. QED  BY <1>1, <1>4, <2>1
<1>9. (\A e \in Dirs : fin[e] # "open" => AtEnd(e, Exit(e)))'
  <2>1. ASSUME NEW e \in Dirs, fin[e] # "open" PROVE AtEnd(e, Exit(e))'
    <3>1. AtEnd(e, Exit(e)) /\ Exit(e) \in Pipes
      BY <1>5, <2>1 DEF Ordered
    <3>. QED  BY <1>3, <1>4, <3>1 DEF AtEnd, HasData
  <2>. QED  BY <2>1
<1>10. (\A e \in Dirs : \A p \in Links(e) :
          /\ pipe[e][After(e, p)].end = "open" <=> work[e][p] = "run"
          /\ work[e][p] = "ended" => AtEnd(e, p)
          /\ work[e][p] = "failed" => Overtaken(e, p))'
  BY <1>4, <1>7
<1>11. (pc = "done" => BothDone)' /\ app' # "gone" /\ ups' # "gone"
  BY <1>4 DEF Ordered
<1>12. Ordered'
  BY <1>6, <1>8, <1>9, <1>10, <1>11 DEF Ordered
<1>. QED  BY <1>1, <1>2, <1>3, <1>12

LEMMA AppShutCalm ==
  ASSUME TypeOK, Calm, AppShut
  PROVE  Calm'
<1>1. /\ Kind /\ "up" \in Dirs /\ "down" \in Dirs /\ app = "open" /\ ~shut /\ shut'
      /\ UNCHANGED <<kind, work, pc, app, ups, sent, got, fin, trouble, age>>
      /\ pipe' = Close(pipe, "up", First("up"))
  BY DEF AppShut, TypeOK, Kind, Dirs
<1>2. pipe["up"][First("up")].end = "open"
  BY <1>1 DEF Calm, Ordered
<1>3. /\ Ordered' /\ pipe'["down"] = pipe["down"]
      /\ \A e \in Dirs : \A r \in Pipes : pipe'[e][r].q = pipe[e][r].q
  BY <1>1, <1>2, OrderedShut DEF Calm
<1>4. Phases'
  BY <1>1, <1>3 DEF Calm, Phases, Vless, Links, Pipes
<1>5. Flow("up")'
  BY <1>1, <1>3, FlowFrame DEF Calm, Started, EndedFirst, UpstreamEnded, Taken
<1>6. Flow("down")'
  BY <1>1, <1>3, FlowFrame DEF Calm, Started, EndedFirst, Taken, Vless
<1>. QED  BY <1>3, <1>4, <1>5, <1>6 DEF Calm, Dirs

LEMMA UpShutCalm ==
  ASSUME TypeOK, Calm, UpShut
  PROVE  Calm'
<1>1. /\ Kind /\ "up" \in Dirs /\ "down" \in Dirs /\ "upstream" \in Pipes
      /\ UNCHANGED <<kind, work, pc, ends, trouble, age>>
      /\ First("down") = "upstream" /\ pipe' = Close(pipe, "down", "upstream")
      /\ pipe["down"]["upstream"].end = "open"
  BY HandlerEnds DEF UpShut, TypeOK, Kind, Dirs, Pipes
<1>2. Ordered' /\ \A e \in Dirs : \A r \in Pipes : pipe'[e][r].q = pipe[e][r].q
  BY <1>1, OrderedShut DEF Calm, ends
<1>3. Phases'
  BY <1>1, <1>2 DEF Calm, Phases, Vless, Links, Pipes, ends
<1>4. Flow("up")'
  BY <1>1, <1>2, FlowFrame DEF Calm, Started, EndedFirst, UpstreamEnded, Taken, ends
<1>5. Flow("down")'
  BY <1>1, <1>2, FlowFrame DEF Calm, Started, EndedFirst, Taken, Vless, ends
<1>. QED  BY <1>2, <1>3, <1>4, <1>5 DEF Calm, Dirs

\* The receiver of a direction sees its end.
LEMMA SeenCalm ==
  ASSUME TypeOK, Calm, AppEnd \/ UpEnd
  PROVE  Calm'
<1>1. PICK d \in Dirs : /\ AtEnd(d, Exit(d)) /\ \A e \in Dirs : e # d => fin'[e] = fin[e]
                        /\ d = "up" => ups = "open"
                        /\ d = "down" => app = "open"
  <2>1. CASE AppEnd
    BY <2>1 DEF AppEnd, TypeOK, Dirs
  <2>2. CASE UpEnd
    <3>1. Exit("up") = "upstream"
      BY HandlerEnds DEF TypeOK, Kind
    <3>. QED  BY <2>2, <3>1 DEF UpEnd, TypeOK, Dirs
  <2>. QED  BY <2>1, <2>2
<1>2. UNCHANGED <<kind, pipe, work, pc, app, shut, ups, sent, got, trouble, age>>
  BY DEF AppEnd, UpEnd
<1>3. Ordered'
  <2>1. /\ \A e \in Dirs : \A p \in Pipes : AtEnd(e, p)' <=> AtEnd(e, p)
        /\ \A e \in Dirs : \A p \in Pipes : Overtaken(e, p)' <=> Overtaken(e, p)
        /\ \A e \in Dirs : Links(e)' = Links(e) /\ First(e)' = First(e) /\ Exit(e)' = Exit(e)
        /\ \A e \in Dirs : \A p \in Links(e) : After(e, p)' = After(e, p)
        /\ BothDone' <=> BothDone
    BY <1>2 DEF AtEnd, HasData, Overtaken, Links, First, Exit, After, BothDone, Inlet
  <2>2. \A e \in Dirs : Links(e) \subseteq Pipes /\ Exit(e) \in Pipes
    BY Line DEF TypeOK, Kind
  <2>3. (\A e \in Dirs : fin[e] # "open" => AtEnd(e, Exit(e)))'
    <3>1. ASSUME NEW e \in Dirs, fin'[e] # "open" PROVE AtEnd(e, Exit(e))'
      <4>1. AtEnd(e, Exit(e))
        BY <1>1, <3>1 DEF Calm, Ordered
      <4>. QED  BY <1>2, <2>1, <2>2, <4>1
    <3>. QED  BY <3>1
  <2>4. (\A e \in Dirs : \A p \in Links(e) :
           /\ pipe[e][After(e, p)].end = "open" <=> work[e][p] = "run"
           /\ work[e][p] = "ended" => AtEnd(e, p)
           /\ work[e][p] = "failed" => Overtaken(e, p))'
    BY <1>2, <2>1, <2>2 DEF Calm, Ordered
  <2>5. (pipe["up"][First("up")].end # "open" => shut)' /\ (pc = "done" => BothDone)'
        /\ app' # "gone" /\ ups' # "gone" /\ (\A e \in Dirs : \A p \in Pipes : pipe[e][p].end # "rst")'
    BY <1>2, <2>1 DEF Calm, Ordered, Dirs
  <2>. QED  BY <2>3, <2>4, <2>5 DEF Ordered
<1>4. (fin'["down"] # "open" => app = "open") /\ (fin'["up"] # "open" => ups = "open")
  BY <1>1 DEF Calm, Phases, Dirs
<1>5. Phases'
  BY <1>2, <1>4 DEF Calm, Phases, Vless, Links, Pipes
<1>6. \A e \in Dirs : Flow(e)'
  BY <1>2, FlowFrame DEF Calm, Started, EndedFirst, UpstreamEnded, Taken, Vless
<1>. QED  BY <1>3, <1>5, <1>6 DEF Calm

-----------------------------------------------------------------------------
(* Every step *)

\* What has disturbed a connection is not forgotten.
LEMMA TroubleStays ==
  ASSUME Next
  PROVE  trouble \subseteq trouble'
<1>1. ASSUME NEW d \in Dirs, NEW p \in Pipes, Copy(d, p) PROVE trouble' = trouble
  BY <1>1 DEF Copy, Move, MoveFails, PassEnd
<1>2. ASSUME NEW why, Return(why) PROVE trouble \subseteq trouble'
  BY <1>2 DEF Return
<1>3. CASE Overflow \/ ReadHeader \/ HeaderTimeout \/ Connected \/ Refused \/ ConnectTimeout
           \/ Confirm \/ RelayEnds \/ Tick \/ Cut
  BY <1>2, <1>3 DEF Overflow, ReadHeader, HeaderTimeout, Connected, Refused, ConnectTimeout,
     Confirm, RelayEnds, Tick, Cut
<1>4. CASE Hello \/ DialOk \/ DialFails \/ AppSend \/ AppShut \/ AppRead \/ AppEnd \/ AppDrop \/ Vanish \/ Noticed
  BY <1>4 DEF Hello, DialOk, DialFails, AppSend, AppShut, AppRead, AppEnd, AppDrop, Vanish,
     Noticed
<1>5. CASE UpRead \/ UpEnd \/ UpSend \/ UpShut \/ UpReset
  BY <1>5 DEF UpRead, UpEnd, UpSend, UpShut, UpReset
<1>. QED  BY <1>1, <1>3, <1>4, <1>5 DEF Next

LEMMA InitUndisturbed ==
  ASSUME Init
  PROVE  Undisturbed
<1>1. Kind /\ \A d \in Dirs, p \in Pipes : pipe[d][p].q = <<>> /\ pipe[d][p].end = "open" /\ work[d][p] = "run"
  BY KindsAssumption DEF Init, Kind, Empty
<1>2. \A d \in Dirs : /\ Links(d) \subseteq Pipes /\ First(d) \in Pipes /\ Exit(d) \in Pipes
                      /\ \A p \in Links(d) : After(d, p) \in Pipes
  BY <1>1, Line
<1>3. "up" \in Dirs /\ "down" \in Dirs /\ "upstream" \in Pipes
  BY DEF Dirs, Pipes
<1>4. Ordered
  BY <1>1, <1>2, <1>3 DEF Init, Ordered
<1>5. Phases
  <2>1. Len(pipe["down"]["upstream"].q) = 0 /\ From(pipe["down"]["upstream"].q, 1)
    BY <1>1, <1>3 DEF From
  <2>. QED  BY <1>1, <1>2, <1>3, <2>1 DEF Init, Phases
<1>6. \A d \in Dirs : Flow(d)
  BY DEF Init, Flow, Started, Dirs
<1>. QED  BY <1>4, <1>5, <1>6 DEF Undisturbed, Calm

LEMMA StillCalm ==
  ASSUME TypeOK, Calm, UNCHANGED vars
  PROVE  Calm'
<1>1. UNCHANGED <<kind, pipe, work, pc, app, shut, ups, sent, got, fin, trouble, age>>
  BY DEF vars, ends
<1>2. Kind
  BY DEF TypeOK, Kind
<1>3. Ordered'
  <2>1. \A e \in Dirs : \A r \in Pipes : pipe'[e][r].end = pipe[e][r].end
    BY <1>1
  <2>2. \A e \in Dirs : \A r \in Pipes : AtEnd(e, r) => AtEnd(e, r)'
    BY <1>1 DEF AtEnd, HasData
  <2>. QED  BY <1>1, <1>2, <2>1, <2>2, OrderedQueues DEF Calm, Ordered
<1>4. Phases'
  BY <1>1 DEF Calm, Phases, Vless, Links
<1>5. \A d \in Dirs : Flow(d)'
  BY <1>1, FlowFrame DEF Calm, Started, EndedFirst, UpstreamEnded, Taken, Vless
<1>. QED  BY <1>3, <1>4, <1>5 DEF Calm

LEMMA NextUndisturbed ==
  ASSUME TypeOK, TypeOK', Undisturbed, [Next]_vars
  PROVE  Undisturbed'
<1>. SUFFICES ASSUME trouble' = {} PROVE Calm'
  BY DEF Undisturbed
<1>1. trouble = {} /\ Calm
  <2>1. CASE Next
    <3>1. trouble = {}
      BY <2>1, TroubleStays
    <3>. QED  BY <3>1 DEF Undisturbed
  <2>2. CASE UNCHANGED vars
    BY <2>2 DEF Undisturbed, vars
  <2>. QED  BY <2>1, <2>2
<1>2. CASE UNCHANGED vars
  BY <1>1, <1>2, StillCalm
<1>3. ASSUME NEW d \in Dirs, NEW p \in Pipes, Copy(d, p) PROVE Calm'
  BY <1>1, <1>3, MoveCalm, MoveFailsCalm, PassEndCalm DEF Copy
<1>4. CASE Overflow \/ ReadHeader \/ HeaderTimeout \/ Connected \/ Refused \/ ConnectTimeout
           \/ Confirm \/ RelayEnds \/ Tick \/ Cut
  BY <1>1, <1>4, HandlerCalm DEF Handler
<1>5. CASE Hello \/ DialOk \/ DialFails \/ AppSend \/ AppShut \/ AppRead \/ AppEnd
  BY <1>1, <1>5, HelloCalm, DialOkCalm, DialAnswered, AppSendCalm, AppShutCalm, AppReadCalm, SeenCalm
<1>6. CASE UpRead \/ UpEnd \/ UpSend \/ UpShut
  BY <1>1, <1>6, UpReadCalm, SeenCalm, UpSendCalm, UpShutCalm
<1>7. ~AppDrop /\ ~Vanish /\ ~Noticed /\ ~UpReset
  BY DEF AppDrop, Vanish, Noticed, UpReset
<1>. QED  BY <1>2, <1>3, <1>4, <1>5, <1>6, <1>7 DEF Next

\* A stream that ends cleanly is whole, for pipes of any capacity and streams of any length:
\* unless the connection was disturbed, the client sees the end only when the upstream has
\* ended and all it sent has arrived in order, and the upstream sees it only when the client
\* has ended and all it sent has arrived in order, through every pump, duplex and relay of
\* each protocol (handle_stream, handle_tcp, axum_ws_to_duplex, the AnyTLS session, dial).
THEOREM CleanEndIsWholeHolds == Spec => []CleanEndIsWhole
<1>1. Init => TypeOK /\ Undisturbed
  BY InitBase, InitUndisturbed DEF BaseInv
<1>2. BaseInv /\ BaseInv' /\ Undisturbed /\ [Next]_vars => Undisturbed'
  BY NextUndisturbed DEF BaseInv
<1>3. BaseInv /\ Undisturbed => CleanEndIsWhole
  <2>. SUFFICES ASSUME BaseInv, Undisturbed PROVE CleanEndIsWhole
    OBVIOUS
  <2>1. CASE trouble = {}
    BY <2>1, CalmIsWhole DEF BaseInv, Undisturbed
  <2>2. CASE trouble # {}
    BY <2>2 DEF CleanEndIsWhole
  <2>. QED  BY <2>1, <2>2
<1>. QED  BY <1>1, <1>2, <1>3, BaseInvariance, PTL DEF Spec
=============================================================================
