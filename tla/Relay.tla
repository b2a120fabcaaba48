------------------------------- MODULE Relay --------------------------------
(***************************************************************************)
(* One proxied TCP connection from end to end: the client library of this  *)
(* repository, the server's handler, and the upstream it dials, for VLESS  *)
(* over TCP ("tcp") and over WebSocket ("ws"), for TUIC's CONNECT ("tuic") *)
(* and for a stream of an AnyTLS session ("anytls").                       *)
(*                                                                         *)
(* Each direction is a line of pipes with a task between each pipe and the *)
(* next that copies until the end and then passes the end on:              *)
(*                                                                         *)
(*    app  [client]  [wire]  [server]  [upstream]  upstream                *)
(*                                                                         *)
(* [client] and [server] are the in-memory duplexes around a WebSocket or  *)
(* an AnyTLS session (the server side of AnyTLS has a queue upwards, and   *)
(* nothing downwards).  The chunk 0 is the request header upwards and the  *)
(* confirmation [0,0] of VLESS downwards.                                  *)
(***************************************************************************)
EXTENDS Naturals, Sequences

CONSTANTS Kinds,     \* the protocols looked at
          Capacity,  \* chunks a pipe holds
          MaxUp,     \* bound: chunks the client sends
          MaxDown,   \* bound: chunks the upstream sends
          Limit      \* RELAY_IDLE_LIMIT, in ticks

ASSUME KindsAssumption  == Kinds \subseteq {"tcp", "ws", "tuic", "anytls"}
ASSUME BoundsAssumption == /\ Capacity \in Nat \ {0} /\ Limit \in Nat
                           /\ MaxUp \in Nat /\ MaxDown \in Nat

Dirs  == {"up", "down"}
Pipes == {"client", "wire", "server", "upstream"}

VARIABLES
  kind,      \* of the connection
  pipe,      \* what is in each pipe of each direction, and how it ends
  work,      \* the task that reads each pipe
  pc,        \* the handler: handle_stream, handle_tcp or stream_handler
  app,       \* the client's program; "lost" when it is gone and nobody has noticed
  shut,      \* it has ended its sending
  ups,       \* the upstream: "none", "open" or "gone"
  sent,      \* history: chunks sent in each direction
  got,       \* history: chunks that arrived
  fin,       \* history: how the stream ended for its receiver
  trouble,   \* history: what disturbed the connection
  age        \* ticks of the relay

ends  == <<app, shut, ups, sent, got, fin>>
vars  == <<kind, pipe, work, pc, ends, trouble, age>>

Vless == kind \in {"tcp", "ws"}

\* The pipes of a direction, from the sender to the receiver.
Routes ==
  [k \in {"tcp", "ws", "tuic", "anytls"} |->
    [d \in Dirs |->
      IF k \in {"tcp", "tuic"}
      THEN IF d = "up" THEN <<"wire", "upstream">> ELSE <<"upstream", "wire">>
      ELSE IF d = "up" THEN <<"client", "wire", "server", "upstream">>
      ELSE IF k = "ws" THEN <<"upstream", "server", "wire", "client">>
                       ELSE <<"upstream", "wire", "client">>]]

Successors ==
  [k \in DOMAIN Routes |-> [d \in Dirs |->
    LET r == Routes[k][d]
    IN  [p \in {r[i] : i \in 1 .. Len(r) - 1} |->
           r[CHOOSE i \in 2 .. Len(r) : r[i - 1] = p]]]]

First(d)    == Routes[kind][d][1]
Exit(d)     == Routes[kind][d][Len(Routes[kind][d])]
Links(d)    == DOMAIN Successors[kind][d]
After(d, p) == Successors[kind][d][p]

\* The pipe the handler reads the client from, and the one it writes to it.
Inlet  == IF kind \in {"tcp", "tuic"} THEN "wire" ELSE "server"
Outlet == IF kind = "ws" THEN "server" ELSE "wire"

Copies(d, p) == (d = "up" /\ p = Inlet) \/ (d = "down" /\ p = "upstream")

\* The tasks of the client's library: the pumps of dial_ws and the two tasks of dial.
AtClient(d, p) == kind \in {"ws", "anytls"} /\ (p = "client" \/ (d = "down" /\ p = "wire"))

Running(d, p) ==
  /\ work[d][p] = "run" /\ p \in Links(d)
  /\ Copies(d, p) => pc = "relay"
  /\ AtClient(d, p) => app # "lost"

\* The reading end of a pipe has been dropped.  A duplex or a WebSocket is split
\* between two tasks and is dropped when both have returned.
Gone(d, p) ==
  IF p = Exit(d) THEN IF d = "up" THEN ups = "gone" ELSE app = "gone"
  ELSE IF Copies(d, p) THEN pc = "done"
  ELSE IF d = "up" /\ p = "wire" /\ kind = "anytls" THEN FALSE    \* the frame loop
  ELSE IF p = "client" \/ (d = "down" /\ p = "wire")
       THEN work["up"]["client"] # "run" /\ work["down"]["wire"] # "run"
       ELSE work["up"]["wire"] # "run" /\ work["down"]["server"] # "run"

\* A WebSocket takes no data once its own side has read the peer's Close.
PeerClosed(d, p) == kind = "ws" /\ p = "wire" /\
  work[IF d = "up" THEN "down" ELSE "up"]["wire"] = "ended"

Refuses(d, p) == Gone(d, p) \/ PeerClosed(d, p)

Empty == [q |-> <<>>, end |-> "open"]

Init ==
  /\ kind \in Kinds
  /\ pipe = [d \in Dirs |-> [p \in Pipes |-> Empty]]
  /\ work = [d \in Dirs |-> [p \in Pipes |-> "run"]]
  /\ pc = "header" /\ app = "start" /\ shut = FALSE /\ ups = "none"
  /\ sent = [d \in Dirs |-> 0] /\ got = [d \in Dirs |-> <<>>]
  /\ fin = [d \in Dirs |-> "open"]
  /\ trouble = {} /\ age = 0

\* Put a chunk in a pipe; it is lost if the pipe has ended (a frame of a stream that
\* is no longer open).
Put(pi, d, p, x) == IF pi[d][p].end = "open" THEN [pi EXCEPT ![d][p].q = Append(@, x)] ELSE pi
Take(pi, d, p)   == [pi EXCEPT ![d][p].q = Tail(@)]

\* The writer shuts the pipe down; what is in it stays.
Close(pi, d, p)  == IF pi[d][p].end = "open" THEN [pi EXCEPT ![d][p].end = "eof"] ELSE pi
\* A connection is reset: what is in it is lost.
Reset(pi, d, p)  == [pi EXCEPT ![d][p] = [q |-> <<>>, end |-> "rst"]]

HasData(d, p) == pipe[d][p].q # <<>>
AtEnd(d, p)   == ~HasData(d, p) /\ pipe[d][p].end # "open"
HasRoom(d, p) == Len(pipe[d][p].q) < Capacity
Next1(d, p)   == Head(pipe[d][p].q)

Done(d, p, how) == work' = [work EXCEPT ![d][p] = how]

-----------------------------------------------------------------------------
(* The tasks that copy: tokio::io::copy, the pumps of a WebSocket, the frame *)
(* loop and the client's two tasks of AnyTLS                                 *)

\* The frame loop of AnyTLS never waits for a stream's queue.
Waits(d, p) == ~(kind = "anytls" /\ d = "up" /\ p = "wire")

Move(d, p) ==
  LET t == After(d, p)
  IN  /\ Running(d, p) /\ HasData(d, p)
      /\ \/ ~Refuses(d, t) /\ HasRoom(d, t)
         \/ ~Waits(d, p) /\ pipe[d][t].end # "open"
      /\ pipe' = Put(Take(pipe, d, p), d, t, Next1(d, p))
      /\ UNCHANGED <<kind, work, pc, ends, trouble, age>>

\* The target is gone: the task ends, and with it what it writes to.
MoveFails(d, p) ==
  LET t == After(d, p)
  IN  /\ Running(d, p) /\ HasData(d, p) /\ Waits(d, p) /\ Refuses(d, t)
      /\ pipe' = Close(Take(pipe, d, p), d, t)
      /\ Done(d, p, "failed")
      /\ UNCHANGED <<kind, pc, ends, trouble, age>>

\* Mutant: the stream is removed without a word to the client.
OverflowSilent ==
  LET t == After("up", "wire")
  IN  /\ kind = "anytls" /\ Running("up", "wire") /\ HasData("up", "wire")
      /\ pipe["up"][t].end = "open"
      /\ Gone("up", t) \/ ~HasRoom("up", t)
      /\ pipe' = Close(Take(pipe, "up", "wire"), "up", t)
      /\ trouble' = trouble \cup {"overflow"}
      /\ UNCHANGED <<kind, work, pc, ends, age>>

\* A stream's queue is full, or its handler has returned: the stream is removed and
\* a FIN sent to the client.
Overflow ==
  LET t == After("up", "wire")
  IN  /\ kind = "anytls" /\ Running("up", "wire") /\ HasData("up", "wire")
      /\ pipe["up"][t].end = "open"
      /\ Gone("up", t) \/ ~HasRoom("up", t)
      /\ pipe' = Close(Close(Take(pipe, "up", "wire"), "up", t), "down", "wire")
      /\ trouble' = trouble \cup {"overflow"}
      /\ UNCHANGED <<kind, work, pc, ends, age>>

\* Mutant: a task that is done does not shut its target down.
PassNoEnd(d, p) ==
  /\ Running(d, p) /\ AtEnd(d, p)
  /\ Done(d, p, IF pipe[d][p].end = "eof" THEN "ended" ELSE "failed")
  /\ UNCHANGED <<kind, pipe, pc, ends, trouble, age>>

\* Mutant: the end overtakes what is still in the pipe.
PassEndEarly(d, p) ==
  /\ Running(d, p) /\ pipe[d][p].end # "open"
  /\ pipe' = Close(pipe, d, After(d, p))
  /\ Done(d, p, IF pipe[d][p].end = "eof" THEN "ended" ELSE "failed")
  /\ UNCHANGED <<kind, pc, ends, trouble, age>>

\* The end of the source, or an error of it, becomes the end of the target.
PassEnd(d, p) ==
  /\ Running(d, p) /\ AtEnd(d, p)
  /\ pipe' = Close(pipe, d, After(d, p))
  /\ Done(d, p, IF pipe[d][p].end = "eof" THEN "ended" ELSE "failed")
  /\ UNCHANGED <<kind, pc, ends, trouble, age>>

Copy(d, p) == Move(d, p) \/ MoveFails(d, p) \/ PassEnd(d, p)

-----------------------------------------------------------------------------
(* The handler *)

\* A socket that is dropped with unread data in it may be reset.
Drop(pi, d, p, unread) ==
  {Close(pi, d, p)} \cup (IF unread THEN {Reset(pi, d, p)} ELSE {})

\* Its halves of the client's stream and of the upstream are dropped.  The stream of
\* an AnyTLS session is only a queue: nothing is sent for it.
Return(why) ==
  /\ pc' = "done"
  /\ \E u \in IF ups = "open" THEN Drop(pipe, "up", "upstream", HasData("down", "upstream"))
                              ELSE {pipe} :
     \E c \in IF kind = "anytls" THEN {u}
              ELSE Drop(u, "down", Outlet, kind = "tcp" /\ HasData("up", Inlet)) :
       /\ pipe' = c
       /\ trouble' = trouble \cup why \cup
            (IF \E d \in Dirs, p \in Pipes : c[d][p].end = "rst" /\ pipe[d][p].end # "rst"
             THEN {"reset"} ELSE {})
  /\ UNCHANGED <<kind, work, ends, age>>

\* The header, read whole: good, or refused (version, uuid, command, address type).
ReadHeader ==
  /\ pc = "header"
  /\ \/ /\ HasData("up", Inlet)
        /\ pc' = "dial" /\ pipe' = Take(pipe, "up", Inlet)
        /\ UNCHANGED <<kind, work, ends, trouble, age>>
     \/ /\ HasData("up", Inlet) \/ AtEnd("up", Inlet)
        /\ Return({"refused"})

HeaderTimeout == pc = "header" /\ Vless /\ Return({"refused"})

\* Mutant: the request is confirmed before the upstream is dialled.
ConfirmFirst ==
  /\ pc = "dial"
  /\ pc' = IF Vless THEN "confirm" ELSE "relay"
  /\ ups' = "none"
  /\ UNCHANGED <<kind, pipe, work, app, shut, sent, got, fin, trouble, age>>

Connected ==
  /\ pc = "dial"
  /\ ups' = "open"
  /\ pc' = IF Vless THEN "confirm" ELSE "relay"
  /\ UNCHANGED <<kind, pipe, work, app, shut, sent, got, fin, trouble, age>>

\* The dial fails: refused, or given up by the operating system.
Refused == pc = "dial" /\ Return({"refused"})

ConnectTimeout == pc = "dial" /\ Vless /\ Return({"refused"})

Confirm ==
  /\ pc = "confirm"
  /\ \/ Refuses("down", Outlet) /\ Return({"left"})
     \/ /\ ~Refuses("down", Outlet)
        /\ pipe' = Put(pipe, "down", Outlet, 0) /\ pc' = "relay"
        /\ UNCHANGED <<kind, work, ends, trouble, age>>

BothDone == work["up"][Inlet] # "run" /\ work["down"]["upstream"] # "run"
OneDone  == work["up"][Inlet] # "run" \/ work["down"]["upstream"] # "run"

\* Mutant: the relay ends with the first direction.
RelaySelect == pc = "relay" /\ OneDone /\ Return({})

\* Both directions have ended (tokio::join!, or shutdown and then up_task.await).
RelayEnds == pc = "relay" /\ BothDone /\ Return({})

\* Time passes for a relay of VLESS.
Tick ==
  /\ pc = "relay" /\ Vless /\ age < Limit
  /\ age' = age + 1
  /\ UNCHANGED <<kind, pipe, work, pc, ends, trouble>>

\* Mutant: the limit is lifted when one direction is done.
CutWhole == pc = "relay" /\ Vless /\ age = Limit /\ ~OneDone /\ Return({"cut"})

\* RELAY_IDLE_LIMIT is a timeout around the whole relay: it also cuts one that moves data.
Cut == pc = "relay" /\ Vless /\ age = Limit /\ Return({"cut"})

Handler ==
  \/ ReadHeader \/ HeaderTimeout \/ ConnectTimeout \/ Confirm \/ RelayEnds \/ Cut

-----------------------------------------------------------------------------
(* The client's program over dial_tcp, dial_ws, open_tcp or AnyTLS's dial *)

\* dial sends the header (for AnyTLS: the target, the first frame of the stream).
Hello ==
  /\ app = "start"
  /\ app' = IF Vless THEN "wait" ELSE "open"
  /\ pipe' = Put(pipe, "up", IF kind = "ws" THEN "client" ELSE "wire", 0)
  /\ UNCHANGED <<kind, work, pc, shut, ups, sent, got, fin, trouble, age>>

\* dial_tcp and dial_ws wait for the two bytes of the confirmation.
DialOk ==
  /\ app = "wait" /\ HasData("down", Exit("down"))
  /\ app' = "open" /\ pipe' = Take(pipe, "down", Exit("down"))
  /\ UNCHANGED <<kind, work, pc, shut, ups, sent, got, fin, trouble, age>>

DialFails ==
  /\ app = "wait" /\ AtEnd("down", Exit("down"))
  /\ app' = "gone" /\ pipe' = Close(pipe, "up", First("up"))
  /\ UNCHANGED <<kind, work, pc, shut, ups, sent, got, fin, trouble, age>>

AppSend ==
  /\ app = "open" /\ ~shut /\ sent["up"] < MaxUp
  /\ HasRoom("up", First("up")) /\ ~Refuses("up", First("up"))
  /\ sent' = [sent EXCEPT !["up"] = @ + 1]
  /\ pipe' = Put(pipe, "up", First("up"), sent'["up"])
  /\ UNCHANGED <<kind, work, pc, app, shut, ups, got, fin, trouble, age>>

AppShut ==
  /\ app = "open" /\ ~shut
  /\ shut' = TRUE /\ pipe' = Close(pipe, "up", First("up"))
  /\ UNCHANGED <<kind, work, pc, app, ups, sent, got, fin, trouble, age>>

AppRead ==
  /\ app = "open" /\ HasData("down", Exit("down"))
  /\ got' = [got EXCEPT !["down"] = Append(@, Next1("down", Exit("down")))]
  /\ pipe' = Take(pipe, "down", Exit("down"))
  /\ UNCHANGED <<kind, work, pc, app, shut, ups, sent, fin, trouble, age>>

AppEnd ==
  /\ app = "open" /\ AtEnd("down", Exit("down")) /\ fin["down"] = "open"
  /\ fin' = [fin EXCEPT !["down"] = pipe["down"][Exit("down")].end]
  /\ UNCHANGED <<kind, pipe, work, pc, app, shut, ups, sent, got, trouble, age>>

\* The program drops the stream.
AppDrop ==
  /\ app \in {"wait", "open"}
  /\ app' = "gone" /\ trouble' = trouble \cup {"left"}
  /\ pipe' = Close(pipe, "up", First("up"))
  /\ UNCHANGED <<kind, work, pc, shut, ups, sent, got, fin, age>>

\* Of what a lost machine has sent a part arrives, and the end only after all the rest.
Arriving ==
  LET w == pipe["up"]["wire"]
  IN  {w} \cup {[q |-> SubSeq(w.q, 1, k), end |-> "open"] :
                  k \in IF work["up"]["wire"] = "run" THEN 0 .. Len(w.q) ELSE {}}

\* Of what it was sent the first chunks have been acknowledged.
Sever(pi, u, j) == [pi EXCEPT !["up"]["wire"] = u, !["down"]["wire"].q = SubSeq(@, j, Len(@))]

\* The client's machine or its connection is lost: no FIN, no RST.
Vanish ==
  /\ app \in {"wait", "open"}
  /\ app' = "lost" /\ trouble' = trouble \cup {"lost"}
  /\ \E u \in Arriving, j \in 1 .. Len(pipe["down"]["wire"].q) + 1 :
       pipe' = Sever(pipe, u, j)
  /\ UNCHANGED <<kind, work, pc, shut, ups, sent, got, fin, age>>

\* The server's transport finds out.
Noticed ==
  /\ app = "lost"
  /\ app' = "gone" /\ trouble' = trouble \cup {"reset"}
  /\ pipe' = Reset(pipe, "up", "wire")
  /\ work' = [d \in Dirs |-> [p \in Pipes |-> IF AtClient(d, p) THEN "failed" ELSE work[d][p]]]
  /\ UNCHANGED <<kind, pc, shut, ups, sent, got, fin, age>>

\* It must find out: quinn gives a silent connection up (max_idle_timeout), and TCP one that
\* does not acknowledge.  No keepalive is set: TCP never misses a peer it has nothing to send.
Missed == kind = "tuic" \/ HasData("down", "wire")

Client == Hello \/ DialOk \/ DialFails \/ AppRead \/ AppEnd

-----------------------------------------------------------------------------
(* The upstream *)

UpRead ==
  /\ ups = "open" /\ HasData("up", "upstream")
  /\ got' = [got EXCEPT !["up"] = Append(@, Next1("up", "upstream"))]
  /\ pipe' = Take(pipe, "up", "upstream")
  /\ UNCHANGED <<kind, work, pc, app, shut, ups, sent, fin, trouble, age>>

UpEnd ==
  /\ ups = "open" /\ AtEnd("up", "upstream") /\ fin["up"] = "open"
  /\ fin' = [fin EXCEPT !["up"] = pipe["up"]["upstream"].end]
  /\ UNCHANGED <<kind, pipe, work, pc, app, shut, ups, sent, got, trouble, age>>

UpSend ==
  /\ ups = "open" /\ pipe["down"]["upstream"].end = "open"
  /\ sent["down"] < MaxDown /\ HasRoom("down", "upstream") /\ pc # "done"
  /\ sent' = [sent EXCEPT !["down"] = @ + 1]
  /\ pipe' = Put(pipe, "down", "upstream", sent'["down"])
  /\ UNCHANGED <<kind, work, pc, app, shut, ups, got, fin, trouble, age>>

UpShut ==
  /\ ups = "open" /\ pipe["down"]["upstream"].end = "open"
  /\ pipe' = Close(pipe, "down", "upstream")
  /\ UNCHANGED <<kind, work, pc, ends, trouble, age>>

UpReset ==
  /\ ups = "open" /\ pc # "done"
  /\ ups' = "gone" /\ trouble' = trouble \cup {"reset"}
  /\ pipe' = Reset(pipe, "down", "upstream")
  /\ UNCHANGED <<kind, work, pc, app, shut, sent, got, fin, age>>

Next ==
  \/ \E d \in Dirs, p \in Pipes : Copy(d, p)
  \/ Overflow
  \/ ReadHeader \/ HeaderTimeout \/ Connected \/ Refused \/ ConnectTimeout
  \/ Confirm \/ RelayEnds \/ Tick \/ Cut
  \/ Hello \/ DialOk \/ DialFails \/ AppSend \/ AppShut \/ AppRead \/ AppEnd
  \/ AppDrop \/ Vanish \/ Noticed
  \/ UpRead \/ UpEnd \/ UpSend \/ UpShut \/ UpReset

\* Tasks are polled when they are ready and time passes.  The client reads what it is
\* sent, and one that is lost is noticed if it is missed.  Nothing is asked of the
\* upstream, nor that a dial is ever answered.  Every step uses something up that does not
\* come back (a chunk, an end, a tick), so that one condition is as strong as one for
\* each task.
System ==
  \/ \E d \in Dirs, p \in Pipes : Copy(d, p)
  \/ Overflow \/ Handler \/ Tick \/ Client \/ (Missed /\ Noticed)

Fairness == WF_vars(System)

Spec     == Init /\ [][Next]_vars
FairSpec == Spec /\ Fairness
-----------------------------------------------------------------------------

UpstreamEnded == pipe["down"]["upstream"].end = "eof"

\* A WebSocket closes as a whole: whoever closes second may lose what it sent.
EndedFirst(d) == kind = "ws" => IF d = "up" THEN ~UpstreamEnded ELSE ~shut

\* A stream that ends cleanly is whole: unless the connection was disturbed, the client
\* sees the end only when the upstream has ended and all it sent has arrived, and the
\* upstream sees it only when the client has ended and all it sent has arrived, through
\* every pump, duplex and relay (handle_stream, handle_tcp, axum_ws_to_duplex, dial).
CleanEndIsWhole ==
  trouble = {} =>
    /\ fin["down"] = "eof" /\ EndedFirst("down") =>
         UpstreamEnded /\ got["down"] = [i \in 1 .. sent["down"] |-> i]
    /\ fin["up"] = "eof" /\ EndedFirst("up") =>
         shut /\ got["up"] = [i \in 1 .. sent["up"] |-> i]

\* A dial over VLESS succeeds only when the upstream has been connected: "Sending this
\* before dialing makes the client believe a failed/hung target is live".
DialMeansConnected == Vless /\ app = "open" => ups # "none"

\* The handler of a VLESS connection always ends, whatever the client and the upstream do
\* (every phase has its limit), and a dial has been answered then, although it has no limit
\* of its own.  The pumps of a WebSocket may go on waiting for a client that was lost.
VlessEnds == Vless ~> pc = "done" /\ app \notin {"start", "wait"}

\* A client that ends its sending still gets the whole response: the other direction
\* goes on ("separate the two halves and wait for the reverse direction").
HalfCloseAnswered ==
  shut /\ UpstreamEnded /\ kind # "ws" ~>
    trouble # {} \/ (fin["down"] = "eof" /\ got["down"] = [i \in 1 .. sent["down"] |-> i])

\* The upstream has something to do before the handler can go on: take data, or end
\* after it has seen the end.
AwaitsUpstream ==
  \/ pc = "dial"
  \/ HasData("up", "upstream")
  \/ pipe["up"]["upstream"].end # "open" /\ pipe["down"]["upstream"].end = "open"

\* Without a limit (TUIC, AnyTLS) a handler whose client is gone is left waiting only for
\* the upstream, which has been told, also where the client was lost without a word, unless
\* it is one of AnyTLS to which nothing is sent: no timeout and no keepalive misses it.
Noticeable == app = "gone" \/ (app = "lost" /\ (Vless \/ Missed))
GoneIsNoticed == Noticeable ~> pc = "done" \/ AwaitsUpstream

\* A handler of AnyTLS whose dial fails returns with at most a SYNACK, which dial ignores.
\* A client that sends on into the stream is told that it has ended (the frame loop finds
\* the queue closed).
DeadStreamAnswered ==
  /\ kind = "anytls" /\ pc = "done"
  /\ HasData("up", "wire") /\ pipe["up"]["server"].end = "open"
  ~> app # "open" \/ fin["down"] # "open"
=============================================================================
