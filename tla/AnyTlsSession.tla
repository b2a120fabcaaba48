---------------------------- MODULE AnyTlsSession ----------------------------
(***************************************************************************)
(* One AnyTLS session of the server after its authentication               *)
(* (proxy/anytls.rs handle_conn, stream_handler, ChunkedReader): the loop  *)
(* that reads the client's frames, a bounded queue for each stream, and a  *)
(* task for each stream that dials and relays.                             *)
(*                                                                         *)
(* A handler is the task of a stream, numbered in the order of the SYNs: a *)
(* client may use a stream id again.  The n-th frame of the client carries *)
(* the chunk n.  The target address is the whole of a stream's first chunk.*)
(***************************************************************************)
EXTENDS Naturals, Sequences, SequencesExt

CONSTANTS Sids,       \* stream ids
          Capacity,   \* STREAM_QUEUE_CAPACITY
          MaxFrames   \* bound: frames from the client

ASSUME BoundsAssumption ==
  Capacity \in Nat \ {0} /\ MaxFrames \in Nat

Handlers == 1 .. MaxFrames

VARIABLES
  frames,     \* frames read so far
  closed,     \* the loop has ended
  settings,   \* got_settings
  streams,    \* the sender of each stream: its handler's, or 0
  spawned,    \* handlers so far
  pc,         \* where each handler is
  queue,      \* of each handler, between the loop and the task
  upstream,   \* what each upstream connection has been written
  shut,       \* handlers that have shut the write side of their upstream down
  broken,     \* handlers whose upstream connection has failed
  reading,    \* handlers whose up_task runs
  offered,    \* history: chunks the client has sent on each handler's stream
  refused     \* history: handlers a chunk of which was refused

session == <<frames, closed, settings, streams, spawned>>
task    == <<pc, upstream, shut, broken, reading>>
vars    == <<session, task, queue, offered, refused>>

Init ==
  /\ frames = 0 /\ closed = FALSE /\ settings = FALSE
  /\ streams = [s \in Sids |-> 0] /\ spawned = 0
  /\ pc = [h \in Handlers |-> "none"]
  /\ queue = [h \in Handlers |-> <<>>] /\ upstream = [h \in Handlers |-> <<>>]
  /\ shut = {} /\ broken = {} /\ reading = {}
  /\ offered = [h \in Handlers |-> <<>>] /\ refused = {}

Goto(h, label) == pc' = [pc EXCEPT ![h] = label]

-----------------------------------------------------------------------------
(* The frame loop *)

Read == ~closed /\ frames < MaxFrames /\ frames' = frames + 1

Settings ==
  /\ Read /\ settings' = TRUE
  /\ UNCHANGED <<closed, streams, spawned, task, queue, offered, refused>>

\* Without settings an alert is sent and the loop ends; a stream that is open stays.
Syn(s) ==
  /\ Read
  /\ \/ ~settings /\ closed' = TRUE /\ streams' = [t \in Sids |-> 0]
        /\ UNCHANGED <<spawned, pc>>
     \/ settings /\ streams[s] # 0 /\ UNCHANGED <<closed, streams, spawned, pc>>
     \/ /\ settings /\ streams[s] = 0
        /\ spawned' = spawned + 1
        /\ streams' = [streams EXCEPT ![s] = spawned + 1]
        /\ Goto(spawned + 1, "target")
        /\ UNCHANGED closed
  /\ UNCHANGED <<settings, queue, upstream, shut, broken, reading, offered, refused>>

\* The receiver of a handler that has returned is gone.
Accepts(h) == Len(queue[h]) < Capacity /\ pc[h] # "gone"

\* Mutant: a chunk that finds the queue full is dropped, the stream stays.
PshDropped(s) ==
  LET h == streams[s]
  IN  /\ Read /\ h # 0
      /\ offered' = [offered EXCEPT ![h] = Append(@, frames')]
      /\ queue' = IF Accepts(h) THEN [queue EXCEPT ![h] = Append(@, frames')] ELSE queue
      /\ UNCHANGED <<closed, settings, streams, spawned, task, refused>>

\* Data for an open stream: queued, or the stream is removed and a FIN sent.
Psh(s) ==
  LET h == streams[s]
  IN  /\ Read /\ h # 0
      /\ offered' = [offered EXCEPT ![h] = Append(@, frames')]
      /\ \/ /\ Accepts(h)
            /\ queue' = [queue EXCEPT ![h] = Append(@, frames')]
            /\ UNCHANGED <<streams, refused>>
         \/ /\ ~Accepts(h)
            /\ streams' = [streams EXCEPT ![s] = 0] /\ refused' = refused \cup {h}
            /\ UNCHANGED queue
      /\ UNCHANGED <<closed, settings, spawned, task>>

\* The client's FIN; data for a stream that is not open, and all other commands,
\* change nothing.
Fin(s) ==
  /\ Read /\ streams' = [streams EXCEPT ![s] = 0]
  /\ UNCHANGED <<closed, settings, spawned, task, queue, offered, refused>>

\* The client closes the connection: the loop ends and drops every sender.
Disconnect ==
  /\ ~closed /\ closed' = TRUE /\ streams' = [s \in Sids |-> 0]
  /\ UNCHANGED <<frames, settings, spawned, task, queue, offered, refused>>

-----------------------------------------------------------------------------
(* The task of a stream *)

Open(h) == \E s \in Sids : streams[s] = h

\* read_socksaddr: an address, a bad address, or the end of the stream.
ReadTarget(h) ==
  /\ pc[h] = "target"
  /\ \/ /\ queue[h] # <<>>
        /\ queue' = [queue EXCEPT ![h] = Tail(@)]
        /\ Goto(h, "dial") \/ Goto(h, "gone")
     \/ queue[h] = <<>> /\ ~Open(h) /\ Goto(h, "gone") /\ UNCHANGED queue
  /\ UNCHANGED <<session, upstream, shut, broken, reading, offered, refused>>

\* A failed dial is reported in a SYNACK to a client of version 2; a successful one
\* starts up_task.
Dial(h) ==
  /\ pc[h] = "dial"
  /\ \/ Goto(h, "gone") /\ UNCHANGED reading
     \/ Goto(h, "relay") /\ reading' = reading \cup {h}
  /\ UNCHANGED <<session, upstream, shut, broken, queue, offered, refused>>

Write(h) ==
  /\ pc[h] = "relay" /\ queue[h] # <<>>
  /\ queue' = [queue EXCEPT ![h] = Tail(@)]
  /\ \/ upstream' = [upstream EXCEPT ![h] = Append(@, Head(queue[h]))] /\ UNCHANGED <<pc, broken>>
     \/ broken' = broken \cup {h} /\ Goto(h, "shutdown") /\ UNCHANGED upstream
  /\ UNCHANGED <<session, shut, reading, offered, refused>>

\* Mutant: the end of the stream is seen before its queue is empty.
EndAtOnce(h) ==
  /\ pc[h] = "relay" /\ ~Open(h)
  /\ Goto(h, "shutdown")
  /\ UNCHANGED <<session, upstream, shut, broken, reading, queue, offered, refused>>

\* The sender is gone and the queue empty: the end of the stream.
End(h) ==
  /\ pc[h] = "relay" /\ queue[h] = <<>> /\ ~Open(h)
  /\ Goto(h, "shutdown")
  /\ UNCHANGED <<session, upstream, shut, broken, reading, queue, offered, refused>>

\* Mutant: the write side stays open while up_task is waited for.
NoShutdown(h) ==
  /\ pc[h] = "shutdown"
  /\ Goto(h, "join")
  /\ UNCHANGED <<session, upstream, shut, broken, reading, queue, offered, refused>>

Shutdown(h) ==
  /\ pc[h] = "shutdown"
  /\ shut' = shut \cup {h}
  /\ Goto(h, "join")
  /\ UNCHANGED <<session, upstream, broken, reading, queue, offered, refused>>

Join(h) ==
  /\ pc[h] = "join" /\ h \notin reading
  /\ Goto(h, "gone")
  /\ UNCHANGED <<session, upstream, shut, broken, reading, queue, offered, refused>>

\* up_task, which passes on what the upstream sends, ends with a FIN when the upstream
\* does, or when the client is gone.
UpTaskEnds(h) ==
  /\ h \in reading
  /\ reading' = reading \ {h}
  /\ UNCHANGED <<session, pc, upstream, shut, broken, queue, offered, refused>>

Task(h) ==
  \/ ReadTarget(h) \/ Dial(h) \/ Write(h) \/ End(h) \/ Shutdown(h) \/ Join(h)

Next ==
  \/ Settings \/ Disconnect
  \/ \E s \in Sids : Syn(s) \/ Psh(s) \/ Fin(s)
  \/ \E h \in Handlers : Task(h) \/ UpTaskEnds(h)

\* Tasks are polled when they are ready, and dials end (the OS gives up).  Nothing is
\* asked of the upstreams, which may stop taking data, and of the client only that the
\* frames it is sent (send_frame, on the writer that all streams share) do not stay stuck:
\* it takes them, or its connection breaks.
Fairness ==
  \A h \in Handlers : WF_vars(ReadTarget(h) \/ Dial(h) \/ End(h) \/ Shutdown(h) \/ Join(h))

Spec     == Init /\ [][Next]_vars
FairSpec == Spec /\ Fairness

-----------------------------------------------------------------------------

\* The chunks of a stream after the one with the address.
Payload(h) == IF offered[h] = <<>> THEN <<>> ELSE Tail(offered[h])

\* What reaches an upstream is what the client sent on that stream, from the start
\* and without a gap, whatever queues are full and whichever ids are used again:
\* after a chunk is refused no later one gets through (CMD_PSH, ChunkedReader).
NoGap == \A h \in Handlers : IsPrefix(upstream[h], Payload(h))

\* An upstream sees the end of the stream only after all that was accepted for it:
\* a FIN, a full queue or the end of the connection does not overtake the chunks in
\* the queue (stream_handler).
EndAfterData ==
  \A h \in shut \ broken :
    upstream[h] = IF h \in refused THEN Front(Payload(h)) ELSE Payload(h)

\* A task that waits for its upstream: to take the next chunk, or to end.
AwaitsUpstream(h) ==
  \/ pc[h] = "relay" /\ queue[h] # <<>>
  \/ pc[h] = "join" /\ h \in shut \cap reading

\* When the client's connection has ended every stream's task ends, or has nothing left
\* to wait for but its upstream, which has been told of the end unless it has yet to
\* take the data before it (handle_conn drops the senders, stream_handler).  Here too a
\* task that sends a frame (SYNACK, data, FIN) is not held up: were the client to stop
\* reading and stay connected, it would wait for the shared writer.
SessionEnds ==
  closed ~> \A h \in Handlers : pc[h] \in {"none", "gone"} \/ AwaitsUpstream(h)
=============================================================================
