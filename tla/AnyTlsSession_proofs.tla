------------------------- MODULE AnyTlsSession_proofs -------------------------
(***************************************************************************)
(* Theorems about AnyTlsSession: what an upstream is written is what its   *)
(* client sent, and it sees the end of the stream only after all of it.    *)
(***************************************************************************)
EXTENDS AnyTlsSession, SequenceTheorems, TLAPS

Labels == {"none", "target", "dial", "relay", "shutdown", "join", "gone"}

TypeOK ==
  /\ frames \in Nat /\ frames <= MaxFrames
  /\ spawned \in Nat /\ spawned <= frames
  /\ closed \in BOOLEAN /\ settings \in BOOLEAN
  /\ streams \in [Sids -> Nat]
  /\ \A s \in Sids : streams[s] <= spawned
  /\ pc \in [Handlers -> Labels]
  /\ queue \in [Handlers -> Seq(Nat)]
  /\ upstream \in [Handlers -> Seq(Nat)]
  /\ offered \in [Handlers -> Seq(Nat)]
  /\ shut \subseteq Handlers /\ broken \subseteq Handlers
  /\ reading \subseteq Handlers /\ refused \subseteq Handlers

\* A handler's chunks come from one stream.
OneStream == \A s, t \in Sids : streams[s] = streams[t] /\ streams[s] # 0 => s = t

\* What a handler that has not been spawned has done.
NotYet == \A h \in Handlers : h > spawned => pc[h] = "none" /\ h \notin refused

\* A refused chunk is the last of its stream.
RefusedIsLast == \A h \in refused : offered[h] # <<>> /\ ~Open(h)

\* The chunks that were accepted for a handler.
Carried(h) == IF h \in refused THEN Front(offered[h]) ELSE offered[h]

\* Before its target is read all that was accepted is in the queue; then, the target
\* taken off, what is not in the queue has been written.
InQueue(h) ==
  /\ pc[h] \in {"none", "target"} => Carried(h) = queue[h]
  /\ pc[h] \in {"none", "target", "dial"} => upstream[h] = <<>>
  /\ pc[h] \in {"dial", "relay"} =>
       Carried(h) # <<>> /\ Tail(Carried(h)) = upstream[h] \o queue[h]

\* A write side that is shut down, or about to be, has been written everything, and no
\* more can come, unless it failed.
Finished(h) ==
  (pc[h] = "shutdown" \/ h \in shut) /\ h \notin broken =>
    Carried(h) # <<>> /\ Tail(Carried(h)) = upstream[h] /\ ~Open(h)

Position(h) ==
  /\ h \in shut => pc[h] \in {"join", "gone"}
  /\ h \in broken => pc[h] \in {"shutdown", "join", "gone"}

IInv ==
  /\ TypeOK /\ OneStream /\ NotYet /\ RefusedIsLast /\ NoGap
  /\ \A h \in Handlers : InQueue(h) /\ Finished(h) /\ Position(h)

-----------------------------------------------------------------------------
(* Sequences *)

LEMMA FrontAppend ==
  ASSUME NEW s \in Seq(Nat), NEW x \in Nat
  PROVE  /\ Append(s, x) \in Seq(Nat) /\ Append(s, x) # <<>>
         /\ Front(Append(s, x)) = s
<1>1. Append(s, x) \in Seq(Nat) /\ Len(Append(s, x)) = Len(s) + 1
  OBVIOUS
<1>2. Append(s, x) = s \o <<x>> /\ <<x>> \in Seq(Nat)
  BY AppendIsConcat
<1>3. SubSeq(s \o <<x>>, 1, Len(s)) = s
  <2>1. CASE s = <<>>
    BY <2>1, SubSeqEmpty
  <2>2. CASE s # <<>>
    <3>1. Len(s) \in 1 .. Len(s) /\ 1 \in 1 .. Len(s)
      BY <2>2
    <3>. QED  BY <1>2, <3>1, SubSeqOfConcat1, SubSeqFull
  <2>. QED  BY <2>1, <2>2
<1>. QED  BY <1>1, <1>2, <1>3 DEF Front

LEMMA FrontTyped ==
  ASSUME NEW s \in Seq(Nat), s # <<>>
  PROVE  Front(s) \in Seq(Nat)
BY DEF Front

\* The head may be taken off before or after the last.
LEMMA TailFront ==
  ASSUME NEW s \in Seq(Nat), s # <<>>, Front(s) # <<>>
  PROVE  Tail(Front(s)) = Front(Tail(s))
<1>1. Len(s) >= 2
  BY DEF Front
<1>2. Front(s) \in Seq(Nat) /\ Len(Front(s)) = Len(s) - 1
  BY <1>1 DEF Front
<1>3. \A i \in 1 .. Len(s) - 1 : Front(s)[i] = s[i]
  BY <1>1 DEF Front
<1>4. Tail(s) \in Seq(Nat) /\ Len(Tail(s)) = Len(s) - 1
  BY <1>1
<1>5. \A i \in 1 .. Len(s) - 1 : Tail(s)[i] = s[i + 1]
  BY <1>1
<1>6. Front(Tail(s)) \in Seq(Nat) /\ Len(Front(Tail(s))) = Len(s) - 2
  BY <1>1, <1>4 DEF Front
<1>7. \A i \in 1 .. Len(s) - 2 : Front(Tail(s))[i] = s[i + 1]
  BY <1>1, <1>4, <1>5 DEF Front
<1>8. Tail(Front(s)) \in Seq(Nat) /\ Len(Tail(Front(s))) = Len(s) - 2
  BY <1>1, <1>2
<1>9. \A i \in 1 .. Len(s) - 2 : Tail(Front(s))[i] = s[i + 1]
  BY <1>1, <1>2, <1>3
<1>. QED  BY <1>1, <1>6, <1>7, <1>8, <1>9, SeqEqual

LEMMA TailAppend ==
  ASSUME NEW s \in Seq(Nat), NEW x \in Nat, s # <<>>
  PROVE  Tail(Append(s, x)) = Append(Tail(s), x)
BY HeadTailAppend

LEMMA PrefixOfConcat ==
  ASSUME NEW u \in Seq(Nat), NEW q \in Seq(Nat)
  PROVE  IsPrefix(u, u \o q)
<1>1. Len(u \o q) = Len(u) + Len(q) /\ u \o q \in Seq(Nat)
  OBVIOUS
<1>2. SubSeq(u, 1, Len(u)) = u /\ SubSeq(u \o q, 1, Len(u)) = u
  BY SubSeqFull, SubSeqOfConcat1, SubSeqProperties
<1>. QED  BY <1>1, <1>2 DEF IsPrefix

LEMMA PrefixOfAppend ==
  ASSUME NEW u \in Seq(Nat), NEW s \in Seq(Nat), NEW x \in Nat, IsPrefix(u, s)
  PROVE  IsPrefix(u, Append(s, x))
<1>1. Len(u) <= Len(s) /\ SubSeq(u, 1, Len(u)) = SubSeq(s, 1, Len(u))
  BY DEF IsPrefix
<1>2. Len(Append(s, x)) = Len(s) + 1
  OBVIOUS
<1>3. SubSeq(Append(s, x), 1, Len(u)) = SubSeq(s, 1, Len(u))
  BY <1>1, AppendIsConcat, SubSeqOfConcat1
<1>. QED  BY <1>1, <1>2, <1>3 DEF IsPrefix

LEMMA EmptyPrefix ==
  ASSUME NEW s \in Seq(Nat)
  PROVE  IsPrefix(<<>>, s)
BY DEF IsPrefix

LEMMA PrefixOfFront ==
  ASSUME NEW u \in Seq(Nat), NEW s \in Seq(Nat), s # <<>>, IsPrefix(u, Front(s))
  PROVE  IsPrefix(u, s)
<1>1. PICK t \in Seq(Nat), x \in Nat : s = Append(t, x)
  BY SequenceEmptyOrAppend
<1>2. Front(s) = t
  BY <1>1, FrontAppend
<1>. QED  BY <1>1, <1>2, PrefixOfAppend

\* The head of a queue moves to the end of what it follows.
LEMMA MoveHead ==
  ASSUME NEW u \in Seq(Nat), NEW q \in Seq(Nat), q # <<>>
  PROVE  /\ Head(q) \in Nat /\ Tail(q) \in Seq(Nat)
         /\ u \o q = Append(u, Head(q)) \o Tail(q)
<1>1. Head(q) \in Nat /\ Tail(q) \in Seq(Nat) /\ q = <<Head(q)>> \o Tail(q)
  <2>1. Len(q) \in Nat \ {0} /\ Head(q) = q[1] /\ Head(q) \in Nat /\ Tail(q) \in Seq(Nat)
    OBVIOUS
  <2>2. SubSeq(q, 1, Len(q)) = <<q[1]>> \o SubSeq(q, 2, Len(q))
    BY <2>1, SubSeqRecursiveFirst
  <2>. QED  BY <2>1, <2>2, SubSeqFull, TailIsSubSeq
<1>2. Append(u, Head(q)) = u \o <<Head(q)>>
  BY <1>1, AppendIsConcat
<1>3. <<Head(q)>> \in Seq(Nat)
  BY <1>1
<1>4. (u \o <<Head(q)>>) \o Tail(q) = u \o (<<Head(q)>> \o Tail(q))
  BY <1>1, <1>3, ConcatAssociative
<1>. QED  BY <1>1, <1>2, <1>4

LEMMA ConcatAppend ==
  ASSUME NEW u \in Seq(Nat), NEW q \in Seq(Nat), NEW x \in Nat
  PROVE  Append(u \o q, x) = u \o Append(q, x)
<1>1. <<x>> \in Seq(Nat) /\ u \o q \in Seq(Nat)
  OBVIOUS
<1>2. Append(u \o q, x) = (u \o q) \o <<x>> /\ Append(q, x) = q \o <<x>>
  BY <1>1, AppendIsConcat
<1>3. (u \o q) \o <<x>> = u \o (q \o <<x>>)
  BY <1>1, ConcatAssociative
<1>. QED  BY <1>2, <1>3

-----------------------------------------------------------------------------
(* The invariant *)

LEMMA InitInv == Init => IInv
<1>. SUFFICES ASSUME Init PROVE IInv
  OBVIOUS
<1>. DEFINE Chunks == Seq(Nat)
<1>0. <<>> \in Chunks
  OBVIOUS
<1>1. TypeOK
  <2>1. <<>> \in Chunks => /\ queue \in [Handlers -> Chunks] /\ upstream \in [Handlers -> Chunks]
                          /\ offered \in [Handlers -> Chunks]
    <3>. HIDE DEF Chunks
    <3>. QED  BY DEF Init
  <2>2. pc \in [Handlers -> Labels]
    BY DEF Init, Labels
  <2>3. frames \in Nat /\ frames <= MaxFrames /\ spawned \in Nat /\ spawned <= frames
    BY BoundsAssumption DEF Init
  <2>4. streams \in [Sids -> Nat] /\ \A s \in Sids : streams[s] <= spawned
    BY DEF Init
  <2>5. closed \in BOOLEAN /\ settings \in BOOLEAN
    BY DEF Init
  <2>6. /\ shut \subseteq Handlers /\ broken \subseteq Handlers
        /\ reading \subseteq Handlers /\ refused \subseteq Handlers
    BY DEF Init
  <2>. QED  BY <1>0, <2>1, <2>2, <2>3, <2>4, <2>5, <2>6 DEF TypeOK
<1>2. NoGap
  <2>. SUFFICES ASSUME NEW h \in Handlers PROVE IsPrefix(upstream[h], Payload(h))
    BY DEF NoGap
  <2>1. upstream[h] = <<>> /\ Payload(h) = <<>>
    BY DEF Init, Payload
  <2>. QED  BY <1>0, <2>1, EmptyPrefix
<1>. QED  BY <1>1, <1>2 DEF Init, IInv, OneStream, NotYet, RefusedIsLast, InQueue,
             Finished, Position, Carried

LEMMA CarriedTyped ==
  ASSUME TypeOK, RefusedIsLast, NEW h \in Handlers
  PROVE  Carried(h) \in Seq(Nat)
BY FrontTyped DEF TypeOK, RefusedIsLast, Carried

\* What is accepted is a beginning of what is sent.
LEMMA CarriedIsPayload ==
  ASSUME TypeOK, RefusedIsLast, NEW h \in Handlers, NEW u \in Seq(Nat),
         Carried(h) # <<>>, IsPrefix(u, Tail(Carried(h)))
  PROVE  IsPrefix(u, Payload(h))
<1>1. offered[h] \in Seq(Nat)
  BY DEF TypeOK
<1>2. CASE h \notin refused
  BY <1>2 DEF Carried, Payload
<1>3. CASE h \in refused
  <2>1. offered[h] # <<>> /\ Front(offered[h]) # <<>> /\ Carried(h) = Front(offered[h])
    BY <1>3 DEF RefusedIsLast, Carried
  <2>2. Tail(Carried(h)) = Front(Tail(offered[h]))
    BY <1>1, <2>1, TailFront
  <2>3. Tail(offered[h]) \in Seq(Nat) /\ Tail(offered[h]) # <<>>
    BY <1>1, <2>1 DEF Front
  <2>. QED  BY <2>1, <2>2, <2>3, PrefixOfFront DEF Payload
<1>. QED  BY <1>2, <1>3

\* A step of one task needs looking at for that task only.
LEMMA HandlerStep ==
  ASSUME IInv, NEW h \in Handlers, TypeOK', UNCHANGED <<session, offered, refused>>,
         pc[h] # "none",
         \A g \in Handlers \ {h} :
           /\ pc'[g] = pc[g] /\ queue'[g] = queue[g] /\ upstream'[g] = upstream[g]
           /\ (g \in shut' <=> g \in shut) /\ (g \in broken' <=> g \in broken),
         InQueue(h)', Finished(h)', Position(h)', IsPrefix(upstream'[h], Payload(h))
  PROVE  IInv'
<1>1. OneStream' /\ RefusedIsLast'
  BY DEF IInv, OneStream, RefusedIsLast, Open, session
<1>2. NotYet'
  BY DEF IInv, NotYet, session
<1>3. NoGap'
  BY DEF IInv, NoGap, Payload
<1>4. ASSUME NEW g \in Handlers, g # h
      PROVE  InQueue(g)' /\ Finished(g)' /\ Position(g)'
  BY <1>4 DEF IInv, InQueue, Finished, Position, Carried, Open, session
<1>. QED  BY <1>1, <1>2, <1>3, <1>4 DEF IInv

LEMMA ReadTargetInv ==
  ASSUME IInv, NEW h \in Handlers, ReadTarget(h)
  PROVE  IInv'
<1>1. pc[h] = "target" /\ upstream[h] = <<>> /\ Carried(h) = queue[h]
  BY DEF ReadTarget, IInv, InQueue
<1>2. UNCHANGED <<session, upstream, shut, broken, reading, offered, refused>>
  BY DEF ReadTarget
<1>3. TypeOK /\ RefusedIsLast /\ h \notin shut /\ h \notin broken
  BY <1>1 DEF IInv, Position
<1>4. \/ /\ queue[h] # <<>> /\ queue' = [queue EXCEPT ![h] = Tail(@)]
         /\ Goto(h, "dial") \/ Goto(h, "gone")
      \/ queue[h] = <<>> /\ Goto(h, "gone") /\ UNCHANGED queue
  BY DEF ReadTarget
<1>5. queue' \in [Handlers -> Seq(Nat)] /\ pc' \in [Handlers -> Labels]
  <2>1. queue[h] # <<>> => Tail(queue[h]) \in Seq(Nat)
    BY <1>3 DEF TypeOK
  <2>2. pc' \in [Handlers -> Labels]
    BY <1>3, <1>4 DEF TypeOK, Goto, Labels
  <2>. QED  BY <1>3, <1>4, <2>1, <2>2 DEF TypeOK
<1>6. TypeOK'
  BY <1>2, <1>3, <1>5 DEF TypeOK, session
<1>7. Carried(h)' = Carried(h) /\ Payload(h)' = Payload(h)
  BY <1>2 DEF Carried, Payload
<1>8. IsPrefix(upstream'[h], Payload(h))
  BY <1>2 DEF IInv, NoGap
<1>9. InQueue(h)'
  <2>1. CASE pc'[h] = "dial"
    <3>1. queue[h] # <<>> /\ queue'[h] = Tail(queue[h])
      BY <1>3, <1>4, <2>1 DEF TypeOK, Goto
    <3>2. Tail(queue[h]) \in Seq(Nat) /\ <<>> \o Tail(queue[h]) = Tail(queue[h])
      BY <1>3, <3>1, ConcatEmptySeq DEF TypeOK
    <3>. QED  BY <1>1, <1>2, <1>7, <2>1, <3>1, <3>2 DEF InQueue
  <2>2. CASE pc'[h] = "gone"
    BY <2>2 DEF InQueue
  <2>. QED  BY <1>3, <1>4, <2>1, <2>2 DEF TypeOK, Goto
<1>10. Finished(h)' /\ Position(h)'
  BY <1>2, <1>3, <1>4 DEF Finished, Position, Goto, TypeOK
<1>11. \A g \in Handlers \ {h} : pc'[g] = pc[g] /\ queue'[g] = queue[g]
  BY <1>3, <1>4 DEF TypeOK, Goto
<1>. QED  BY <1>1, <1>2, <1>6, <1>8, <1>9, <1>10, <1>11, HandlerStep

LEMMA DialInv ==
  ASSUME IInv, NEW h \in Handlers, Dial(h)
  PROVE  IInv'
<1>1. pc[h] = "dial" /\ UNCHANGED <<session, upstream, shut, broken, queue, offered, refused>>
  BY DEF Dial
<1>2. TypeOK /\ h \notin shut /\ h \notin broken
  BY <1>1 DEF IInv, Position
<1>3. Goto(h, "gone") \/ Goto(h, "relay")
  BY DEF Dial
<1>4. pc' \in [Handlers -> Labels] /\ reading' \subseteq Handlers
  BY <1>2 DEF TypeOK, Dial, Goto, Labels
<1>5. TypeOK'
  BY <1>1, <1>2, <1>4 DEF TypeOK, session
<1>6. Carried(h)' = Carried(h) /\ IsPrefix(upstream'[h], Payload(h))
  BY <1>1 DEF Carried, IInv, NoGap
<1>7. InQueue(h) /\ (pc'[h] = "gone" \/ pc'[h] = "relay")
  BY <1>2, <1>3 DEF IInv, TypeOK, Goto
<1>8. InQueue(h)' /\ Finished(h)' /\ Position(h)'
  BY <1>1, <1>2, <1>6, <1>7 DEF InQueue, Finished, Position
<1>9. \A g \in Handlers \ {h} : pc'[g] = pc[g]
  BY <1>2, <1>3 DEF TypeOK, Goto
<1>. QED  BY <1>1, <1>5, <1>6, <1>8, <1>9, HandlerStep

LEMMA WriteInv ==
  ASSUME IInv, NEW h \in Handlers, Write(h)
  PROVE  IInv'
<1>1. /\ pc[h] = "relay" /\ queue[h] # <<>> /\ queue' = [queue EXCEPT ![h] = Tail(@)]
      /\ UNCHANGED <<session, shut, reading, offered, refused>>
  BY DEF Write
<1>2. TypeOK /\ RefusedIsLast /\ h \notin shut /\ h \notin broken
  BY <1>1 DEF IInv, Position
<1>3. Carried(h) # <<>> /\ Tail(Carried(h)) = upstream[h] \o queue[h]
  BY <1>1 DEF IInv, InQueue
<1>4. queue[h] \in Seq(Nat) /\ upstream[h] \in Seq(Nat)
  BY <1>2 DEF TypeOK
<1>5. /\ Head(queue[h]) \in Nat /\ Tail(queue[h]) \in Seq(Nat)
      /\ upstream[h] \o queue[h] = Append(upstream[h], Head(queue[h])) \o Tail(queue[h])
  BY <1>1, <1>4, MoveHead
<1>6. Carried(h)' = Carried(h)
  BY <1>1 DEF Carried
<1>7. queue' \in [Handlers -> Seq(Nat)] /\ queue'[h] = Tail(queue[h])
  BY <1>1, <1>2, <1>5 DEF TypeOK
<1>8. CASE upstream' = [upstream EXCEPT ![h] = Append(@, Head(queue[h]))] /\ UNCHANGED <<pc, broken>>
  <2>1. Append(upstream[h], Head(queue[h])) \in Seq(Nat)
    BY <1>4, <1>5
  <2>2. upstream' \in [Handlers -> Seq(Nat)] /\ upstream'[h] = Append(upstream[h], Head(queue[h]))
    BY <1>2, <1>8, <2>1 DEF TypeOK
  <2>3. TypeOK'
    BY <1>1, <1>2, <1>7, <1>8, <2>2 DEF TypeOK, session
  <2>4. IsPrefix(upstream'[h], Tail(Carried(h)))
    BY <1>3, <1>5, <2>1, <2>2, PrefixOfConcat
  <2>5. IsPrefix(upstream'[h], Payload(h))
    BY <1>2, <1>3, <2>1, <2>2, <2>4, CarriedIsPayload
  <2>6. InQueue(h)'
    BY <1>1, <1>3, <1>5, <1>6, <1>7, <1>8, <2>2 DEF InQueue
  <2>7. Finished(h)' /\ Position(h)'
    BY <1>1, <1>2, <1>8 DEF Finished, Position
  <2>8. \A g \in Handlers \ {h} : queue'[g] = queue[g] /\ upstream'[g] = upstream[g]
    BY <1>1, <1>2, <1>8 DEF TypeOK
  <2>. QED  BY <1>1, <1>8, <2>3, <2>5, <2>6, <2>7, <2>8, HandlerStep
<1>9. CASE broken' = broken \cup {h} /\ Goto(h, "shutdown") /\ UNCHANGED upstream
  <2>1. pc' \in [Handlers -> Labels] /\ pc'[h] = "shutdown"
    BY <1>2, <1>9 DEF TypeOK, Goto, Labels
  <2>2. TypeOK'
    BY <1>1, <1>2, <1>7, <1>9, <2>1 DEF TypeOK, session
  <2>3. IsPrefix(upstream'[h], Payload(h))
    BY <1>9 DEF IInv, NoGap
  <2>4. InQueue(h)' /\ Finished(h)' /\ Position(h)'
    BY <1>1, <1>2, <1>9, <2>1 DEF InQueue, Finished, Position
  <2>5. \A g \in Handlers \ {h} : pc'[g] = pc[g] /\ queue'[g] = queue[g]
    BY <1>1, <1>2, <1>9 DEF TypeOK, Goto
  <2>. QED  BY <1>1, <1>9, <2>2, <2>3, <2>4, <2>5, HandlerStep
<1>. QED  BY <1>8, <1>9 DEF Write

LEMMA EndInv ==
  ASSUME IInv, NEW h \in Handlers, End(h)
  PROVE  IInv'
<1>1. /\ pc[h] = "relay" /\ queue[h] = <<>> /\ ~Open(h) /\ Goto(h, "shutdown")
      /\ UNCHANGED <<session, upstream, shut, broken, reading, queue, offered, refused>>
  BY DEF End
<1>2. TypeOK /\ h \notin shut /\ h \notin broken
  BY <1>1 DEF IInv, Position
<1>3. pc' \in [Handlers -> Labels] /\ pc'[h] = "shutdown"
  BY <1>1, <1>2 DEF TypeOK, Goto, Labels
<1>4. TypeOK'
  BY <1>1, <1>2, <1>3 DEF TypeOK, session
<1>5. IsPrefix(upstream'[h], Payload(h)) /\ Carried(h)' = Carried(h)
  BY <1>1 DEF IInv, NoGap, Carried
<1>6. Carried(h) # <<>> /\ Tail(Carried(h)) = upstream[h]
  <2>1. Carried(h) # <<>> /\ Tail(Carried(h)) = upstream[h] \o <<>>
    BY <1>1 DEF IInv, InQueue
  <2>2. upstream[h] \in Seq(Nat)
    BY <1>2 DEF TypeOK
  <2>. QED  BY <2>1, <2>2, ConcatEmptySeq
<1>7. InQueue(h)' /\ Position(h)'
  BY <1>1, <1>2, <1>3 DEF InQueue, Position
<1>8. Finished(h)'
  BY <1>1, <1>5, <1>6 DEF Finished, Open, session
<1>9. \A g \in Handlers \ {h} : pc'[g] = pc[g]
  BY <1>1, <1>2 DEF TypeOK, Goto
<1>. QED  BY <1>1, <1>4, <1>5, <1>7, <1>8, <1>9, HandlerStep

LEMMA ShutdownInv ==
  ASSUME IInv, NEW h \in Handlers, Shutdown(h)
  PROVE  IInv'
<1>1. /\ pc[h] = "shutdown" /\ shut' = shut \cup {h} /\ Goto(h, "join")
      /\ UNCHANGED <<session, upstream, broken, reading, queue, offered, refused>>
  BY DEF Shutdown
<1>2. TypeOK /\ Finished(h)
  BY DEF IInv
<1>3. pc' \in [Handlers -> Labels] /\ pc'[h] = "join"
  BY <1>1, <1>2 DEF TypeOK, Goto, Labels
<1>4. TypeOK'
  BY <1>1, <1>2, <1>3 DEF TypeOK, session
<1>5. IsPrefix(upstream'[h], Payload(h)) /\ Carried(h)' = Carried(h)
  BY <1>1 DEF IInv, NoGap, Carried
<1>6. InQueue(h)' /\ Position(h)'
  BY <1>3 DEF InQueue, Position
<1>7. Finished(h)'
  BY <1>1, <1>2, <1>5 DEF Finished, Open, session
<1>8. \A g \in Handlers \ {h} : pc'[g] = pc[g]
  BY <1>1, <1>2 DEF TypeOK, Goto
<1>. QED  BY <1>1, <1>4, <1>5, <1>6, <1>7, <1>8, HandlerStep

LEMMA JoinInv ==
  ASSUME IInv, NEW h \in Handlers, Join(h)
  PROVE  IInv'
<1>1. /\ pc[h] = "join" /\ Goto(h, "gone")
      /\ UNCHANGED <<session, upstream, shut, broken, reading, queue, offered, refused>>
  BY DEF Join
<1>2. TypeOK /\ Finished(h) /\ Position(h)
  BY DEF IInv
<1>3. pc' \in [Handlers -> Labels] /\ pc'[h] = "gone"
  BY <1>1, <1>2 DEF TypeOK, Goto, Labels
<1>4. TypeOK'
  BY <1>1, <1>2, <1>3 DEF TypeOK, session
<1>5. IsPrefix(upstream'[h], Payload(h)) /\ Carried(h)' = Carried(h)
  BY <1>1 DEF IInv, NoGap, Carried
<1>6. InQueue(h)' /\ Position(h)'
  BY <1>3 DEF InQueue, Position
<1>7. Finished(h)'
  BY <1>1, <1>2, <1>3, <1>5 DEF Finished, Open, session
<1>8. \A g \in Handlers \ {h} : pc'[g] = pc[g]
  BY <1>1, <1>2 DEF TypeOK, Goto
<1>. QED  BY <1>1, <1>4, <1>5, <1>6, <1>7, <1>8, HandlerStep

LEMMA UpTaskEndsInv ==
  ASSUME IInv, NEW h \in Handlers, UpTaskEnds(h)
  PROVE  IInv'
<1>1. TypeOK'
  BY DEF UpTaskEnds, IInv, TypeOK, session
<1>. QED  BY <1>1 DEF UpTaskEnds, session, IInv, OneStream, NotYet, RefusedIsLast, NoGap, Payload,
             InQueue, Finished, Position, Carried, Open

LEMMA ReadTyped ==
  ASSUME TypeOK, Read
  PROVE  frames' = frames + 1 /\ frames' \in Nat /\ frames' <= MaxFrames
BY BoundsAssumption DEF TypeOK, Read

\* A step of the loop that only takes senders away.
LEMMA LoopStep ==
  ASSUME IInv, TypeOK', UNCHANGED <<spawned, task, queue, offered, refused>>,
         \A s \in Sids : streams'[s] = streams[s] \/ streams'[s] = 0
  PROVE  IInv'
<1>1. ASSUME NEW h \in Handlers, ~Open(h)
      PROVE  ~Open(h)'
  BY <1>1 DEF Open, Handlers
<1>2. OneStream'
  BY DEF IInv, OneStream
<1>3. RefusedIsLast'
  BY <1>1 DEF IInv, RefusedIsLast, TypeOK
<1>4. NotYet' /\ NoGap'
  BY DEF IInv, NotYet, NoGap, Payload, task
<1>5. ASSUME NEW h \in Handlers
      PROVE  InQueue(h)' /\ Finished(h)' /\ Position(h)'
  BY <1>1 DEF IInv, InQueue, Finished, Position, Carried, task
<1>. QED  BY <1>2, <1>3, <1>4, <1>5 DEF IInv

LEMMA SettingsInv ==
  ASSUME IInv, Settings
  PROVE  IInv'
<1>1. TypeOK'
  BY ReadTyped DEF Settings, IInv, TypeOK, task
<1>. QED  BY <1>1, LoopStep DEF Settings

LEMMA DisconnectInv ==
  ASSUME IInv, Disconnect
  PROVE  IInv'
<1>1. TypeOK'
  BY DEF Disconnect, IInv, TypeOK, task
<1>. QED  BY <1>1, LoopStep DEF Disconnect

LEMMA FinInv ==
  ASSUME IInv, NEW s \in Sids, Fin(s)
  PROVE  IInv'
<1>1. TypeOK'
  BY ReadTyped DEF Fin, IInv, TypeOK, task
<1>2. \A t \in Sids : streams'[t] = streams[t] \/ streams'[t] = 0
  BY DEF Fin, IInv, TypeOK
<1>. QED  BY <1>1, <1>2, LoopStep DEF Fin

LEMMA SynInv ==
  ASSUME IInv, NEW s \in Sids, Syn(s)
  PROVE  IInv'
<1>1. Read /\ UNCHANGED <<settings, queue, upstream, shut, broken, reading, offered, refused>>
  BY DEF Syn
<1>2. TypeOK /\ frames' = frames + 1 /\ frames' \in Nat /\ frames' <= MaxFrames
  BY <1>1, ReadTyped DEF IInv
<1>3. CASE ~settings /\ closed' = TRUE /\ streams' = [t \in Sids |-> 0] /\ UNCHANGED <<spawned, pc>>
  <2>1. TypeOK'
    BY <1>1, <1>2, <1>3 DEF TypeOK
  <2>. QED  BY <1>1, <1>3, <2>1, LoopStep DEF task
<1>4. CASE UNCHANGED <<closed, streams, spawned, pc>>
  <2>1. TypeOK'
    BY <1>1, <1>2, <1>4 DEF TypeOK
  <2>. QED  BY <1>1, <1>4, <2>1, LoopStep DEF task
<1>5. CASE /\ settings /\ streams[s] = 0 /\ spawned' = spawned + 1
           /\ streams' = [streams EXCEPT ![s] = spawned + 1]
           /\ Goto(spawned + 1, "target") /\ UNCHANGED closed
  <2>1. PICK new \in Handlers : new = spawned + 1
    BY <1>2, BoundsAssumption DEF TypeOK, Handlers
  <2>2. pc[new] = "none" /\ new \notin refused
    BY <1>2, <2>1 DEF IInv, NotYet, TypeOK
  <2>3. pc' \in [Handlers -> Labels] /\ pc'[new] = "target"
        /\ \A h \in Handlers \ {new} : pc'[h] = pc[h]
    BY <1>2, <1>5, <2>1 DEF TypeOK, Goto, Labels
  <2>4. /\ streams' \in [Sids -> Nat] /\ \A t \in Sids : streams'[t] <= spawned'
        /\ spawned' \in Nat /\ spawned' <= frames'
    BY <1>2, <1>5 DEF TypeOK
  <2>5. TypeOK'
    BY <1>1, <1>2, <1>5, <2>3, <2>4 DEF TypeOK
  <2>6. ASSUME NEW h \in Handlers, h # new, ~Open(h)
        PROVE  ~Open(h)'
    BY <1>2, <1>5, <2>1, <2>6 DEF Open, TypeOK
  <2>7. OneStream'
    BY <1>2, <1>5 DEF IInv, OneStream, TypeOK
  <2>8. NotYet'
    BY <1>1, <1>2, <1>5, <2>1, <2>3 DEF IInv, NotYet, TypeOK, Handlers
  <2>9. RefusedIsLast'
    BY <1>1, <1>2, <2>2, <2>6 DEF IInv, RefusedIsLast, TypeOK
  <2>10. NoGap'
    BY <1>1 DEF IInv, NoGap, Payload
  <2>11. ASSUME NEW h \in Handlers, h # new
         PROVE  InQueue(h)' /\ Finished(h)' /\ Position(h)'
    BY <1>1, <2>3, <2>6, <2>11 DEF IInv, InQueue, Finished, Position, Carried
  <2>12. InQueue(new)' /\ Finished(new)' /\ Position(new)'
    <3>1. InQueue(new) /\ new \notin shut /\ new \notin broken
      BY <2>1, <2>2 DEF IInv, Position
    <3>. QED  BY <1>1, <2>2, <2>3, <3>1 DEF InQueue, Finished, Position, Carried
  <2>. QED  BY <2>5, <2>7, <2>8, <2>9, <2>10, <2>11, <2>12 DEF IInv
<1>. QED  BY <1>3, <1>4, <1>5 DEF Syn

\* What is sent next does not change what came before.
LEMMA PayloadGrows ==
  ASSUME TypeOK, NEW h \in Handlers, NEW x \in Nat, NEW u \in Seq(Nat),
         offered' = [offered EXCEPT ![h] = Append(@, x)], IsPrefix(u, Payload(h))
  PROVE  IsPrefix(u, Payload(h)')
<1>1. offered[h] \in Seq(Nat) /\ offered'[h] = Append(offered[h], x)
  BY DEF TypeOK
<1>2. Append(offered[h], x) # <<>>
  BY <1>1, FrontAppend
<1>3. CASE offered[h] = <<>>
  <2>1. Payload(h) = <<>> /\ Payload(h)' = <<>>
    BY <1>1, <1>2, <1>3, HeadTailAppend DEF Payload
  <2>. QED  BY <2>1
<1>4. CASE offered[h] # <<>>
  <2>1. Payload(h) = Tail(offered[h]) /\ Payload(h)' = Append(Tail(offered[h]), x)
    BY <1>1, <1>2, <1>4, TailAppend DEF Payload
  <2>2. Tail(offered[h]) \in Seq(Nat)
    BY <1>1, <1>4
  <2>. QED  BY <2>1, <2>2, PrefixOfAppend
<1>. QED  BY <1>3, <1>4

\* A chunk is accepted, and follows the others in the queue.
LEMMA AcceptedInv ==
  ASSUME IInv, NEW s \in Sids, NEW h \in Handlers, streams[s] = h, Read, Accepts(h),
         offered' = [offered EXCEPT ![h] = Append(@, frames')],
         queue' = [queue EXCEPT ![h] = Append(@, frames')],
         UNCHANGED <<closed, settings, streams, spawned, task, refused>>
  PROVE  IInv'
<1>1. TypeOK /\ RefusedIsLast /\ frames' \in Nat /\ frames' = frames + 1 /\ frames' <= MaxFrames
  BY ReadTyped DEF IInv
<1>2. Open(h) /\ h \notin refused
  BY <1>1 DEF Open, RefusedIsLast
<1>3. /\ offered[h] \in Seq(Nat) /\ queue[h] \in Seq(Nat) /\ upstream[h] \in Seq(Nat)
      /\ Carried(h) = offered[h]
  BY <1>1, <1>2 DEF TypeOK, Carried
<1>4. /\ Append(offered[h], frames') \in Seq(Nat) /\ Append(offered[h], frames') # <<>>
      /\ Append(queue[h], frames') \in Seq(Nat)
  BY <1>1, <1>3, FrontAppend
<1>5. /\ offered' \in [Handlers -> Seq(Nat)] /\ queue' \in [Handlers -> Seq(Nat)]
      /\ offered'[h] = Append(offered[h], frames') /\ queue'[h] = Append(queue[h], frames')
      /\ \A g \in Handlers \ {h} : offered'[g] = offered[g] /\ queue'[g] = queue[g]
  BY <1>1, <1>4 DEF TypeOK
<1>6. TypeOK'
  BY <1>1, <1>5 DEF TypeOK, task
<1>7. OneStream' /\ NotYet' /\ RefusedIsLast'
  BY <1>1, <1>2, <1>5 DEF IInv, OneStream, NotYet, RefusedIsLast, Open, task, TypeOK
<1>8. Carried(h)' = Append(Carried(h), frames') /\ Carried(h)' # <<>>
  BY <1>2, <1>3, <1>4, <1>5 DEF Carried
<1>9. NoGap'
  <2>1. ASSUME NEW g \in Handlers, g # h
        PROVE  IsPrefix(upstream[g], Payload(g))'
    BY <1>5, <2>1 DEF IInv, NoGap, Payload, task
  <2>2. IsPrefix(upstream[h], Payload(h))'
    <3>1. IsPrefix(upstream[h], Payload(h)) /\ upstream'[h] = upstream[h]
      BY DEF IInv, NoGap, task
    <3>. QED  BY <1>1, <1>3, <3>1, PayloadGrows
  <2>. QED  BY <2>1, <2>2 DEF NoGap
<1>10. ASSUME NEW g \in Handlers, g # h
       PROVE  InQueue(g)' /\ Finished(g)' /\ Position(g)'
  BY <1>5, <1>10 DEF IInv, InQueue, Finished, Position, Carried, Open, task
<1>11. InQueue(h)'
  <2>1. InQueue(h) /\ pc'[h] = pc[h] /\ upstream'[h] = upstream[h]
    BY DEF IInv, task
  <2>2. ASSUME pc[h] \in {"dial", "relay"}
        PROVE  Tail(Carried(h)') = upstream[h] \o queue'[h]
    <3>1. Carried(h) # <<>> /\ Tail(Carried(h)) = upstream[h] \o queue[h]
      BY <2>1, <2>2 DEF InQueue
    <3>2. Tail(Append(Carried(h), frames')) = Append(Tail(Carried(h)), frames')
      BY <1>1, <1>3, <3>1, TailAppend
    <3>3. Append(upstream[h] \o queue[h], frames') = upstream[h] \o Append(queue[h], frames')
      BY <1>1, <1>3, ConcatAppend
    <3>. QED  BY <1>5, <1>8, <3>1, <3>2, <3>3
  <2>. QED  BY <1>5, <1>8, <2>1, <2>2 DEF InQueue
<1>12. Finished(h)' /\ Position(h)'
  BY <1>2 DEF IInv, Finished, Position, Open, task
<1>. QED  BY <1>6, <1>7, <1>9, <1>10, <1>11, <1>12 DEF IInv

\* A chunk is refused, and is the last of its stream.
LEMMA RefusedInv ==
  ASSUME IInv, NEW s \in Sids, NEW h \in Handlers, streams[s] = h, Read,
         offered' = [offered EXCEPT ![h] = Append(@, frames')],
         streams' = [streams EXCEPT ![s] = 0], refused' = refused \cup {h},
         UNCHANGED <<closed, settings, spawned, task, queue>>
  PROVE  IInv'
<1>1. TypeOK /\ RefusedIsLast /\ frames' \in Nat /\ frames' = frames + 1 /\ frames' <= MaxFrames
  BY ReadTyped DEF IInv
<1>2. Open(h) /\ h \notin refused
  BY <1>1 DEF Open, RefusedIsLast
<1>3. /\ offered[h] \in Seq(Nat) /\ upstream[h] \in Seq(Nat) /\ Carried(h) = offered[h]
  BY <1>1, <1>2 DEF TypeOK, Carried
<1>4. /\ Append(offered[h], frames') \in Seq(Nat) /\ Append(offered[h], frames') # <<>>
      /\ Front(Append(offered[h], frames')) = offered[h]
  BY <1>1, <1>3, FrontAppend
<1>5. /\ offered' \in [Handlers -> Seq(Nat)] /\ offered'[h] = Append(offered[h], frames')
      /\ \A g \in Handlers \ {h} : offered'[g] = offered[g]
  BY <1>1, <1>4 DEF TypeOK
<1>6. streams' \in [Sids -> Nat] /\ \A t \in Sids : streams'[t] <= spawned
  BY <1>1 DEF TypeOK
<1>7. TypeOK'
  BY <1>1, <1>5, <1>6 DEF TypeOK, task
<1>8. ASSUME NEW g \in Handlers, ~Open(g)
      PROVE  ~Open(g)'
  BY <1>1, <1>8 DEF Open, TypeOK, Handlers
<1>9. ~Open(h)'
  BY <1>1 DEF IInv, OneStream, Open, TypeOK, Handlers
<1>10. OneStream'
  BY <1>1 DEF IInv, OneStream, TypeOK
<1>11. NotYet'
  <2>1. h <= spawned
    BY <1>1 DEF TypeOK
  <2>. QED  BY <1>1, <2>1 DEF IInv, NotYet, task, Handlers, TypeOK
<1>12. RefusedIsLast'
  BY <1>1, <1>4, <1>5, <1>8, <1>9 DEF RefusedIsLast, TypeOK
<1>13. Carried(h)' = Carried(h)
  BY <1>3, <1>4, <1>5 DEF Carried
<1>14. NoGap'
  <2>1. ASSUME NEW g \in Handlers, g # h
        PROVE  IsPrefix(upstream[g], Payload(g))'
    BY <1>5, <2>1 DEF IInv, NoGap, Payload, task
  <2>2. IsPrefix(upstream[h], Payload(h))'
    <3>1. IsPrefix(upstream[h], Payload(h)) /\ upstream'[h] = upstream[h]
      BY DEF IInv, NoGap, task
    <3>. QED  BY <1>1, <1>3, <3>1, PayloadGrows
  <2>. QED  BY <2>1, <2>2 DEF NoGap
<1>15. ASSUME NEW g \in Handlers, g # h
       PROVE  InQueue(g)' /\ Finished(g)' /\ Position(g)'
  BY <1>5, <1>8, <1>15 DEF IInv, InQueue, Finished, Position, Carried, task
<1>16. InQueue(h)' /\ Finished(h)' /\ Position(h)'
  BY <1>9, <1>13 DEF IInv, InQueue, Finished, Position, task
<1>. QED  BY <1>7, <1>10, <1>11, <1>12, <1>14, <1>15, <1>16 DEF IInv

LEMMA PshInv ==
  ASSUME IInv, NEW s \in Sids, Psh(s)
  PROVE  IInv'
<1>1. PICK h \in Handlers : h = streams[s]
  BY BoundsAssumption DEF Psh, IInv, TypeOK, Handlers
<1>2. /\ Read /\ offered' = [offered EXCEPT ![h] = Append(@, frames')]
      /\ UNCHANGED <<closed, settings, spawned, task>>
  BY <1>1 DEF Psh
<1>3. \/ /\ Accepts(h) /\ queue' = [queue EXCEPT ![h] = Append(@, frames')]
         /\ UNCHANGED <<streams, refused>>
      \/ /\ streams' = [streams EXCEPT ![s] = 0] /\ refused' = refused \cup {h}
         /\ UNCHANGED queue
  BY <1>1 DEF Psh
<1>. QED  BY <1>1, <1>2, <1>3, AcceptedInv, RefusedInv

LEMMA NextInv ==
  ASSUME IInv, [Next]_vars
  PROVE  IInv'
<1>1. CASE Settings \/ Disconnect
  BY <1>1, SettingsInv, DisconnectInv
<1>2. ASSUME NEW s \in Sids, Syn(s) \/ Psh(s) \/ Fin(s)
      PROVE  IInv'
  BY <1>2, SynInv, PshInv, FinInv
<1>3. ASSUME NEW h \in Handlers, Task(h) \/ UpTaskEnds(h)
      PROVE  IInv'
  BY <1>3, ReadTargetInv, DialInv, WriteInv, EndInv, ShutdownInv, JoinInv, UpTaskEndsInv DEF Task
<1>4. CASE UNCHANGED vars
  BY <1>4 DEF vars, session, task, IInv, TypeOK, OneStream, NotYet, RefusedIsLast, NoGap, Payload,
              InQueue, Finished, Position, Carried, Open
<1>. QED  BY <1>1, <1>2, <1>3, <1>4 DEF Next

\* Whatever frames arrive on whatever streams, what a handler was given is what is still in
\* its queue after what it has written, and a write side that is shut down without an error was
\* written all of it (anytls.rs handle_session, stream_handler).
THEOREM Invariance == Spec => []IInv
BY InitInv, NextInv, PTL DEF Spec

-----------------------------------------------------------------------------

\* What an upstream is written is a beginning of what the client sent on that stream,
\* whatever the capacity of the queues and however often an id is used again.
THEOREM NoGapHolds == Spec => []NoGap
<1>1. IInv => NoGap
  BY DEF IInv
<1>. QED  BY <1>1, Invariance, PTL

LEMMA InvEndAfterData == IInv => EndAfterData
<1>. SUFFICES ASSUME IInv, NEW h \in shut \ broken
              PROVE  upstream[h] = IF h \in refused THEN Front(Payload(h)) ELSE Payload(h)
  BY DEF EndAfterData
<1>1. TypeOK /\ RefusedIsLast /\ h \in Handlers
  BY DEF IInv, TypeOK
<1>2. Carried(h) # <<>> /\ Tail(Carried(h)) = upstream[h]
  BY <1>1 DEF IInv, Finished
<1>3. CASE h \notin refused
  BY <1>2, <1>3 DEF Carried, Payload
<1>4. CASE h \in refused
  <2>1. offered[h] \in Seq(Nat) /\ offered[h] # <<>> /\ Carried(h) = Front(offered[h])
    BY <1>1, <1>4 DEF TypeOK, RefusedIsLast, Carried
  <2>2. Tail(Front(offered[h])) = Front(Tail(offered[h]))
    BY <1>2, <2>1, TailFront
  <2>. QED  BY <1>2, <1>4, <2>1, <2>2 DEF Payload
<1>. QED  BY <1>3, <1>4

\* An upstream whose connection holds sees the end of its stream only after all that
\* was accepted for it: everything the client sent, or all but the refused chunk.
THEOREM EndAfterDataHolds == Spec => []EndAfterData
BY Invariance, InvEndAfterData, PTL
=============================================================================
