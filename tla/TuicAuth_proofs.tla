---------------------------- MODULE TuicAuth_proofs ----------------------------
(***************************************************************************)
(* A TUIC connection and its authentication, for any number of commands in *)
(* any order and any timeout.                                              *)
(***************************************************************************)
EXTENDS TuicAuth, TLAPS

\* A wake-up, given or stored, is about a flag that has been set.
WakeUpsTrue ==
  /\ permit => authenticated
  /\ \A l \in Loops : pc[l] \in {"woken", "notify"} => authenticated

IInv == TypeOK /\ WakeUpsTrue /\ RelayedAuthenticated /\ LoopsAlive

USE DEF Goto

-----------------------------------------------------------------------------

LEMMA CmdsType ==
  ASSUME NEW l \in Loops
  PROVE  Cmds[l] \subseteq Commands
<1>1. CASE l = "uni"
  BY <1>1, CmdsAssumption DEF Cmds
<1>2. CASE l = "bi"
  BY <1>2, CmdsAssumption DEF Cmds, Commands
<1>3. CASE l = "dg"
  BY <1>3, CmdsAssumption DEF Cmds, Commands
<1> QED
  BY <1>1, <1>2, <1>3 DEF Loops

LEMMA InitIInv == Init => IInv
<1> SUFFICES ASSUME Init
             PROVE  IInv
  OBVIOUS
<1>1. TypeOK
  <2>1. <<>> \in Seq(Commands) /\ 0 \in 0 .. AuthTimeout
    BY TimeAssumption
  <2> QED
    BY <2>1 DEF Init, TypeOK
<1>2. WakeUpsTrue /\ RelayedAuthenticated /\ LoopsAlive
  BY DEF Init, WakeUpsTrue, RelayedAuthenticated, LoopsAlive
<1> QED
  BY <1>1, <1>2 DEF IInv

LEMMA SendStep ==
  ASSUME IInv, NEW l \in Loops, Send(l)
  PROVE  IInv'
<1>1. PICK c \in Cmds[l] : inbox' = [inbox EXCEPT ![l] = Append(inbox[l], c)]
  BY DEF Send
<1>2. Append(inbox[l], c) \in Seq(Commands)
  BY CmdsType DEF IInv, TypeOK
<1>3. inbox' \in [Loops -> Seq(Commands)] /\ sent' \in [Loops -> Nat]
  BY <1>1, <1>2 DEF Send, IInv, TypeOK
<1>4. TypeOK'
  BY <1>3 DEF Send, IInv, TypeOK
<1> QED
  BY <1>4 DEF Send, IInv, WakeUpsTrue, RelayedAuthenticated, LoopsAlive

\* Accepting takes a command from the inbox.
LEMMA TakeType ==
  ASSUME TypeOK, NEW l \in Loops, Accepting(l), Take(l)
  PROVE  inbox' \in [Loops -> Seq(Commands)]
<1>1. Tail(inbox[l]) \in Seq(Commands)
  BY DEF TypeOK, Accepting
<1> QED
  BY <1>1 DEF TypeOK, Take

LEMMA AcceptRelayStep ==
  ASSUME IInv, NEW l \in Loops, AcceptRelay(l)
  PROVE  IInv'
<1>1. TypeOK'
  BY TakeType DEF AcceptRelay, IInv, TypeOK
<1>2. WakeUpsTrue' /\ RelayedAuthenticated' /\ LoopsAlive'
  BY DEF AcceptRelay, IInv, TypeOK, WakeUpsTrue, RelayedAuthenticated, LoopsAlive
<1> QED
  BY <1>1, <1>2 DEF IInv

LEMMA AcceptAuthStep ==
  ASSUME IInv, NEW l \in Loops, AcceptAuth(l)
  PROVE  IInv'
<1>1. TypeOK'
  BY TakeType DEF AcceptAuth, IInv, TypeOK
<1>2. WakeUpsTrue' /\ RelayedAuthenticated' /\ LoopsAlive'
  BY DEF AcceptAuth, IInv, TypeOK, WakeUpsTrue, RelayedAuthenticated, LoopsAlive
<1> QED
  BY <1>1, <1>2 DEF IInv

LEMMA AcceptPartialStep ==
  ASSUME IInv, NEW l \in Loops, AcceptPartial(l)
  PROVE  IInv'
<1>1. TypeOK'
  BY TakeType DEF AcceptPartial, IInv, TypeOK
<1>2. WakeUpsTrue' /\ RelayedAuthenticated' /\ LoopsAlive'
  BY DEF AcceptPartial, IInv, TypeOK, WakeUpsTrue, RelayedAuthenticated, LoopsAlive
<1> QED
  BY <1>1, <1>2 DEF IInv

LEMMA RestStep ==
  ASSUME IInv, NEW l \in Loops, Rest(l)
  PROVE  IInv'
<1>1. PICK c \in Cmds[l] : inbox' = [inbox EXCEPT ![l] = <<c>> \o inbox[l]]
  BY DEF Rest
<1>2. <<c>> \o inbox[l] \in Seq(Commands)
  <2>1. <<c>> \in Seq(Commands) /\ inbox[l] \in Seq(Commands)
    BY CmdsType DEF IInv, TypeOK
  <2> QED
    BY <2>1
<1>3. inbox' \in [Loops -> Seq(Commands)]
  BY <1>1, <1>2 DEF IInv, TypeOK
<1>4. TypeOK'
  BY <1>3 DEF Rest, IInv, TypeOK
<1>5. WakeUpsTrue' /\ RelayedAuthenticated' /\ LoopsAlive'
  BY DEF Rest, IInv, TypeOK, WakeUpsTrue, RelayedAuthenticated, LoopsAlive
<1> QED
  BY <1>4, <1>5 DEF IInv

LEMMA ReadFailsStep ==
  ASSUME IInv, NEW l \in Loops, ReadFails(l)
  PROVE  IInv'
<1>1. TypeOK'
  BY DEF ReadFails, IInv, TypeOK
<1>2. WakeUpsTrue' /\ RelayedAuthenticated' /\ LoopsAlive'
  BY DEF ReadFails, IInv, TypeOK, WakeUpsTrue, RelayedAuthenticated, LoopsAlive
<1> QED
  BY <1>1, <1>2 DEF IInv

LEMMA AcceptOtherStep ==
  ASSUME IInv, NEW l \in Loops, AcceptOther(l)
  PROVE  IInv'
<1>1. TypeOK'
  BY TakeType DEF AcceptOther, IInv, TypeOK
<1> QED
  BY <1>1 DEF AcceptOther, IInv, WakeUpsTrue, RelayedAuthenticated, LoopsAlive

\* The wake-ups of NotifyOne come after the flag of its own loop.
LEMMA NotifyOneStep ==
  ASSUME IInv, NEW l \in Loops, NotifyOne(l)
  PROVE  IInv'
<1>1. authenticated
  BY DEF NotifyOne, IInv, WakeUpsTrue
<1>2. \A m \in Loops : pc'[m] \in {pc[m], "accept", "woken"}
  BY DEF NotifyOne, IInv, TypeOK
<1>3. TypeOK'
  BY DEF NotifyOne, IInv, TypeOK
<1>4. WakeUpsTrue' /\ RelayedAuthenticated' /\ LoopsAlive'
  BY <1>1, <1>2 DEF NotifyOne, IInv, WakeUpsTrue, RelayedAuthenticated, LoopsAlive
<1> QED
  BY <1>3, <1>4 DEF IInv

LEMMA WaitStep ==
  ASSUME IInv, NEW l \in Loops, Wait(l)
  PROVE  IInv'
<1>1. TypeOK'
  <2>1. AuthTimeout \in 0 .. AuthTimeout
    BY TimeAssumption
  <2> QED
    BY <2>1 DEF Wait, IInv, TypeOK
<1>2. WakeUpsTrue' /\ RelayedAuthenticated' /\ LoopsAlive'
  BY DEF Wait, IInv, TypeOK, WakeUpsTrue, RelayedAuthenticated, LoopsAlive
<1> QED
  BY <1>1, <1>2 DEF IInv

\* A loop that is woken finds the flag set.
LEMMA WokenStep ==
  ASSUME IInv, NEW l \in Loops, Woken(l)
  PROVE  IInv'
<1>1. authenticated /\ relayed' = relayed \cup {l} /\ pc' = [pc EXCEPT ![l] = "accept"]
  BY DEF Woken, IInv, WakeUpsTrue
<1>2. TypeOK'
  BY <1>1 DEF Woken, IInv, TypeOK
<1>3. WakeUpsTrue' /\ RelayedAuthenticated' /\ LoopsAlive'
  BY <1>1 DEF Woken, IInv, TypeOK, WakeUpsTrue, RelayedAuthenticated, LoopsAlive
<1> QED
  BY <1>2, <1>3 DEF IInv

\* The loops that return leave a closed connection.
LEMMA EndStep ==
  ASSUME IInv, NEW l \in Loops, TimedOut(l) \/ AcceptFails(l)
  PROVE  IInv'
<1>1. closed' # "open" /\ pc' = [pc EXCEPT ![l] = "ended"]
  BY DEF TimedOut, AcceptFails
<1>2. TypeOK'
  BY DEF TimedOut, AcceptFails, IInv, TypeOK
<1>3. WakeUpsTrue' /\ RelayedAuthenticated' /\ LoopsAlive'
  BY <1>1 DEF TimedOut, AcceptFails, IInv, TypeOK, WakeUpsTrue, RelayedAuthenticated, LoopsAlive
<1> QED
  BY <1>2, <1>3 DEF IInv

LEMMA PeerCloseStep ==
  ASSUME IInv, PeerClose
  PROVE  IInv'
  BY DEF PeerClose, IInv, TypeOK, WakeUpsTrue, RelayedAuthenticated, LoopsAlive

LEMMA TickStep ==
  ASSUME IInv, Tick
  PROVE  IInv'
<1>1. ASSUME NEW l \in Loops
      PROVE  left'[l] \in 0 .. AuthTimeout
  <2>1. left[l] \in 0 .. AuthTimeout /\ (pc[l] = "waiting" => left[l] # 0)
    BY DEF Tick, Ready, IInv, TypeOK
  <2> QED
    BY <2>1, TimeAssumption DEF Tick
<1>2. left' \in [Loops -> 0 .. AuthTimeout]
  BY <1>1 DEF Tick
<1>3. TypeOK'
  BY <1>2 DEF Tick, IInv, TypeOK
<1> QED
  BY <1>3 DEF Tick, IInv, WakeUpsTrue, RelayedAuthenticated, LoopsAlive

LEMMA NextIInv == IInv /\ [Next]_vars => IInv'
<1> SUFFICES ASSUME IInv, [Next]_vars
             PROVE  IInv'
  OBVIOUS
<1>1. ASSUME NEW l \in Loops, Step(l)
      PROVE  IInv'
  BY <1>1, AcceptRelayStep, AcceptAuthStep, AcceptOtherStep, AcceptPartialStep,
     ReadFailsStep, NotifyOneStep, WaitStep, WokenStep, EndStep DEF Step
<1>2. CASE UNCHANGED vars
  BY <1>2 DEF vars, IInv, TypeOK, WakeUpsTrue, RelayedAuthenticated, LoopsAlive
<1> QED
  BY <1>1, <1>2, SendStep, RestStep, PeerCloseStep, TickStep DEF Next

LEMMA Invariance == Spec => []IInv
  BY InitIInv, NextIInv, PTL DEF Spec

-----------------------------------------------------------------------------
(* The wake-up is not lost: only the uni loop authenticates, so only it notifies, and   *)
(* it is not one of those that wait.                                                    *)

Pending(l) == pc[l] \in {"unauthenticated", "waiting"}

InboxTyped == \A l \in Loops : inbox[l] \in Seq(Cmds[l])

\* Two loops may have loaded the flag before it was set; the one wake-up takes one of
\* them out, or is kept in the permit while none of them waits.
WakeUpKept ==
  /\ \A l \in Loops : pc[l] = "notify" => l = "uni"
  /\ authenticated => ~Pending("uni")
  /\ permit => \A l \in Loops : pc[l] # "waiting"
  /\ authenticated /\ pc["uni"] # "notify" => permit \/ \E l \in {"bi", "dg"} : ~Pending(l)

LEMMA SeqExtended ==
  ASSUME NEW S, NEW s \in Seq(S), NEW c \in S
  PROVE  Append(s, c) \in Seq(S) /\ <<c>> \o s \in Seq(S)
<1>1. <<c>> \in Seq(S)
  OBVIOUS
<1> QED
  BY <1>1

LEMMA SeqTail ==
  ASSUME NEW S, NEW s \in Seq(S), s # <<>>
  PROVE  Head(s) \in S /\ Tail(s) \in Seq(S)
  OBVIOUS

\* Three loops, and only the uni stream loop is sent an authentication.
LEMMA OnlyUniAuthenticates ==
  ASSUME InboxTyped, NEW l \in Loops, AcceptAuth(l)
  PROVE  l = "uni"
<1>1. Head(inbox[l]) \in Cmds[l]
  <2>1. inbox[l] \in Seq(Cmds[l]) /\ inbox[l] # <<>>
    BY DEF InboxTyped, AcceptAuth, Accepting
  <2> QED
    BY <2>1, SeqTail
<1>2. l # "bi"
  BY <1>1, CmdsAssumption DEF AcceptAuth, Cmds
<1>3. l # "dg"
  BY <1>1, CmdsAssumption DEF AcceptAuth, Cmds
<1> QED
  BY <1>2, <1>3 DEF Loops

LEMMA NextInboxTyped == TypeOK /\ InboxTyped /\ [Next]_vars => InboxTyped'
<1> SUFFICES ASSUME TypeOK, InboxTyped, [Next]_vars
             PROVE  InboxTyped'
  OBVIOUS
<1>1. ASSUME NEW l \in Loops, Send(l) PROVE InboxTyped'
  <2>1. PICK c \in Cmds[l] : inbox' = [inbox EXCEPT ![l] = Append(inbox[l], c)]
    BY <1>1 DEF Send
  <2>2. Append(inbox[l], c) \in Seq(Cmds[l])
    BY SeqExtended DEF InboxTyped
  <2> QED
    BY <2>1, <2>2 DEF InboxTyped, TypeOK
<1>2. ASSUME NEW l \in Loops, Rest(l) PROVE InboxTyped'
  <2>1. PICK c \in Cmds[l] : inbox' = [inbox EXCEPT ![l] = <<c>> \o inbox[l]]
    BY <1>2 DEF Rest
  <2>2. <<c>> \o inbox[l] \in Seq(Cmds[l])
    BY SeqExtended DEF InboxTyped
  <2> QED
    BY <2>1, <2>2 DEF InboxTyped, TypeOK
<1>3. ASSUME NEW l \in Loops, Accepting(l), Take(l) PROVE InboxTyped'
  <2>1. inbox[l] \in Seq(Cmds[l]) /\ inbox[l] # <<>>
    BY <1>3 DEF InboxTyped, Accepting
  <2>2. Tail(inbox[l]) \in Seq(Cmds[l])
    BY <2>1, SeqTail
  <2> QED
    BY <1>3, <2>2 DEF InboxTyped, TypeOK, Take
<1>4. ASSUME NEW l \in Loops, Step(l) PROVE InboxTyped'
  <2>1. CASE AcceptRelay(l) \/ AcceptAuth(l) \/ AcceptOther(l) \/ AcceptPartial(l)
    BY <2>1, <1>3 DEF AcceptRelay, AcceptAuth, AcceptOther, AcceptPartial
  <2>2. CASE NotifyOne(l) \/ ReadFails(l) \/ Wait(l) \/ Woken(l) \/ TimedOut(l) \/ AcceptFails(l)
    BY <2>2 DEF NotifyOne, ReadFails, Wait, Woken, TimedOut, AcceptFails, InboxTyped
  <2> QED
    BY <1>4, <2>1, <2>2 DEF Step
<1>5. CASE PeerClose \/ Tick \/ UNCHANGED vars
  BY <1>5 DEF PeerClose, Tick, vars, InboxTyped
<1> QED
  BY <1>1, <1>2, <1>4, <1>5 DEF Next

\* A loop that moves to a position where it is not pending, and leaves the flag and the
\* permit alone, forgets nothing.
LEMMA SettlingMove ==
  ASSUME TypeOK, WakeUpKept, NEW l \in Loops,
         NEW to \in {"accept", "reading", "ended"}, pc' = [pc EXCEPT ![l] = to],
         pc[l] # "notify", UNCHANGED <<authenticated, permit>>
  PROVE  WakeUpKept'
  BY DEF TypeOK, WakeUpKept, Pending, Loops

LEMMA NextWakeUpKept == IInv /\ InboxTyped /\ WakeUpKept /\ [Next]_vars => WakeUpKept'
<1> SUFFICES ASSUME IInv, InboxTyped, WakeUpKept, [Next]_vars
             PROVE  WakeUpKept'
  OBVIOUS
<1> TypeOK
  BY DEF IInv
<1> USE DEF Loops
<1>1. ASSUME NEW l \in Loops, AcceptRelay(l) PROVE WakeUpKept'
  <2>1. CASE authenticated
    BY <1>1, <2>1 DEF AcceptRelay, WakeUpKept, Pending
  <2>2. CASE ~authenticated
    \* The permit is about a flag that is not set: there is none.
    <3>1. ~permit
      BY <2>2 DEF IInv, WakeUpsTrue
    <3> QED
      BY <1>1, <2>2, <3>1 DEF AcceptRelay, TypeOK, WakeUpKept, Pending
  <2> QED
    BY <2>1, <2>2
<1>2. ASSUME NEW l \in Loops, AcceptAuth(l) PROVE WakeUpKept'
  <2>1. l = "uni" /\ pc["uni"] = "accept" /\ pc' = [pc EXCEPT !["uni"] = "notify"]
    BY <1>2, OnlyUniAuthenticates DEF AcceptAuth, Accepting
  <2> QED
    BY <1>2, <2>1 DEF AcceptAuth, TypeOK, WakeUpKept, Pending
<1>3. ASSUME NEW l \in Loops, AcceptOther(l) PROVE WakeUpKept'
  BY <1>3 DEF AcceptOther, WakeUpKept, Pending
<1>4. ASSUME NEW l \in Loops, AcceptPartial(l) PROVE WakeUpKept'
  BY <1>4, SettlingMove DEF AcceptPartial, Accepting
<1>5. ASSUME NEW l \in Loops, ReadFails(l) \/ Rest(l) \/ TimedOut(l) \/ AcceptFails(l)
      PROVE WakeUpKept'
  BY <1>5, SettlingMove DEF ReadFails, Rest, TimedOut, AcceptFails
<1>6. ASSUME NEW l \in Loops, NotifyOne(l) PROVE WakeUpKept'
  <2>1. l = "uni" /\ authenticated
    BY <1>6 DEF NotifyOne, WakeUpKept, IInv, WakeUpsTrue
  <2>2. CASE \E w \in Loops : /\ pc[w] = "waiting"
                              /\ pc' = [pc EXCEPT ![l] = "accept", ![w] = "woken"]
                              /\ UNCHANGED permit
    \* The one that is woken is not pending any more.
    <3>1. PICK w \in {"bi", "dg"} : /\ pc[w] = "waiting"
                                    /\ pc' = [pc EXCEPT !["uni"] = "accept", ![w] = "woken"]
      BY <1>6, <2>1, <2>2 DEF NotifyOne
    <3>2. pc'[w] = "woken" /\ pc'["uni"] = "accept"
      BY <3>1 DEF TypeOK
    <3>3. ~permit' /\ authenticated'
      BY <1>6, <2>1, <2>2, <3>1 DEF NotifyOne, WakeUpKept
    <3> QED
      BY <3>1, <3>2, <3>3 DEF TypeOK, WakeUpKept, Pending
  <2>3. CASE /\ \A w \in Loops : pc[w] # "waiting"
             /\ permit' = TRUE /\ Goto(l, "accept")
    BY <1>6, <2>1, <2>3 DEF NotifyOne, TypeOK, WakeUpKept, Pending
  <2> QED
    BY <1>6, <2>2, <2>3 DEF NotifyOne
<1>7. ASSUME NEW l \in Loops, Wait(l) PROVE WakeUpKept'
  <2>1. CASE permit
    \* The permit is taken, by one of those it was kept for.
    <3>1. authenticated /\ l # "uni"
      BY <1>7, <2>1 DEF Wait, IInv, WakeUpsTrue, WakeUpKept, Pending
    <3>2. pc' = [pc EXCEPT ![l] = "woken"] /\ ~permit' /\ authenticated' = authenticated
      BY <1>7, <2>1 DEF Wait
    <3> QED
      BY <2>1, <3>1, <3>2 DEF TypeOK, WakeUpKept, Pending
  <2>2. CASE ~permit
    BY <1>7, <2>2 DEF Wait, TypeOK, WakeUpKept, Pending
  <2> QED
    BY <2>1, <2>2
<1>8. ASSUME NEW l \in Loops, Woken(l) PROVE WakeUpKept'
  BY <1>8, SettlingMove DEF Woken
<1>9. CASE PeerClose \/ Tick \/ UNCHANGED vars
  BY <1>9 DEF PeerClose, Tick, vars, WakeUpKept, Pending
<1>10. ASSUME NEW l \in Loops, Send(l) PROVE WakeUpKept'
  BY <1>10 DEF Send, WakeUpKept, Pending
<1> QED
  BY <1>1, <1>2, <1>3, <1>4, <1>5, <1>6, <1>7, <1>8, <1>9, <1>10 DEF Next, Step

LEMMA InitWakeUpKept == Init => InboxTyped /\ WakeUpKept
  BY DEF Init, InboxTyped, WakeUpKept, Pending, Loops

-----------------------------------------------------------------------------

\* However the three loops interleave and whatever the client sends, nothing is relayed
\* for a client that has not authenticated (handle_conn and its loops).
THEOREM RelayedAuthenticatedHolds == Spec => []RelayedAuthenticated
  BY Invariance, PTL DEF IInv

\* And no loop returns while the connection is open: the flag is set before the
\* wake-up, so the second load of the flag never fails (uni_stream_loop).
THEOREM LoopsAliveHolds == Spec => []LoopsAlive
  BY Invariance, PTL DEF IInv

\* One wake-up for two loops that both loaded the flag before it was set: when the
\* authentication is over one of them has been woken, or finds the permit (notify_one in
\* uni_stream_loop).
THEOREM OneForgottenHolds == Spec => []OneForgotten
<1>1. WakeUpKept => OneForgotten
  BY DEF WakeUpKept, Pending, OneForgotten, Loops
<1>2. IInv => TypeOK
  BY DEF IInv
<1> QED
  BY <1>1, <1>2, Invariance, InitWakeUpKept, NextInboxTyped, NextWakeUpKept, PTL DEF Spec
=============================================================================
