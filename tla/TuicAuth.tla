------------------------------ MODULE TuicAuth ------------------------------
(***************************************************************************)
(* One TUIC connection of the server until it is authenticated             *)
(* (proxy/tuic.rs handle_conn, uni_stream_loop, datagram_loop): three      *)
(* loops accept what the client sends, a flag says whether it has          *)
(* authenticated, and a tokio Notify wakes a loop that waits for the flag. *)
(*                                                                         *)
(* Time is counted in ticks that pass only when no loop has anything to    *)
(* do: the loops are fast compared to AUTH_TIMEOUT.                        *)
(***************************************************************************)
EXTENDS Naturals, Sequences

CONSTANTS UniCmds, BiCmds, DgCmds,   \* what the client may send to each loop
          AuthTimeout,               \* AUTH_TIMEOUT, in ticks
          MaxSent                    \* bound: commands sent to each loop

Loops == {"uni", "bi", "dg"}

\* "relay" is Connect on a bi stream and Packet elsewhere; "badauth" carries a wrong
\* token; "other" is all that leaves the flag alone (Dissociate, Heartbeat, garbage);
\* "partial" is a stream the client has not finished.
Commands == {"relay", "auth", "badauth", "other", "partial"}

Cmds == [uni |-> UniCmds, bi |-> BiCmds, dg |-> DgCmds]

ASSUME CmdsAssumption == /\ UniCmds \subseteq Commands
                         /\ BiCmds \subseteq {"relay"}
                         /\ DgCmds \subseteq {"relay", "other"}
ASSUME TimeAssumption == AuthTimeout \in Nat \ {0} /\ MaxSent \in Nat

VARIABLES
  inbox,          \* received and not yet accepted, in order, for each loop
  sent,           \* commands sent so far to each loop
  authenticated,  \* the flag
  permit,         \* of the Notify: notify_one found nobody waiting
  pc,             \* where each loop is
  left,           \* ticks left of each wait
  closed,         \* "open", or why the connection is closed
  relayed         \* history: loops that have relayed something

vars == <<inbox, sent, authenticated, permit, pc, left, closed, relayed>>

Init ==
  /\ inbox = [l \in Loops |-> <<>>] /\ sent = [l \in Loops |-> 0]
  /\ authenticated = FALSE /\ permit = FALSE
  /\ pc = [l \in Loops |-> "accept"] /\ left = [l \in Loops |-> 0]
  /\ closed = "open" /\ relayed = {}

Goto(l, label) == pc' = [pc EXCEPT ![l] = label]

-----------------------------------------------------------------------------
(* The client *)

Send(l) ==
  /\ closed = "open" /\ sent[l] < MaxSent
  /\ \E c \in Cmds[l] : inbox' = [inbox EXCEPT ![l] = Append(@, c)]
  /\ sent' = [sent EXCEPT ![l] = @ + 1]
  /\ UNCHANGED <<authenticated, permit, pc, left, closed, relayed>>

PeerClose ==
  /\ closed = "open" /\ closed' = "peer"
  /\ UNCHANGED <<inbox, sent, authenticated, permit, pc, left, relayed>>

-----------------------------------------------------------------------------
(* The loops of the server *)

Accepting(l) == pc[l] = "accept" /\ closed = "open" /\ inbox[l] # <<>>

Take(l) == inbox' = [inbox EXCEPT ![l] = Tail(@)]

\* Mutant: the flag is not looked at.
RelayUnasked(l) ==
  /\ Accepting(l) /\ Head(inbox[l]) = "relay"
  /\ Take(l) /\ relayed' = relayed \cup {l}
  /\ UNCHANGED <<sent, authenticated, permit, pc, left, closed>>

\* The flag is loaded: relay, or go and wait.
AcceptRelay(l) ==
  /\ Accepting(l) /\ Head(inbox[l]) = "relay"
  /\ Take(l)
  /\ \/ authenticated /\ relayed' = relayed \cup {l} /\ UNCHANGED pc
     \/ ~authenticated /\ Goto(l, "unauthenticated") /\ UNCHANGED relayed
  /\ UNCHANGED <<sent, authenticated, permit, left, closed>>

\* The flag is set first, the waiter woken after it.
AcceptAuth(l) ==
  /\ Accepting(l) /\ Head(inbox[l]) = "auth"
  /\ Take(l)
  /\ authenticated' = TRUE
  /\ Goto(l, "notify")
  /\ UNCHANGED <<sent, permit, left, closed, relayed>>

\* Mutant: a refused authentication wakes the waiter too.
NotifyOnRefusal(l) ==
  /\ Accepting(l) /\ Head(inbox[l]) \in {"badauth", "other"}
  /\ Take(l)
  /\ Goto(l, IF Head(inbox[l]) = "badauth" THEN "notify" ELSE "accept")
  /\ UNCHANGED <<sent, authenticated, permit, left, closed, relayed>>

\* read_exact and read_to_end have no time limit: the loop waits for the rest.
AcceptPartial(l) ==
  /\ Accepting(l) /\ Head(inbox[l]) = "partial"
  /\ Take(l) /\ Goto(l, "reading")
  /\ UNCHANGED <<sent, authenticated, permit, left, closed, relayed>>

\* The rest comes, and makes it a command.
Rest(l) ==
  /\ pc[l] = "reading" /\ closed = "open"
  /\ \E c \in Cmds[l] \ {"partial"} : inbox' = [inbox EXCEPT ![l] = <<c>> \o @]
  /\ Goto(l, "accept")
  /\ UNCHANGED <<sent, authenticated, permit, left, closed, relayed>>

\* The connection is closed: reading fails, and the loop goes on to accept.
ReadFails(l) ==
  /\ pc[l] = "reading" /\ closed # "open"
  /\ Goto(l, "accept")
  /\ UNCHANGED <<inbox, sent, authenticated, permit, left, closed, relayed>>

AcceptOther(l) ==
  /\ Accepting(l) /\ Head(inbox[l]) \in {"badauth", "other"}
  /\ Take(l)
  /\ UNCHANGED <<sent, authenticated, permit, pc, left, closed, relayed>>

\* Mutant: notify_waiters, which leaves no permit.
NotifyWaiters(l) ==
  /\ pc[l] = "notify"
  /\ pc' = [w \in Loops |-> IF w = l THEN "accept"
                            ELSE IF pc[w] = "waiting" THEN "woken" ELSE pc[w]]
  /\ UNCHANGED <<inbox, sent, authenticated, permit, left, closed, relayed>>

\* notify_one wakes one of the waiting tasks (the first in fact), or leaves a permit
\* for the next to come.
NotifyOne(l) ==
  /\ pc[l] = "notify"
  /\ \/ \E w \in Loops : /\ pc[w] = "waiting"
                         /\ pc' = [pc EXCEPT ![l] = "accept", ![w] = "woken"]
                         /\ UNCHANGED permit
     \/ /\ \A w \in Loops : pc[w] # "waiting"
        /\ permit' = TRUE /\ Goto(l, "accept")
  /\ UNCHANGED <<inbox, sent, authenticated, left, closed, relayed>>

\* The first poll of timeout(AUTH_TIMEOUT, notified()).
Wait(l) ==
  /\ pc[l] = "unauthenticated"
  /\ \/ permit /\ permit' = FALSE /\ Goto(l, "woken") /\ UNCHANGED left
     \/ ~permit /\ Goto(l, "waiting") /\ left' = [left EXCEPT ![l] = AuthTimeout]
        /\ UNCHANGED permit
  /\ UNCHANGED <<inbox, sent, authenticated, closed, relayed>>

\* The flag is loaded again: the bi stream loop returns without it, the others drop
\* the command.
Woken(l) ==
  /\ pc[l] = "woken"
  /\ \/ authenticated /\ relayed' = relayed \cup {l} /\ Goto(l, "accept")
     \/ ~authenticated /\ Goto(l, IF l = "bi" THEN "ended" ELSE "accept")
        /\ UNCHANGED relayed
  /\ UNCHANGED <<inbox, sent, authenticated, permit, left, closed>>

\* Mutant: the loop waits once more.
WaitAgain(l) ==
  /\ pc[l] = "waiting" /\ left[l] = 0
  /\ left' = [left EXCEPT ![l] = AuthTimeout]
  /\ UNCHANGED <<inbox, sent, authenticated, permit, pc, closed, relayed>>

\* "authentication timeout": the loop closes the connection and returns.
TimedOut(l) ==
  /\ pc[l] = "waiting" /\ left[l] = 0
  /\ closed' = IF closed = "open" THEN "timeout" ELSE closed
  /\ Goto(l, "ended")
  /\ UNCHANGED <<inbox, sent, authenticated, permit, left, relayed>>

\* Accepting fails once the connection is closed.
AcceptFails(l) ==
  /\ pc[l] = "accept" /\ closed # "open"
  /\ Goto(l, "ended")
  /\ UNCHANGED <<inbox, sent, authenticated, permit, left, closed, relayed>>

Step(l) ==
  \/ AcceptRelay(l) \/ AcceptAuth(l) \/ AcceptOther(l) \/ NotifyOne(l)
  \/ AcceptPartial(l) \/ ReadFails(l) \/ Wait(l) \/ Woken(l) \/ TimedOut(l) \/ AcceptFails(l)

\* A loop that has a step to make at once.
Ready(l) ==
  \/ Accepting(l)
  \/ pc[l] \in {"unauthenticated", "notify", "woken"}
  \/ pc[l] = "waiting" /\ left[l] = 0
  \/ pc[l] \in {"accept", "reading"} /\ closed # "open"

Tick ==
  /\ \E l \in Loops : pc[l] = "waiting"
  /\ \A l \in Loops : ~Ready(l)
  /\ left' = [l \in Loops |-> IF pc[l] = "waiting" THEN left[l] - 1 ELSE left[l]]
  /\ UNCHANGED <<inbox, sent, authenticated, permit, pc, closed, relayed>>

Next ==
  \/ \E l \in Loops : Send(l) \/ Rest(l) \/ Step(l)
  \/ PeerClose \/ Tick

\* The loops are tasks the runtime polls when they are ready; time passes.  Nothing
\* is asked of the client.
Fairness == (\A l \in Loops : WF_vars(Step(l))) /\ WF_vars(Tick)

Spec     == Init /\ [][Next]_vars
FairSpec == Spec /\ Fairness

-----------------------------------------------------------------------------

\* The flag, the positions and the countdowns have their types.
TypeOK ==
  /\ inbox \in [Loops -> Seq(Commands)] /\ sent \in [Loops -> Nat]
  /\ authenticated \in BOOLEAN /\ permit \in BOOLEAN
  /\ pc \in [Loops -> {"accept", "reading", "unauthenticated", "waiting", "woken", "notify", "ended"}]
  /\ left \in [Loops -> 0 .. AuthTimeout]
  /\ closed \in {"open", "peer", "timeout"}
  /\ relayed \subseteq Loops

\* Nothing is relayed for a client that has not authenticated, although each loop
\* decides by itself, on a flag it loaded earlier or after a wake-up (handle_conn,
\* uni_stream_loop, datagram_loop).
RelayedAuthenticated == relayed # {} => authenticated

\* No loop of an open connection has returned: a wake-up is never seen before the
\* flag it is about, which would end the bi stream loop of a connection that stays
\* open (the order of store and notify_one in uni_stream_loop).
LoopsAlive == closed = "open" => \A l \in Loops : pc[l] # "ended"

\* A wake-up is never lost: of the two loops that can be waiting when the authentication
\* is over, at least one has been woken, the permit making up for a loop that loaded
\* the flag just before (notify_one in uni_stream_loop).
OneForgotten ==
  authenticated /\ pc["uni"] # "notify" => \E l \in {"bi", "dg"} : pc[l] # "waiting"

\* A loop that has accepted a command to relay relays it or sees the end of the
\* connection; it does not hang (AUTH_TIMEOUT), not even while the loop that alone can
\* authenticate reads a stream that never ends.
WaitsEnd ==
  \A l \in Loops :
    pc[l] \in {"unauthenticated", "waiting"} ~> pc[l] \notin {"unauthenticated", "waiting"}
=============================================================================
