------------------------------ MODULE AdminApi ------------------------------
(***************************************************************************)
(* What the admin API promises of its writers, when it is given one request *)
(* at a time: a change is one step.  It is acknowledged, and then it is     *)
(* saved, used and served as a whole; or it is refused, or lost with the    *)
(* process, and then it has never been.                                     *)
(***************************************************************************)
EXTENDS Inbounds

CONSTANTS Reqs,        \* admin requests, each made at most once
          Ops,         \* what the requests ask for
          InitConfig   \* the configuration to begin with

NotAsked == [kind |-> "none"]

VARIABLES
  committed,  \* the configuration: what the next start will use
  current,    \* << what is used and served >>, or << >> while the program is busy or down
  op, answer  \* of each request

vars == <<committed, current, op, answer>>

Init ==
  /\ committed = InitConfig /\ current = <<>>
  /\ op = [r \in Reqs |-> NotAsked] /\ answer = [r \in Reqs |-> "none"]

Pending(r) == op[r] # NotAsked /\ answer[r] = "none"

Ready == current' = <<committed'>>

\* An inbound without a port is given one.
WithPort(inb) ==
  IF inb.port = 0 /\ inb.assigned = None
  THEN {[inb EXCEPT !.assigned = p] : p \in Ports} ELSE {inb}

\* What an operation may make of a configuration: an inbound keeps its place and its
\* name, the others keep everything.
Changed(s, o) ==
  CASE o.kind = "add"    -> {Append(s, inb) : inb \in WithPort(o.node)}
    [] o.kind = "update" -> {[s EXCEPT ![InboundIndex(s, o.name)] = [inb EXCEPT !.name = o.name]] :
                                inb \in WithPort(o.node)}
    [] o.kind = "delete" -> {RemoveAt(s, InboundIndex(s, o.name))}

Outcomes(r) ==
  LET o == op[r]
  IN  CASE o.kind = "regenerate" -> {[committed EXCEPT !.sub = r]}
        [] o.kind = "account"    -> {[committed EXCEPT !.acct = r]}
        [] OTHER -> {[committed EXCEPT !.inbounds = s] : s \in Changed(committed.inbounds, o)}

\* Whether the request can be met at all.
Meaningful(r) ==
  LET o == op[r]
      s == committed.inbounds
  IN  /\ o.kind = "add" => ~HasName(s, o.node.name)
      /\ o.kind \in {"update", "delete"} => HasName(s, o.name)
      /\ o.kind = "account" => o.old = committed.acct

-----------------------------------------------------------------------------

Ask(r) ==
  /\ current # <<>> /\ op[r] = NotAsked
  /\ \E o \in Ops : op' = [op EXCEPT ![r] = o]
  /\ current' = <<>>
  /\ UNCHANGED <<committed, answer>>

Commit(r) ==
  /\ Pending(r) /\ Meaningful(r)
  /\ committed' \in Outcomes(r) /\ Valid(committed'.inbounds)
  /\ answer' = [answer EXCEPT ![r] = "200"]
  /\ Ready
  /\ UNCHANGED op

\* Ports, contents and the disk may stand against any request; a name or a password is
\* said to be wrong only if it is.
Refuse(r) ==
  /\ Pending(r)
  /\ \E a \in {"401", "404", "409", "422", "500"} :
       /\ a = "401" => op[r].kind = "account" /\ ~Meaningful(r)
       /\ a = "404" => op[r].kind \in {"update", "delete"} /\ ~Meaningful(r)
       /\ answer' = [answer EXCEPT ![r] = a]
  /\ Ready
  /\ UNCHANGED <<committed, op>>

\* The process ends: a request in hand is lost with it, and leaves no trace.
Stop ==
  /\ current # <<>> \/ \E r \in Reqs : Pending(r)
  /\ answer' = [r \in Reqs |-> IF Pending(r) THEN "lost" ELSE answer[r]]
  /\ current' = <<>>
  /\ UNCHANGED <<committed, op>>

\* It is up again.
Recover ==
  /\ current = <<>> /\ \A r \in Reqs : ~Pending(r)
  /\ Ready
  /\ UNCHANGED <<committed, op, answer>>

Next ==
  \/ \E r \in Reqs : Ask(r) \/ Commit(r) \/ Refuse(r)
  \/ Stop \/ Recover

\* A request in hand is answered, or lost with the process.
Answers == \A r \in Reqs : Pending(r) ~> ~Pending(r)

Spec == Init /\ [][Next]_vars /\ Answers
=============================================================================
