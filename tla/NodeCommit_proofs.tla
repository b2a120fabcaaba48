-------------------------- MODULE NodeCommit_proofs --------------------------
(***************************************************************************)
(* Proofs about NodeCommit, for every set of requests, names and ports and *)
(* any number of requests in flight; and the refinement of AdminApi.       *)
(***************************************************************************)
EXTENDS AdminRefinement, SequenceTheorems, FiniteSetTheorems, TLAPS

\* What validate has checked of a list of inbounds, except for its ports.
Checked(s) ==
  /\ DistinctNames(s)
  /\ \A i \in DOMAIN s : s[i].tag \notin InvalidTags

\* Every copy a handler holds has been checked, not only what is stored.
CopiesChecked ==
  \A p \in Procs : Checked(next[p].inbounds) /\ Checked(prev[p].inbounds)

\* A handler runs with the operation it was called with.
OpMatches ==
  \A r \in Reqs :
    /\ pc[r] \in {"add", "update", "delete", "regenerate", "account"} => op[r].kind = pc[r]
    /\ pc[r] = "clone" => op[r].kind = "add"

\* A listener between its bind and handles.insert, and a probe, hold their socket.
Pending(p) ==
  /\ pc[p] \in {"bind", "register", "listening"} => loop[p].at \in DOMAIN work[p]
  /\ pc[p] = "register" => /\ Socket(Inb(p)) \in Sockets
                           /\ owner[Socket(Inb(p))] = BoundBy(p)
  /\ pc[p] = "probing" => /\ loop[p].at \in DOMAIN next[p].inbounds
                          /\ Socket(Candidate(p)) \in Sockets
                          /\ owner[Socket(Candidate(p))] = Probe(p)

PendingOwned == \A p \in Procs : Pending(p)

IInv == TypeOK /\ HandlesLive /\ StoredChecked /\ CopiesChecked /\ OpMatches /\ PendingOwned

-----------------------------------------------------------------------------
(* Lists of inbounds *)

\* A bound inbound has a socket.
LEMMA SocketType ==
  ASSUME NEW inb \in Inbound, EffectivePort(inb) # 0
  PROVE  Socket(inb) \in Sockets
  BY DEF Inbound, EffectivePort, Socket, Sockets

LEMMA EffectivePortType ==
  ASSUME NEW inb \in Inbound
  PROVE  EffectivePort(inb) \in Ports \cup {0}
  BY DEF Inbound, EffectivePort

LEMMA InboundIndexType ==
  ASSUME NEW s, NEW n, HasName(s, n)
  PROVE  InboundIndex(s, n) \in DOMAIN s /\ s[InboundIndex(s, n)].name = n
  BY DEF HasName, InboundIndex

\* Only the assigned port of some elements differs.
SameButPorts(s, t) ==
  /\ s \in InboundList /\ t \in InboundList /\ DOMAIN t = DOMAIN s
  /\ \A i \in DOMAIN s : t[i].name = s[i].name /\ t[i].tag = s[i].tag

LEMMA SameButPortsChecked ==
  ASSUME NEW s, NEW t, SameButPorts(s, t), Checked(s)
  PROVE  Checked(t)
  BY DEF SameButPorts, Checked, DistinctNames

\* assign_missing_ports changes nothing but assigned ports.
LEMMA AssignmentsType ==
  ASSUME NEW s \in InboundList, NEW free, NEW t \in Assignments(s, free)
  PROVE  SameButPorts(s, t)
<1>1. PICK f \in [Missing(s) -> Ports] :
        t = [i \in DOMAIN s |-> IF i \in Missing(s) THEN [s[i] EXCEPT !.assigned = f[i]]
                                                   ELSE s[i]]
  BY DEF Assignments
<1>2. ASSUME NEW i \in DOMAIN s
      PROVE  t[i] \in Inbound /\ t[i].name = s[i].name /\ t[i].tag = s[i].tag
  <2>1. s[i] \in Inbound
    BY DEF InboundList
  <2>2. CASE i \in Missing(s)
    BY <1>1, <2>1, <2>2 DEF Inbound
  <2>3. CASE i \notin Missing(s)
    BY <1>1, <2>1, <2>3
  <2> QED
    BY <2>2, <2>3
<1>3. t \in Seq(Inbound) /\ DOMAIN t = DOMAIN s
  <2>1. DOMAIN s = 1 .. Len(s) /\ Len(s) \in Nat
    BY DEF InboundList
  <2>2. t \in [1 .. Len(s) -> Inbound]
    BY <1>1, <1>2, <2>1
  <2> QED
    BY <2>1, <2>2, SeqDef
<1> QED
  BY <1>2, <1>3 DEF SameButPorts, InboundList

\* reassign_auto_port changes nothing but the assigned port of one element.
LEMMA ReassignmentsType ==
  ASSUME NEW s \in InboundList, NEW i \in DOMAIN s, NEW free,
         NEW t \in Reassignments(s, i, free)
  PROVE  SameButPorts(s, t)
<1>1. PICK p \in Ports : t = [s EXCEPT ![i].assigned = p]
  BY DEF Reassignments
<1>2. \A j \in DOMAIN s : s[j] \in Inbound
  BY DEF InboundList
<1>3. [s[i] EXCEPT !.assigned = p] \in Inbound
  BY <1>2 DEF Inbound
<1>4. t = [s EXCEPT ![i] = [s[i] EXCEPT !.assigned = p]]
  BY <1>1
<1>5. t \in Seq(Inbound) /\ DOMAIN t = DOMAIN s
  BY <1>3, <1>4 DEF InboundList
<1> QED
  BY <1>2, <1>4, <1>5 DEF SameButPorts, InboundList, Inbound

\* The merge in spawn_all changes nothing but assigned ports.
LEMMA MergePortsType ==
  ASSUME NEW s \in InboundList, NEW w \in InboundList
  PROVE  SameButPorts(s, MergePorts(s, w))
<1> DEFINE t == MergePorts(s, w)
<1>1. ASSUME NEW i \in DOMAIN s
      PROVE  t[i] \in Inbound /\ t[i].name = s[i].name /\ t[i].tag = s[i].tag
  <2>1. s[i] \in Inbound
    BY DEF InboundList
  <2>2. CASE HasName(w, s[i].name)
    <3>1. w[InboundIndex(w, s[i].name)] \in Inbound
      BY <2>2, InboundIndexType DEF InboundList
    <3> QED
      BY <2>1, <2>2, <3>1 DEF MergePorts, Inbound
  <2>3. CASE ~HasName(w, s[i].name)
    BY <2>1, <2>3 DEF MergePorts
  <2> QED
    BY <2>2, <2>3
<1>2. t \in Seq(Inbound) /\ DOMAIN t = DOMAIN s
  <2>1. DOMAIN s = 1 .. Len(s) /\ Len(s) \in Nat
    BY DEF InboundList
  <2>2. t \in [1 .. Len(s) -> Inbound]
    BY <1>1, <2>1 DEF MergePorts
  <2> QED
    BY <2>1, <2>2, SeqDef
<1> QED
  BY <1>1, <1>2 DEF SameButPorts, InboundList

\* The list after a deletion.
LEMMA RemoveAtType ==
  ASSUME NEW s \in InboundList, NEW i \in DOMAIN s
  PROVE  RemoveAt(s, i) \in InboundList
<1>1. i \in 1 .. Len(s) /\ Len(s) \in Nat
  BY DEF InboundList
<1>2. SubSeq(s, 1, i - 1) \in Seq(Inbound) /\ SubSeq(s, i + 1, Len(s)) \in Seq(Inbound)
  BY <1>1 DEF InboundList
<1> QED
  BY <1>2 DEF RemoveAt, InboundList

LEMMA ValidChecked ==
  ASSUME NEW s, Valid(s)
  PROVE  Checked(s)
  BY DEF Valid, Checked

-----------------------------------------------------------------------------
(* What a step leaves alone *)

USE DEF program, store, live, local, Goto

\* The locals spawn_all starts with.
LEMMA LocalsType == NoLoop \in Loops /\ <<>> \in InboundList
<1>1. NoLoop \in Loops
  BY RetriesAssumption, SMTT(20) DEF NoLoop, Loops
<1> QED
  BY <1>1 DEF InboundList

\* The other tasks' locals and positions are untouched.
Frame(r) ==
  \A p \in Procs \ {r} :
    /\ pc'[p] = pc[p] /\ loop'[p] = loop[p] /\ work'[p] = work[p]
    /\ next'[p] = next[p] /\ prev'[p] = prev[p]

\* No socket in the hands of another task changes hands.
KeepsPending(r) ==
  \A p \in Procs \ {r}, s \in Sockets :
    owner[s] \in {BoundBy(p), Probe(p)} => owner'[s] = owner[s]

LEMMA PendingFrame ==
  ASSUME PendingOwned, NEW r \in Procs, Frame(r), KeepsPending(r), Pending(r)'
  PROVE  PendingOwned'
<1> SUFFICES ASSUME NEW p \in Procs \ {r}
             PROVE  Pending(p)'
  BY DEF PendingOwned
<1>1. /\ pc'[p] = pc[p] /\ loop'[p] = loop[p] /\ work'[p] = work[p]
      /\ next'[p] = next[p]
  BY DEF Frame
<1>2. Inb(p)' = Inb(p) /\ Candidate(p)' = Candidate(p)
  BY <1>1 DEF Inb, Candidate
<1>3. Pending(p)
  BY DEF PendingOwned
<1>4. Socket(Inb(p))' = Socket(Inb(p)) /\ Socket(Candidate(p))' = Socket(Candidate(p))
  BY <1>2 DEF Socket, EffectivePort
<1>5. pc[p] = "register" => owner'[Socket(Inb(p))] = BoundBy(p)
  BY <1>3 DEF Pending, KeepsPending
<1>6. pc[p] = "probing" => owner'[Socket(Candidate(p))] = Probe(p)
  BY <1>3 DEF Pending, KeepsPending
<1> QED
  BY <1>1, <1>3, <1>4, <1>5, <1>6 DEF Pending, BoundBy, Probe

\* The listeners the handles are for keep their sockets.
LEMMA HandlesFrame ==
  ASSUME TypeOK, HandlesLive, UNCHANGED handles,
         \A s \in Sockets : owner[s].kind = "listen" => owner'[s] = owner[s]
  PROVE  HandlesLive'
<1> SUFFICES ASSUME NEW n \in Names, handles[n] # None
             PROVE  owner'[handles[n]].kind = "listen" /\ owner'[handles[n]].name = n
  BY DEF HandlesLive
<1>1. handles[n] \in Sockets
  BY DEF TypeOK
<1> QED
  BY <1>1 DEF HandlesLive

-----------------------------------------------------------------------------
(* The steps of a handler up to the call of commit_config *)

\* A handler that answers leaves the rest as it was, but for what it stored.
LEMMA ReplyStep ==
  ASSUME IInv, NEW r \in Reqs, NEW a \in Answers, Reply(r, a),
         UNCHANGED <<program, live, op>>,
         owner' \in [Sockets -> Holder], KeepsPending(r),
         \A s \in Sockets : owner[s].kind = "listen" => owner'[s] = owner[s],
         \A c \in {config', disk', promised'} : c \in Config,
         \A c \in {config', disk'} : Checked(c.inbounds)
  PROVE  IInv'
<1>1. TypeOK'
  <2>1. next' \in [Procs -> Config] /\ prev' \in [Procs -> Config]
    BY InitAssumption DEF IInv, TypeOK, Reply
  <2>2. work' \in [Procs -> InboundList] /\ loop' \in [Procs -> Loops]
    BY LocalsType DEF IInv, TypeOK, Reply
  <2>3. fin' \in [Procs -> {"boot", "commit", "undo"}] /\ code' \in [Procs -> {"none", "409", "500"}]
    BY DEF IInv, TypeOK, Reply
  <2>4. pc' \in [Procs -> Labels] /\ answer' \in [Procs -> Answers]
    BY DEF IInv, TypeOK, Reply, Labels
  <2> QED
    BY <2>1, <2>2, <2>3, <2>4 DEF IInv, TypeOK
<1>2. HandlesLive'
  BY HandlesFrame DEF IInv
<1>3. StoredChecked' /\ OpMatches'
  BY DEF IInv, TypeOK, StoredChecked, OpMatches, Reply, Checked, Procs
<1>4. CopiesChecked'
  <2>1. Checked(InitConfig.inbounds)
    BY InitAssumption, ValidChecked
  <2>2. ASSUME NEW p \in Procs
        PROVE  /\ next'[p] = next[p] \/ next'[p] = InitConfig
               /\ prev'[p] = prev[p] \/ prev'[p] = InitConfig
    BY DEF IInv, TypeOK, Reply
  <2> QED
    BY <2>1, <2>2 DEF IInv, CopiesChecked
<1>5. PendingOwned'
  <2>1. Frame(r) /\ r \in Procs
    BY DEF IInv, TypeOK, Reply, Frame, Procs
  <2>2. Pending(r)'
    BY <2>1 DEF IInv, TypeOK, Reply, Pending
  <2> QED
    BY <2>1, <2>2, PendingFrame DEF IInv
<1> QED
  BY <1>1, <1>2, <1>3, <1>4, <1>5 DEF IInv

\* The usual case: an error answer that stores nothing.
LEMMA RejectStep ==
  ASSUME IInv, NEW r \in Reqs, NEW a \in Answers, Reply(r, a),
         UNCHANGED <<program, store, owner, live, op>>
  PROVE  IInv'
<1>1. \A c \in {config', disk', promised'} : c \in Config
  BY DEF IInv, TypeOK
<1>2. \A c \in {config', disk'} : Checked(c.inbounds)
  BY DEF IInv, StoredChecked, Checked
<1>3. owner' \in [Sockets -> Holder] /\ KeepsPending(r)
  BY DEF IInv, TypeOK, KeepsPending
<1> QED
  BY <1>1, <1>2, <1>3, ReplyStep

\* A step of task r that only moves its pc and changes its locals.
LEMMA LocalStep ==
  ASSUME IInv, TypeOK', NEW r \in Procs, Frame(r),
         UNCHANGED <<program, store, owner, handles>>,
         CopiesChecked', OpMatches', Pending(r)'
  PROVE  IInv'
<1>1. HandlesLive' /\ StoredChecked'
  BY HandlesFrame DEF IInv, StoredChecked
<1>2. KeepsPending(r)
  BY DEF KeepsPending
<1> QED
  BY <1>1, <1>2, PendingFrame DEF IInv

LEMMA ArriveStep ==
  ASSUME IInv, NEW r \in Reqs, Arrive(r)
  PROVE  IInv'
<1> PICK o \in Ops : op' = [op EXCEPT ![r] = o] /\ pc' = [pc EXCEPT ![r] = o.kind]
  BY DEF Arrive
<1>1. o \in Operations /\ o.kind \in {"add", "update", "delete", "regenerate", "account"}
  BY OpsAssumption DEF Operations
<1>2. TypeOK'
  BY <1>1 DEF Arrive, IInv, TypeOK, Labels
<1>3. r \in Procs /\ Frame(r) /\ Pending(r)'
  BY <1>1 DEF Arrive, IInv, TypeOK, Frame, Pending, Procs
<1>4. OpMatches'
  BY <1>1, <1>3 DEF Arrive, IInv, TypeOK, OpMatches, Procs
<1>5. CopiesChecked'
  BY DEF Arrive, IInv, CopiesChecked
<1> QED
  BY <1>2, <1>3, <1>4, <1>5, LocalStep DEF Arrive

LEMMA AddCheckStep ==
  ASSUME IInv, NEW r \in Reqs, AddCheck(r)
  PROVE  IInv'
<1>1. CASE Reply(r, "409")
  BY <1>1, RejectStep DEF AddCheck, Answers
<1>2. CASE pc' = [pc EXCEPT ![r] = "clone"] /\ UNCHANGED <<local, answer>>
  <2>1. TypeOK'
    BY <1>2 DEF AddCheck, IInv, TypeOK, Labels
  <2>2. r \in Procs /\ Frame(r) /\ Pending(r)'
    BY <1>2 DEF AddCheck, IInv, TypeOK, Frame, Pending, Procs
  <2>3. CopiesChecked' /\ OpMatches'
    BY <1>2 DEF AddCheck, IInv, TypeOK, CopiesChecked, OpMatches, Procs
  <2> QED
    BY <1>2, <2>1, <2>2, <2>3, LocalStep DEF AddCheck
<1> QED
  BY <1>1, <1>2 DEF AddCheck

\* The candidate a handler hands to commit_config, if validate accepts it.
LEMMA SubmitStep ==
  ASSUME IInv, NEW r \in Reqs, NEW s \in InboundList, Submit(r, s),
         UNCHANGED <<program, store, owner, live, op>>
  PROVE  IInv'
<1>1. CASE Reply(r, "422")
  BY <1>1, RejectStep DEF Answers
<1>2. CASE /\ Valid(s)
           /\ next' = [next EXCEPT ![r] = [config EXCEPT !.inbounds = s]]
           /\ pc' = [pc EXCEPT ![r] = "previous"]
           /\ UNCHANGED <<prev, work, loop, fin, code, answer>>
  <2> DEFINE c == [config EXCEPT !.inbounds = s]
  <2>1. c \in Config /\ c.inbounds = s
    BY DEF IInv, TypeOK, Config
  <2>2. TypeOK'
    BY <1>2, <2>1 DEF IInv, TypeOK, Labels
  <2>3. r \in Procs /\ Frame(r) /\ Pending(r)'
    BY <1>2 DEF IInv, TypeOK, Frame, Pending, Procs
  <2>4. OpMatches'
    BY <1>2 DEF IInv, TypeOK, OpMatches, Procs
  <2>5. CopiesChecked'
    <3>1. Checked(c.inbounds)
      BY <1>2, <2>1, ValidChecked
    <3>2. \A p \in Procs : next'[p] = c \/ next'[p] = next[p]
      BY <1>2 DEF IInv, TypeOK
    <3> QED
      BY <1>2, <3>1, <3>2 DEF IInv, CopiesChecked
  <2> QED
    BY <1>2, <2>2, <2>3, <2>4, <2>5, LocalStep
<1> QED
  BY <1>1, <1>2 DEF Submit

LEMMA AssignAndSubmitStep ==
  ASSUME IInv, NEW r \in Reqs, NEW s \in InboundList, AssignAndSubmit(r, s),
         UNCHANGED <<program, store, owner, live, op>>
  PROVE  IInv'
<1>1. ASSUME NEW a \in Assignments(s, Free), Submit(r, a)
      PROVE  IInv'
  <2>1. a \in InboundList
    BY AssignmentsType DEF SameButPorts
  <2> QED
    BY <1>1, <2>1, SubmitStep
<1>2. CASE Reply(r, "422")
  BY <1>2, RejectStep DEF Answers
<1> QED
  BY <1>1, <1>2 DEF AssignAndSubmit

LEMMA AddCloneStep ==
  ASSUME IInv, NEW r \in Reqs, AddClone(r)
  PROVE  IInv'
<1>1. op[r].node \in Inbound
  <2>1. op[r] \in Operations \cup {NoOp} /\ op[r].kind = "add"
    BY DEF AddClone, IInv, TypeOK, OpMatches, Procs
  <2> QED
    BY <2>1 DEF Operations, NoOp
<1>2. Append(config.inbounds, op[r].node) \in InboundList
  BY <1>1 DEF IInv, TypeOK, Config, InboundList
<1> QED
  BY <1>2, AssignAndSubmitStep DEF AddClone

LEMMA UpdateCloneStep ==
  ASSUME IInv, NEW r \in Reqs, UpdateClone(r)
  PROVE  IInv'
<1> DEFINE n == op[r].name
           s == config.inbounds
           inb == [op[r].node EXCEPT !.name = n]
<1>1. n \in Names /\ inb \in Inbound
  <2>1. op[r] \in Operations \cup {NoOp} /\ op[r].kind = "update"
    BY DEF UpdateClone, IInv, TypeOK, OpMatches, Procs
  <2>2. op[r].name \in Names /\ op[r].node \in Inbound
    BY <2>1 DEF Operations, NoOp
  <2> QED
    BY <2>2 DEF Inbound
<1>2. s \in InboundList
  BY DEF IInv, TypeOK, Config
<1>3. CASE Reply(r, "404")
  BY <1>3, RejectStep DEF UpdateClone, Answers
<1>4. CASE HasName(s, n) /\ AssignAndSubmit(r, [s EXCEPT ![InboundIndex(s, n)] = inb])
  <2>1. InboundIndex(s, n) \in DOMAIN s
    BY <1>4, InboundIndexType
  <2>2. [s EXCEPT ![InboundIndex(s, n)] = inb] \in InboundList
    BY <1>1, <1>2, <2>1 DEF InboundList
  <2> QED
    BY <1>4, <2>2, AssignAndSubmitStep DEF UpdateClone
<1> QED
  BY <1>3, <1>4 DEF UpdateClone

LEMMA DeleteCloneStep ==
  ASSUME IInv, NEW r \in Reqs, DeleteClone(r)
  PROVE  IInv'
<1> DEFINE n == op[r].name
           s == config.inbounds
<1>1. s \in InboundList
  BY DEF IInv, TypeOK, Config
<1>2. CASE Reply(r, "404")
  BY <1>2, RejectStep DEF DeleteClone, Answers
<1>3. CASE HasName(s, n) /\ Submit(r, RemoveAt(s, InboundIndex(s, n)))
  <2>1. RemoveAt(s, InboundIndex(s, n)) \in InboundList
    BY <1>1, <1>3, InboundIndexType, RemoveAtType
  <2> QED
    BY <1>3, <2>1, SubmitStep DEF DeleteClone
<1> QED
  BY <1>2, <1>3 DEF DeleteClone

-----------------------------------------------------------------------------
(* The steps of commit_config *)

\* A step of task r that keeps the copies of the configuration.
LEMMA MoveStep ==
  ASSUME IInv, TypeOK', NEW r \in Procs, Frame(r), KeepsPending(r),
         UNCHANGED <<op, next, prev>>,
         pc'[r] \notin {"add", "clone", "update", "delete", "regenerate", "account"},
         HandlesLive', StoredChecked', Pending(r)'
  PROVE  IInv'
<1>1. OpMatches'
  BY DEF IInv, OpMatches, Frame, Procs
<1>2. CopiesChecked'
  BY DEF IInv, CopiesChecked
<1> QED
  BY <1>1, <1>2, PendingFrame DEF IInv

\* The same when sockets and stored configurations are also left alone.
LEMMA QuietStep ==
  ASSUME IInv, TypeOK', NEW r \in Procs, Frame(r),
         UNCHANGED <<store, owner, handles, op, next, prev>>,
         pc'[r] \notin {"add", "clone", "update", "delete", "regenerate", "account"}, Pending(r)'
  PROVE  IInv'
<1>1. HandlesLive' /\ StoredChecked' /\ KeepsPending(r)
  BY HandlesFrame DEF IInv, StoredChecked, KeepsPending
<1> QED
  BY <1>1, MoveStep

LEMMA ReadPreviousStep ==
  ASSUME IInv, NEW r \in Reqs, ReadPrevious(r)
  PROVE  IInv'
<1>1. TypeOK'
  BY LocalsType DEF ReadPrevious, IInv, TypeOK, Labels
<1>2. r \in Procs /\ Frame(r) /\ Pending(r)'
  BY DEF ReadPrevious, IInv, TypeOK, Frame, Pending, Procs
<1>3. OpMatches'
  BY DEF ReadPrevious, IInv, TypeOK, OpMatches, Procs
<1>4. CopiesChecked'
  <2>1. \A p \in Procs : prev'[p] = config \/ prev'[p] = prev[p]
    BY DEF ReadPrevious, IInv, TypeOK
  <2>2. Checked(config.inbounds)
    BY DEF IInv, StoredChecked, Checked
  <2> QED
    BY <2>1, <2>2 DEF ReadPrevious, IInv, CopiesChecked
<1> QED
  BY <1>1, <1>2, <1>3, <1>4, LocalStep DEF ReadPrevious

LEMMA AdvanceType ==
  ASSUME TypeOK, NEW r \in Procs, Advance(r)
  PROVE  loop' \in [Procs -> Loops]
<1>1. loop[r] \in Loops
  BY DEF TypeOK
<1>2. loop[r].at + 1 \in Nat \ {0}
  BY <1>1 DEF Loops
<1>3. [loop[r] EXCEPT !.at = loop[r].at + 1] \in Loops
  BY <1>1, <1>2, Zenon DEF Loops
<1> QED
  BY <1>3 DEF TypeOK, Advance

LEMMA PreflightPassStep ==
  ASSUME IInv, NEW r \in Reqs, PreflightPass(r)
  PROVE  IInv'
<1>1. r \in Procs
  BY DEF Procs
<1>2. TypeOK'
  BY <1>1, AdvanceType DEF PreflightPass, IInv, TypeOK
<1>3. Frame(r)
  BY <1>1 DEF PreflightPass, Advance, IInv, TypeOK, Frame
<1>4. pc'[r] = "preflight" /\ Pending(r)'
  BY DEF PreflightPass, Preflighting, Pending
<1> QED
  BY <1>1, <1>2, <1>3, <1>4, QuietStep DEF PreflightPass

LEMMA PreflightFailStep ==
  ASSUME IInv, NEW r \in Reqs, PreflightFail(r)
  PROVE  IInv'
  BY RejectStep DEF PreflightFail, Answers

LEMMA ProbeStartStep ==
  ASSUME IInv, NEW r \in Reqs, ProbeStart(r)
  PROVE  IInv'
<1> DEFINE s == Socket(Candidate(r))
<1>1. r \in Procs /\ s \in Sockets /\ owner[s] = FreeSock
  BY DEF ProbeStart, Procs, Free
<1>2. owner' = [owner EXCEPT ![s] = Probe(r)] /\ owner' \in [Sockets -> Holder]
  BY <1>1 DEF ProbeStart, IInv, TypeOK, Probe, Holder
<1>3. TypeOK'
  BY <1>2 DEF ProbeStart, IInv, TypeOK, Labels
<1>4. HandlesLive'
  BY <1>1, <1>2, HandlesFrame DEF ProbeStart, IInv, TypeOK, FreeSock
<1>5. StoredChecked'
  BY DEF ProbeStart, IInv, StoredChecked
<1>6. Frame(r) /\ KeepsPending(r)
  BY <1>1, <1>2 DEF ProbeStart, IInv, TypeOK, Frame, KeepsPending, FreeSock, BoundBy, Probe
<1>7. Pending(r)'
  <2>1. pc'[r] = "probing" /\ UNCHANGED <<loop, next>>
    BY <1>1 DEF ProbeStart, IInv, TypeOK
  <2>2. Candidate(r)' = Candidate(r) /\ s' = s
    BY <2>1 DEF Candidate, Socket, EffectivePort
  <2>3. owner'[s] = Probe(r)
    BY <1>1, <1>2 DEF IInv, TypeOK
  <2> QED
    BY <1>1, <2>1, <2>2, <2>3 DEF ProbeStart, Preflighting, Pending, Probe
<1> QED
  BY <1>1, <1>3, <1>4, <1>5, <1>6, <1>7, MoveStep DEF ProbeStart, IInv, TypeOK

LEMMA ProbeStopStep ==
  ASSUME IInv, NEW r \in Reqs, ProbeStop(r)
  PROVE  IInv'
<1> DEFINE s == Socket(Candidate(r))
<1> PICK h \in Released(s) :
      /\ owner' = [owner EXCEPT ![s] = h]
      /\ \/ /\ pc' = [pc EXCEPT ![r] = "preflight"] /\ Advance(r)
            /\ UNCHANGED <<next, prev, work, fin, code, answer>>
         \/ h = Closing /\ Reply(r, "409")
  BY DEF ProbeStop
<1>1. r \in Procs /\ s \in Sockets /\ owner[s] = Probe(r)
  BY DEF ProbeStop, IInv, PendingOwned, Pending, Procs
<1>2. owner' \in [Sockets -> Holder]
  <2>1. h \in Holder
    BY DEF Released, FreeSock, Closing, Holder
  <2> QED
    BY <2>1 DEF IInv, TypeOK
<1>3. KeepsPending(r)
  BY <1>1 DEF IInv, TypeOK, KeepsPending, BoundBy, Probe
<1>4. \A q \in Sockets : owner[q].kind = "listen" => owner'[q] = owner[q]
  BY <1>1 DEF IInv, TypeOK, Probe
<1>5. CASE Reply(r, "409")
  <2>1. \A c \in {config', disk', promised'} : c \in Config
    BY DEF ProbeStop, IInv, TypeOK
  <2>2. \A c \in {config', disk'} : Checked(c.inbounds)
    BY DEF ProbeStop, IInv, StoredChecked, Checked
  <2> QED
    BY <1>2, <1>3, <1>4, <1>5, <2>1, <2>2, ReplyStep DEF ProbeStop, Answers
<1>6. CASE /\ pc' = [pc EXCEPT ![r] = "preflight"] /\ Advance(r)
           /\ UNCHANGED <<next, prev, work, fin, code, answer>>
  <2>1. TypeOK'
    BY <1>1, <1>2, <1>6, AdvanceType DEF ProbeStop, IInv, TypeOK, Labels
  <2>2. HandlesLive' /\ StoredChecked'
    BY <1>4, HandlesFrame DEF ProbeStop, IInv, StoredChecked
  <2>3. Frame(r) /\ pc'[r] = "preflight" /\ Pending(r)'
    BY <1>1, <1>6 DEF Advance, IInv, TypeOK, Frame, Pending
  <2> QED
    BY <1>1, <1>3, <1>6, <2>1, <2>2, <2>3, MoveStep DEF ProbeStop
<1> QED
  BY <1>5, <1>6

\* Install and Undo put a checked copy in the place of the configuration.
LEMMA InstallStep ==
  ASSUME IInv, NEW r \in Reqs, Install(r) \/ Undo(r)
  PROVE  IInv'
<1>1. r \in Procs /\ (config' = next[r] \/ config' = prev[r])
  BY DEF Install, Undo, Procs
<1>2. TypeOK'
  BY <1>1 DEF Install, Undo, IInv, TypeOK, Labels
<1>3. HandlesLive'
  BY HandlesFrame DEF Install, Undo, IInv
<1>4. StoredChecked'
  BY <1>1 DEF Install, Undo, IInv, StoredChecked, CopiesChecked, Checked
<1>5. Frame(r) /\ KeepsPending(r) /\ pc'[r] = "stop" /\ Pending(r)'
  BY <1>1 DEF Install, Undo, IInv, TypeOK, Frame, KeepsPending, Pending
<1> QED
  BY <1>1, <1>2, <1>3, <1>4, <1>5, MoveStep DEF Install, Undo

LEMMA SaveStep ==
  ASSUME IInv, NEW r \in Reqs, Save(r)
  PROVE  IInv'
<1>1. /\ disk' \in {disk, config} /\ UNCHANGED <<program, config, owner, live, op>>
      /\ \/ promised' = config /\ Reply(r, "200")
         \/ /\ pc' = [pc EXCEPT ![r] = "undo"] /\ code' = [code EXCEPT ![r] = "500"]
            /\ UNCHANGED <<promised, next, prev, work, loop, fin, answer>>
  BY DEF Save
<1>2. \A c \in {config', disk'} : c \in Config /\ Checked(c.inbounds)
  BY <1>1 DEF IInv, TypeOK, StoredChecked, Checked
<1>3. KeepsPending(r) /\ owner' \in [Sockets -> Holder]
  BY <1>1 DEF KeepsPending, IInv, TypeOK
<1>4. CASE promised' = config /\ Reply(r, "200")
  BY <1>1, <1>2, <1>3, <1>4, ReplyStep DEF Answers
<1>5. CASE /\ pc' = [pc EXCEPT ![r] = "undo"] /\ code' = [code EXCEPT ![r] = "500"]
           /\ UNCHANGED <<promised, next, prev, work, loop, fin, answer>>
  <2>1. TypeOK'
    BY <1>1, <1>2, <1>5 DEF IInv, TypeOK, Labels
  <2>2. HandlesLive'
    BY <1>1, HandlesFrame DEF IInv
  <2>3. StoredChecked'
    BY <1>2 DEF StoredChecked, Checked
  <2>4. r \in Procs /\ Frame(r) /\ pc'[r] = "undo" /\ Pending(r)'
    BY <1>5 DEF IInv, TypeOK, Frame, Pending, Procs
  <2> QED
    BY <1>1, <1>3, <1>5, <2>1, <2>2, <2>3, <2>4, MoveStep
<1> QED
  BY <1>1, <1>4, <1>5

-----------------------------------------------------------------------------
(* The steps of stop_all and spawn_all *)

LEMMA StopStep ==
  ASSUME IInv, NEW p \in Procs, Stop(p)
  PROVE  IInv'
<1> DEFINE mine == {handles[n] : n \in Names} \ {None}
<1> PICK left \in SUBSET (mine \cap Linger) :
      owner' = [s \in Sockets |-> IF s \in left THEN Closing
                                  ELSE IF s \in mine THEN FreeSock ELSE owner[s]]
  BY DEF Stop
<1>1. pc'[p] \in {"clear", "dropclear"} /\ pc' \in [Procs -> Labels]
  BY DEF Stop, IInv, TypeOK, Labels
<1>2. owner' \in [Sockets -> Holder]
  <2>1. FreeSock \in Holder /\ Closing \in Holder
    BY DEF FreeSock, Closing, Holder
  <2> QED
    BY <2>1 DEF IInv, TypeOK
<1>3. TypeOK'
  BY <1>1, <1>2 DEF Stop, IInv, TypeOK
<1>4. HandlesLive' /\ StoredChecked'
  BY DEF Stop, HandlesLive, IInv, StoredChecked
<1>5. KeepsPending(p)
  <2>1. \A s \in mine : owner[s].kind = "listen"
    BY DEF IInv, HandlesLive
  <2>2. \A s \in Sockets \ mine : owner'[s] = owner[s]
    OBVIOUS
  <2> QED
    BY <2>1, <2>2 DEF KeepsPending, BoundBy, Probe
<1>6. Frame(p) /\ Pending(p)'
  BY <1>1 DEF Stop, IInv, TypeOK, Frame, Pending
<1> QED
  BY <1>1, <1>3, <1>4, <1>5, <1>6, MoveStep DEF Stop

LEMMA ClearStep ==
  ASSUME IInv, NEW p \in Procs, Clear(p)
  PROVE  IInv'
<1>1. pc'[p] \in {"return", "exit", "spawn"} /\ pc' \in [Procs -> Labels]
  BY DEF Clear, IInv, TypeOK, Labels
<1>2. TypeOK'
  BY <1>1 DEF Clear, IInv, TypeOK
<1>3. Frame(p) /\ Pending(p)'
  BY <1>1 DEF Clear, IInv, TypeOK, Frame, Pending
<1> QED
  BY <1>1, <1>2, <1>3, QuietStep DEF Clear

LEMMA SpawnCloneStep ==
  ASSUME IInv, NEW p \in Procs, SpawnClone(p)
  PROVE  IInv'
<1>1. TypeOK'
  BY LocalsType DEF SpawnClone, IInv, TypeOK, Config, Labels
<1>2. Frame(p) /\ pc'[p] = "begin" /\ Pending(p)'
  BY DEF SpawnClone, IInv, TypeOK, Frame, Pending
<1> QED
  BY <1>1, <1>2, QuietStep DEF SpawnClone

\* The inbound spawn_all is at.
LEMMA InbType ==
  ASSUME TypeOK, NEW p \in Procs, loop[p].at \in DOMAIN work[p]
  PROVE  Inb(p) \in Inbound /\ Inb(p).name \in Names /\ Inb(p).tag \in Tags
<1>1. Inb(p) \in Inbound
  BY DEF TypeOK, Inb, InboundList
<1> QED
  BY <1>1 DEF Inbound

LEMMA BeginStep ==
  ASSUME IInv, NEW p \in Procs, Begin(p)
  PROVE  IInv'
<1> DEFINE port == EffectivePort(Inb(p))
<1>1. Inb(p) \in Inbound /\ Inb(p).name \in Names /\ port \in Ports \cup {0}
  BY InbType, EffectivePortType DEF Begin, IInv
<1>2. loop' \in [Procs -> Loops]
  <2>1. loop[p] \in Loops /\ 0 \in 0 .. Retries
    BY RetriesAssumption DEF IInv, TypeOK
  <2>2. [loop[p] EXCEPT !.first = port, !.tries = 0] \in Loops
    BY <1>1, <2>1, Zenon DEF Loops
  <2> QED
    BY <2>2 DEF Begin, IInv, TypeOK
<1>3. TypeOK'
  BY <1>1, <1>2 DEF Begin, IInv, TypeOK, Labels
<1>4. Frame(p) /\ pc'[p] = "bind" /\ loop'[p].at = loop[p].at /\ work' = work
  BY DEF Begin, IInv, TypeOK, Frame, Loops
<1>5. Pending(p)'
  BY <1>4 DEF Begin, Pending
<1> QED
  BY <1>3, <1>4, <1>5, QuietStep DEF Begin

LEMMA BindStep ==
  ASSUME IInv, NEW p \in Procs, Bind(p)
  PROVE  IInv'
<1> DEFINE s == Socket(Inb(p))
<1>1. s \in Sockets /\ owner[s] = FreeSock /\ loop[p].at \in DOMAIN work[p]
  BY DEF Bind, Free, IInv, PendingOwned, Pending
<1>2. owner' = [owner EXCEPT ![s] = BoundBy(p)] /\ owner' \in [Sockets -> Holder]
  BY <1>1 DEF Bind, IInv, TypeOK, BoundBy, Holder
<1>3. TypeOK'
  BY <1>2 DEF Bind, IInv, TypeOK, Labels
<1>4. HandlesLive'
  BY <1>1, <1>2, HandlesFrame DEF Bind, IInv, TypeOK, FreeSock
<1>5. StoredChecked'
  BY DEF Bind, IInv, StoredChecked
<1>6. Frame(p) /\ KeepsPending(p)
  BY <1>1, <1>2 DEF Bind, IInv, TypeOK, Frame, KeepsPending, FreeSock, BoundBy, Probe
<1>7. Pending(p)'
  <2>1. pc'[p] = "register" /\ UNCHANGED <<loop, work>>
    BY DEF Bind, IInv, TypeOK
  <2>2. Inb(p)' = Inb(p) /\ s' = s
    BY <2>1 DEF Inb, Socket, EffectivePort
  <2>3. owner'[s] = BoundBy(p)
    BY <1>1, <1>2 DEF IInv, TypeOK
  <2> QED
    BY <1>1, <2>1, <2>2, <2>3 DEF Pending, BoundBy
<1> QED
  BY <1>3, <1>4, <1>5, <1>6, <1>7, MoveStep DEF Bind, IInv, TypeOK

LEMMA BindRetryStep ==
  ASSUME IInv, NEW p \in Procs, BindRetry(p)
  PROVE  IInv'
<1> DEFINE i == InboundIndex(work[p], Inb(p).name)
<1>1. loop[p].at \in DOMAIN work[p] /\ work[p] \in InboundList /\ loop[p] \in Loops
  BY DEF BindRetry, IInv, TypeOK, PendingOwned, Pending
<1>2. i \in DOMAIN work[p]
  BY <1>1, InboundIndexType DEF HasName, Inb
<1>3. PICK w \in Reassignments(work[p], i, Free) : work' = [work EXCEPT ![p] = w]
  BY DEF BindRetry, Retryable
<1>4. loop[p].tries + 1 \in 0 .. Retries
  BY <1>1, RetriesAssumption DEF BindRetry, Retryable, Loops
<1>5. w \in InboundList /\ DOMAIN w = DOMAIN work[p]
  BY <1>1, <1>2, ReassignmentsType DEF SameButPorts
<1>6. loop' \in [Procs -> Loops]
  <2>1. [loop[p] EXCEPT !.tries = loop[p].tries + 1] \in Loops
    BY <1>1, <1>4, Zenon DEF Loops
  <2> QED
    BY <2>1 DEF BindRetry, IInv, TypeOK
<1>7. TypeOK'
  BY <1>3, <1>5, <1>6 DEF BindRetry, IInv, TypeOK
<1>8. Frame(p) /\ pc'[p] = "bind"
  BY <1>3 DEF BindRetry, IInv, TypeOK, Frame
<1>9. Pending(p)'
  <2>1. loop'[p].at = loop[p].at /\ work'[p] = w
    BY <1>1, <1>3 DEF BindRetry, IInv, TypeOK, Loops
  <2> QED
    BY <1>1, <1>5, <1>8, <2>1 DEF Pending
<1> QED
  BY <1>7, <1>8, <1>9, QuietStep DEF BindRetry

LEMMA BindFailStep ==
  ASSUME IInv, NEW p \in Procs, BindFail(p)
  PROVE  IInv'
<1>1. Inb(p).name \in Names
  BY InbType DEF BindFail, IInv, PendingOwned, Pending
<1>2. loop' \in [Procs -> Loops] /\ \A q \in Procs \ {p} : loop'[q] = loop[q]
  <2>1. loop[p] \in Loops
    BY DEF IInv, TypeOK
  <2>2. loop[p].at + 1 \in Nat \ {0} /\ Moved(p) \in BOOLEAN
    BY <2>1 DEF Loops, Moved
  <2>3. [loop[p] EXCEPT !.up = FALSE, !.moved = Moved(p), !.at = loop[p].at + 1] \in Loops
    BY <2>1, <2>2, Zenon DEF Loops
  <2> QED
    BY <2>3 DEF BindFail, IInv, TypeOK
<1>3. TypeOK'
  BY <1>1, <1>2 DEF BindFail, IInv, TypeOK, Labels
<1>4. Frame(p) /\ pc'[p] = "begin" /\ Pending(p)'
  BY <1>2 DEF BindFail, IInv, TypeOK, Frame, Pending
<1> QED
  BY <1>3, <1>4, QuietStep DEF BindFail

LEMMA RegisterStep ==
  ASSUME IInv, NEW p \in Procs, Register(p)
  PROVE  IInv'
<1> DEFINE s == Socket(Inb(p))
           n == Inb(p).name
<1>1. s \in Sockets /\ owner[s] = BoundBy(p) /\ loop[p].at \in DOMAIN work[p]
  BY DEF Register, IInv, PendingOwned, Pending
<1>2. n \in Names /\ Inb(p).tag \in Tags
  BY <1>1, InbType DEF IInv
<1>3. Listener(Inb(p)) \in Holder
  BY <1>2 DEF Listener, Holder
<1>4. TypeOK'
  BY <1>1, <1>2, <1>3 DEF Register, IInv, TypeOK, Labels
<1>5. HandlesLive'
  <2> SUFFICES ASSUME NEW m \in Names, handles'[m] # None
               PROVE  owner'[handles'[m]].kind = "listen" /\ owner'[handles'[m]].name = m
    BY DEF HandlesLive
  <2>1. CASE m = n
    BY <1>1, <1>2, <2>1 DEF Register, IInv, TypeOK, Listener
  <2>2. CASE m # n
    <3>1. handles'[m] = handles[m] /\ handles[m] \in Sockets
      BY <2>2 DEF Register, IInv, TypeOK
    <3>2. owner[handles[m]].kind = "listen" /\ owner[handles[m]].name = m
      BY <3>1 DEF IInv, HandlesLive
    <3>3. handles[m] # s
      BY <1>1, <3>2 DEF BoundBy
    <3> QED
      BY <1>1, <3>1, <3>2, <3>3 DEF Register, IInv, TypeOK
  <2> QED
    BY <2>1, <2>2
<1>6. StoredChecked'
  BY DEF Register, IInv, StoredChecked
<1>7. Frame(p) /\ KeepsPending(p)
  BY <1>1 DEF Register, IInv, TypeOK, Frame, KeepsPending, BoundBy, Probe
<1>8. pc'[p] = "listening" /\ Pending(p)'
  BY <1>1 DEF Register, IInv, TypeOK, Pending
<1> QED
  BY <1>4, <1>5, <1>6, <1>7, <1>8, MoveStep DEF Register

LEMMA ListeningStep ==
  ASSUME IInv, NEW p \in Procs, Listening(p)
  PROVE  IInv'
<1>1. Inb(p).name \in Names
  BY InbType DEF Listening, IInv, PendingOwned, Pending
<1>2. loop' \in [Procs -> Loops] /\ \A q \in Procs \ {p} : loop'[q] = loop[q]
  <2>1. loop[p] \in Loops
    BY DEF IInv, TypeOK
  <2>2. loop[p].at + 1 \in Nat \ {0} /\ Moved(p) \in BOOLEAN
    BY <2>1 DEF Loops, Moved
  <2>3. [loop[p] EXCEPT !.moved = Moved(p), !.at = loop[p].at + 1] \in Loops
    BY <2>1, <2>2, Zenon DEF Loops
  <2> QED
    BY <2>3 DEF Listening, IInv, TypeOK
<1>3. TypeOK'
  BY <1>1, <1>2 DEF Listening, IInv, TypeOK, Labels
<1>4. Frame(p) /\ pc'[p] = "begin" /\ Pending(p)'
  BY <1>2 DEF Listening, IInv, TypeOK, Frame, Pending
<1> QED
  BY <1>3, <1>4, QuietStep DEF Listening

LEMMA SpawnEndStep ==
  ASSUME IInv, NEW p \in Procs, SpawnEnd(p)
  PROVE  IInv'
<1>1. pc'[p] \in {"return", "merge", "drop"} /\ pc' \in [Procs -> Labels]
  BY DEF SpawnEnd, IInv, TypeOK, Labels
<1>2. TypeOK' /\ Frame(p) /\ Pending(p)'
  BY <1>1 DEF SpawnEnd, IInv, TypeOK, Frame, Pending
<1> QED
  BY <1>1, <1>2, QuietStep DEF SpawnEnd

LEMMA MergeMovedPortsStep ==
  ASSUME IInv, NEW p \in Procs, MergeMovedPorts(p)
  PROVE  IInv'
<1> DEFINE merged == [config EXCEPT !.inbounds = MergePorts(config.inbounds, work[p])]
<1>1. merged \in Config /\ Checked(merged.inbounds)
  <2>1. SameButPorts(config.inbounds, MergePorts(config.inbounds, work[p]))
    BY MergePortsType DEF IInv, TypeOK, Config
  <2>2. Checked(config.inbounds)
    BY DEF IInv, StoredChecked, Checked
  <2>3. merged \in Config /\ merged.inbounds = MergePorts(config.inbounds, work[p])
    BY <2>1 DEF SameButPorts, IInv, TypeOK, Config
  <2> QED
    BY <2>1, <2>2, <2>3, SameButPortsChecked
<1>2. /\ config' \in {config, merged} /\ disk' \in {disk, merged}
      /\ \/ pc' = [pc EXCEPT ![p] = "return"] /\ UNCHANGED loop
         \/ pc' = [pc EXCEPT ![p] = "drop"] /\ loop' = [loop EXCEPT ![p].up = FALSE]
  BY DEF MergeMovedPorts
<1>3. loop' \in [Procs -> Loops] /\ \A q \in Procs \ {p} : loop'[q] = loop[q]
  <2>1. loop[p] \in Loops
    BY DEF IInv, TypeOK
  <2>2. [loop[p] EXCEPT !.up = FALSE] \in Loops
    BY <2>1, Zenon DEF Loops
  <2>3. loop' = loop \/ loop' = [loop EXCEPT ![p] = [loop[p] EXCEPT !.up = FALSE]]
    BY <1>2
  <2> QED
    BY <2>2, <2>3 DEF IInv, TypeOK
<1>4. pc'[p] \in {"return", "drop"} /\ pc' \in [Procs -> Labels]
  BY <1>2 DEF IInv, TypeOK, Labels
<1>5. TypeOK'
  BY <1>1, <1>2, <1>3, <1>4 DEF MergeMovedPorts, IInv, TypeOK
<1>6. StoredChecked'
  BY <1>1, <1>2 DEF IInv, StoredChecked, Checked
<1>7. HandlesLive' /\ KeepsPending(p)
  BY HandlesFrame DEF MergeMovedPorts, IInv, KeepsPending
<1>8. Frame(p) /\ Pending(p)'
  BY <1>2, <1>3, <1>4 DEF MergeMovedPorts, IInv, TypeOK, Frame, Pending
<1> QED
  BY <1>4, <1>5, <1>6, <1>7, <1>8, MoveStep DEF MergeMovedPorts

LEMMA RestartingStep ==
  ASSUME IInv, NEW p \in Procs, Restarting(p)
  PROVE  IInv'
  BY StopStep, ClearStep, SpawnCloneStep, BeginStep, BindStep, BindRetryStep,
     BindFailStep, RegisterStep, ListeningStep, SpawnEndStep, MergeMovedPortsStep
  DEF Restarting

-----------------------------------------------------------------------------
(* The other steps of the handlers *)

LEMMA ReturnCommitStep ==
  ASSUME IInv, NEW r \in Reqs, ReturnCommit(r)
  PROVE  IInv'
<1>1. r \in Procs /\ pc'[r] \in {"save", "undo"} /\ pc' \in [Procs -> Labels]
  BY DEF ReturnCommit, IInv, TypeOK, Labels, Procs
<1>2. code' \in [Procs -> {"none", "409", "500"}]
  BY DEF ReturnCommit, IInv, TypeOK
<1>3. TypeOK'
  BY <1>1, <1>2 DEF ReturnCommit, IInv, TypeOK
<1>4. Frame(r) /\ Pending(r)'
  BY <1>1 DEF ReturnCommit, IInv, TypeOK, Frame, Pending
<1> QED
  BY <1>1, <1>3, <1>4, QuietStep DEF ReturnCommit

LEMMA ReturnUndoStep ==
  ASSUME IInv, NEW r \in Reqs, ReturnUndo(r)
  PROVE  IInv'
<1>1. code[r] \in Answers
  BY DEF IInv, TypeOK, Answers, Procs
<1> QED
  BY <1>1, RejectStep DEF ReturnUndo

\* A handler that stores one new configuration and answers.
LEMMA StoreStep ==
  ASSUME IInv, NEW r \in Reqs, NEW a \in Answers, Reply(r, a),
         NEW new \in Config, Checked(new.inbounds),
         config' \in {config, new}, disk' \in {disk, new}, promised' \in {promised, new},
         UNCHANGED <<program, owner, live, op>>
  PROVE  IInv'
<1>1. \A c \in {config', disk', promised'} : c \in Config
  BY DEF IInv, TypeOK
<1>2. \A c \in {config', disk'} : Checked(c.inbounds)
  BY DEF IInv, StoredChecked, Checked
<1>3. owner' \in [Sockets -> Holder] /\ KeepsPending(r)
  BY DEF IInv, TypeOK, KeepsPending
<1> QED
  BY <1>1, <1>2, <1>3, ReplyStep

LEMMA RegenerateStep ==
  ASSUME IInv, NEW r \in Reqs, Regenerate(r)
  PROVE  IInv'
<1> DEFINE new == [config EXCEPT !.sub = r]
<1>1. new \in Config /\ new.inbounds = config.inbounds
  BY DEF IInv, TypeOK, Config, Tokens, Procs
<1>2. Checked(new.inbounds)
  BY <1>1 DEF IInv, StoredChecked, Checked
<1>3. /\ Reply(r, "200") \/ Reply(r, "500")
      /\ config' \in {config, new} /\ disk' \in {disk, new} /\ promised' \in {promised, new}
  BY DEF Regenerate
<1> QED
  BY <1>1, <1>2, <1>3, StoreStep DEF Regenerate, Answers

LEMMA UpdateAccountStep ==
  ASSUME IInv, NEW r \in Reqs, UpdateAccount(r)
  PROVE  IInv'
<1> DEFINE new == [config EXCEPT !.acct = r]
<1>1. new \in Config /\ new.inbounds = config.inbounds
  BY DEF IInv, TypeOK, Config, Tokens, Procs
<1>2. Checked(new.inbounds)
  BY <1>1 DEF IInv, StoredChecked, Checked
<1>3. /\ Reply(r, "200") \/ Reply(r, "401") \/ Reply(r, "500")
      /\ config' \in {config, new} /\ disk' \in {disk, new} /\ promised' \in {promised, new}
  BY DEF UpdateAccount
<1> QED
  BY <1>1, <1>2, <1>3, StoreStep DEF UpdateAccount, Answers

LEMMA HandlingStep ==
  ASSUME IInv, NEW r \in Reqs, Handling(r)
  PROVE  IInv'
  BY AddCheckStep, AddCloneStep, UpdateCloneStep, DeleteCloneStep, ReadPreviousStep,
     PreflightPassStep, PreflightFailStep, ProbeStartStep, ProbeStopStep, InstallStep,
     SaveStep, ReturnCommitStep, ReturnUndoStep, RegenerateStep, UpdateAccountStep
  DEF Handling

-----------------------------------------------------------------------------
(* The program's life and its environment *)

\* A step of no task.
LEMMA OutsideStep ==
  ASSUME IInv, TypeOK', UNCHANGED <<pc, op, local>>, HandlesLive', StoredChecked',
         \A s \in Sockets : owner[s].kind \in {"bound", "probe"} => owner'[s] = owner[s]
  PROVE  IInv'
<1>1. PendingOwned'
  <2> SUFFICES ASSUME NEW p \in Procs
               PROVE  Pending(p)'
    BY DEF PendingOwned
  <2>1. Inb(p)' = Inb(p) /\ Candidate(p)' = Candidate(p)
    BY DEF Inb, Candidate
  <2>2. Socket(Inb(p))' = Socket(Inb(p)) /\ Socket(Candidate(p))' = Socket(Candidate(p))
    BY <2>1 DEF Socket, EffectivePort
  <2>3. Pending(p)
    BY DEF IInv, PendingOwned
  <2>4. pc[p] = "register" => owner'[Socket(Inb(p))] = BoundBy(p)
    BY <2>3 DEF Pending, BoundBy
  <2>5. pc[p] = "probing" => owner'[Socket(Candidate(p))] = Probe(p)
    BY <2>3 DEF Pending, Probe
  <2> QED
    BY <2>2, <2>3, <2>4, <2>5 DEF Pending, BoundBy, Probe
<1>2. OpMatches' /\ CopiesChecked'
  BY DEF IInv, OpMatches, CopiesChecked
<1> QED
  BY <1>1, <1>2 DEF IInv

LEMMA SocketStep ==
  ASSUME IInv, NEW s \in Sockets, ForeignGrab(s) \/ ForeignFree(s) \/ Drain(s)
  PROVE  IInv'
<1>1. PICK h \in {FreeSock, Foreign} : owner' = [owner EXCEPT ![s] = h]
  BY DEF ForeignGrab, ForeignFree, Drain
<1>2. owner[s].kind \in {"free", "foreign", "closing"} /\ h \in Holder
  BY DEF ForeignGrab, ForeignFree, Drain, Free, FreeSock, Foreign, Closing, Holder
<1>3. \A q \in Sockets : owner[q].kind \in {"bound", "probe", "listen"} => owner'[q] = owner[q]
  BY <1>1, <1>2 DEF IInv, TypeOK
<1>4. TypeOK'
  BY <1>1, <1>2 DEF ForeignGrab, ForeignFree, Drain, IInv, TypeOK
<1>5. HandlesLive' /\ StoredChecked'
  BY <1>3, HandlesFrame DEF ForeignGrab, ForeignFree, Drain, IInv, StoredChecked
<1> QED
  BY <1>3, <1>4, <1>5, OutsideStep DEF ForeignGrab, ForeignFree, Drain

LEMMA HangUpStep ==
  ASSUME IInv, NEW r \in Reqs, HangUp(r)
  PROVE  IInv'
<1>1. r \in Procs
  BY DEF Procs
<1>2. /\ owner' \in [Sockets -> Holder] /\ KeepsPending(r)
      /\ \A q \in Sockets : owner[q].kind = "listen" => owner'[q] = owner[q]
  <2>1. CASE pc[r] = "probing"
    <3> DEFINE s == Socket(Candidate(r))
    <3>1. PICK h \in Released(s) : owner' = [owner EXCEPT ![s] = h]
      BY <2>1 DEF HangUp
    <3>2. s \in Sockets /\ owner[s] = Probe(r)
      BY <1>1, <2>1 DEF IInv, PendingOwned, Pending
    <3>3. h \in Holder
      BY DEF Released, FreeSock, Closing, Holder
    <3> QED
      BY <3>1, <3>2, <3>3 DEF IInv, TypeOK, KeepsPending, BoundBy, Probe
  <2>2. CASE pc[r] = "register"
    <3> DEFINE s == Socket(Inb(r))
    <3>1. owner' = [owner EXCEPT ![s] = Listener(Inb(r))]
      BY <2>2 DEF HangUp
    <3>2. s \in Sockets /\ owner[s] = BoundBy(r) /\ loop[r].at \in DOMAIN work[r]
      BY <1>1, <2>2 DEF IInv, PendingOwned, Pending
    <3>3. Listener(Inb(r)) \in Holder
      BY <1>1, <3>2, InbType DEF IInv, Listener, Holder
    <3> QED
      BY <3>1, <3>2, <3>3 DEF IInv, TypeOK, KeepsPending, BoundBy, Probe
  <2>3. CASE pc[r] \notin {"probing", "register"}
    BY <2>3 DEF HangUp, IInv, TypeOK, KeepsPending
  <2> QED
    BY <2>1, <2>2, <2>3
<1>3. \A c \in {config', disk', promised'} : c \in Config
  BY DEF HangUp, IInv, TypeOK
<1>4. \A c \in {config', disk'} : Checked(c.inbounds)
  BY DEF HangUp, IInv, StoredChecked, Checked
<1> QED
  BY <1>2, <1>3, <1>4, ReplyStep DEF HangUp, Answers

LEMMA TunnelHostStep ==
  ASSUME IInv, NEW n \in Names, TunnelHost(n)
  PROVE  IInv'
<1> DEFINE s == config.inbounds
           i == InboundIndex(s, n)
           New(h) == [config EXCEPT !.inbounds[i].host = h]
<1>1. ASSUME NEW h \in Hosts, HasName(s, n)
      PROVE  New(h) \in Config /\ Checked(New(h).inbounds)
  <2>1. i \in DOMAIN s /\ s \in InboundList /\ s[i] \in Inbound /\ Checked(s)
    BY <1>1, InboundIndexType DEF IInv, TypeOK, Config, InboundList, StoredChecked, Checked
  <2> DEFINE inb == [s[i] EXCEPT !.host = h]
             t   == [s EXCEPT ![i] = inb]
  <2>2. inb \in Inbound /\ inb.name = s[i].name /\ inb.tag = s[i].tag
    BY <2>1 DEF Inbound
  <2>3. t \in InboundList /\ SameButPorts(s, t)
    BY <2>1, <2>2 DEF InboundList, SameButPorts
  <2>4. New(h) \in Config /\ New(h).inbounds = t
    BY <2>3 DEF IInv, TypeOK, Config
  <2> QED
    BY <2>1, <2>3, <2>4, SameButPortsChecked
<1>2. \A c \in {config', disk'} : c \in Config /\ Checked(c.inbounds)
  <2>1. \A c \in {config, disk} : c \in Config /\ Checked(c.inbounds)
    BY DEF IInv, TypeOK, StoredChecked, Checked
  <2>2. \/ UNCHANGED <<config, disk>>
        \/ HasName(s, n) /\ \E h \in Hosts : config' \in {config, New(h)} /\ disk' \in {disk, New(h)}
    BY DEF TunnelHost
  <2> QED
    BY <1>1, <2>1, <2>2
<1>3. TypeOK'
  BY <1>2 DEF TunnelHost, IInv, TypeOK
<1>4. HandlesLive' /\ StoredChecked'
  BY <1>2, HandlesFrame DEF TunnelHost, IInv, StoredChecked, Checked
<1> QED
  BY <1>3, <1>4, OutsideStep DEF TunnelHost

LEMMA ReaderEndStep ==
  ASSUME IInv, NEW n \in Names, ReaderEnd(n)
  PROVE  IInv'
<1>1. TypeOK'
  BY DEF ReaderEnd, IInv, TypeOK
<1>2. HandlesLive' /\ StoredChecked'
  BY HandlesFrame DEF ReaderEnd, IInv, StoredChecked
<1> QED
  BY <1>1, <1>2, OutsideStep DEF ReaderEnd

LEMMA BootStep ==
  ASSUME IInv, Boot
  PROVE  IInv'
<1>1. PICK s \in Assignments(disk.inbounds, Free) :
        Valid(s) /\ config' = [disk EXCEPT !.inbounds = s]
  BY DEF Boot
<1>2. config' \in Config /\ config'.inbounds = s
  <2>1. disk \in Config /\ disk.inbounds \in InboundList
    BY DEF IInv, TypeOK, Config
  <2>2. s \in InboundList
    BY <2>1, AssignmentsType DEF SameButPorts
  <2> QED
    BY <1>1, <2>1, <2>2 DEF Config
<1>3. disk' = config' /\ Checked(s)
  BY <1>1, ValidChecked DEF Boot
<1>4. Main \in Procs /\ pc'[Main] = "spawn" /\ Frame(Main) /\ KeepsPending(Main)
  BY DEF Boot, IInv, TypeOK, Frame, KeepsPending, Procs
<1>5. TypeOK'
  BY <1>2, <1>3 DEF Boot, IInv, TypeOK, Labels
<1>6. HandlesLive'
  BY HandlesFrame DEF Boot, IInv
<1>7. StoredChecked'
  BY <1>2, <1>3 DEF StoredChecked, Checked
<1>8. Pending(Main)'
  BY <1>4 DEF Pending
<1> QED
  BY <1>4, <1>5, <1>6, <1>7, <1>8, MoveStep DEF Boot

LEMMA ReturnBootStep ==
  ASSUME IInv, ReturnBoot
  PROVE  IInv'
<1>1. Main \in Procs /\ pc'[Main] = "done" /\ Frame(Main)
  BY DEF ReturnBoot, IInv, TypeOK, Frame, Procs
<1>2. TypeOK' /\ Pending(Main)'
  BY <1>1 DEF ReturnBoot, IInv, TypeOK, Pending, Labels
<1> QED
  BY <1>1, <1>2, QuietStep DEF ReturnBoot

LEMMA ShutdownStep ==
  ASSUME IInv, Shutdown
  PROVE  IInv'
<1>1. Main \in Procs /\ pc'[Main] = "stop" /\ Frame(Main)
  BY DEF Shutdown, IInv, TypeOK, Frame, Procs
<1>2. TypeOK' /\ Pending(Main)'
  BY <1>1 DEF Shutdown, IInv, TypeOK, Pending, Labels
<1> QED
  BY <1>1, <1>2, QuietStep DEF Shutdown

\* After the end of the process nothing is bound but by other programs.
LEMMA GoneStep ==
  ASSUME IInv, Gone, stops' \in Nat
  PROVE  IInv'
<1>1. pc' = [p \in Procs |-> IF p = Main THEN "idle"
                             ELSE IF p \in InFlight THEN "done" ELSE pc[p]]
  BY DEF Gone
<1>2. \A p \in Procs : pc'[p] \in {"idle", "done"}
  BY <1>1 DEF InFlight, Procs
<1>3. TypeOK'
  <2>1. FreeSock \in Holder /\ Foreign \in Holder
    BY DEF FreeSock, Foreign, Holder
  <2>2. owner' \in [Sockets -> Holder]
    BY <2>1 DEF Gone
  <2>3. next' \in [Procs -> Config] /\ prev' \in [Procs -> Config]
    BY InitAssumption DEF Gone
  <2>4. work' \in [Procs -> InboundList] /\ loop' \in [Procs -> Loops]
    BY LocalsType DEF Gone
  <2>5. answer' \in [Procs -> Answers]
    BY DEF Gone, IInv, TypeOK, Answers
  <2>6. pc' \in [Procs -> Labels]
    BY <1>1, <1>2 DEF Labels
  <2>7. handles' \in [Names -> Sockets \cup {None}]
    BY DEF Gone
  <2> QED
    BY <2>2, <2>3, <2>4, <2>5, <2>6, <2>7 DEF Gone, IInv, TypeOK
<1>4. HandlesLive' /\ StoredChecked'
  BY DEF Gone, HandlesLive, IInv, StoredChecked
<1>5. CopiesChecked'
  BY InitAssumption, ValidChecked DEF Gone, CopiesChecked
<1>6. OpMatches' /\ PendingOwned'
  BY <1>2 DEF OpMatches, PendingOwned, Pending, Procs
<1> QED
  BY <1>3, <1>4, <1>5, <1>6 DEF IInv

LEMMA LifeStep ==
  ASSUME IInv, ReturnBoot \/ Boot \/ Shutdown \/ Exit \/ Crash
  PROVE  IInv'
<1>1. ASSUME Exit \/ Crash
      PROVE  IInv'
  <2>1. Gone /\ stops' \in Nat
    BY <1>1 DEF Exit, Crash, IInv, TypeOK
  <2> QED
    BY <2>1, GoneStep
<1> QED
  BY <1>1, ReturnBootStep, BootStep, ShutdownStep

-----------------------------------------------------------------------------
(* The theorems *)

LEMMA InitIInv == Init => IInv
<1> SUFFICES ASSUME Init
             PROVE  IInv
  OBVIOUS
<1>1. \A p \in Procs : pc[p] = "idle"
  BY DEF Init
<1>2. TypeOK
  <2>1. FreeSock \in Holder /\ NoOp \in Operations \cup {NoOp}
    BY DEF FreeSock, Holder
  <2>2. loop \in [Procs -> Loops] /\ work \in [Procs -> InboundList]
    BY LocalsType DEF Init
  <2> QED
    BY <2>1, <2>2, InitAssumption DEF Init, TypeOK, Labels, Answers
<1>3. HandlesLive
  BY DEF Init, HandlesLive
<1>4. StoredChecked /\ CopiesChecked
  BY InitAssumption, ValidChecked DEF Init, StoredChecked, CopiesChecked, Checked
<1>5. OpMatches /\ PendingOwned
  BY <1>1 DEF OpMatches, PendingOwned, Pending, Procs
<1> QED
  BY <1>2, <1>3, <1>4, <1>5 DEF IInv

LEMMA NextIInv == IInv /\ [Next]_vars => IInv'
<1> SUFFICES ASSUME IInv, [Next]_vars
             PROVE  IInv'
  OBVIOUS
<1>1. CASE \E r \in Reqs : Arrive(r) \/ Handling(r)
  BY <1>1, ArriveStep, HandlingStep
<1>2. CASE \E p \in Procs : Restarting(p)
  BY <1>2, RestartingStep
<1>3. CASE ReturnBoot \/ Boot \/ Shutdown \/ Exit \/ Crash
  BY <1>3, LifeStep
<1>4. CASE Environment
  BY <1>4, SocketStep, TunnelHostStep, ReaderEndStep, HangUpStep DEF Environment
<1>5. CASE UNCHANGED vars
  <2>1. UNCHANGED <<program, store, owner, live, pc, op, local, answer>>
    BY <1>5 DEF vars
  <2>2. TypeOK'
    BY <2>1 DEF IInv, TypeOK
  <2>3. HandlesLive' /\ StoredChecked'
    BY <2>1 DEF IInv, HandlesLive, StoredChecked
  <2> QED
    BY <2>1, <2>2, <2>3, OutsideStep
<1> QED
  BY <1>1, <1>2, <1>3, <1>4, <1>5 DEF Next

LEMMA Invariance == Spec => []IInv
  BY InitIInv, NextIInv, PTL DEF Spec

\* Every variable keeps its type, whatever requests are made and however the
\* handlers, the restarts, the environment and the crashes interleave.
THEOREM TypeCorrect == Spec => []TypeOK
  BY Invariance, PTL DEF IInv

\* stop_all aborts the listener of the inbound a handle is filed under and no
\* other, and a handle never outlives its listener, for any number of restarts
\* at the same time (web/mod.rs stop_all and spawn_all).
THEOREM HandlesLiveHolds == Spec => []HandlesLive
  BY Invariance, PTL DEF IInv

\* Whatever stale copies are installed, merged or rolled back, no two inbounds of
\* a stored configuration have the same name and none has contents that validate
\* refuses (web/mod.rs commit_config and spawn_all).
THEOREM StoredCheckedHolds == Spec => []StoredChecked
  BY Invariance, PTL DEF IInv

-----------------------------------------------------------------------------
(* One request at a time, by clients that wait for the answer: what other  *)
(* programs, lingering sockets, saves and crashes do is still open.        *)

Serial == MaxInFlight = 1 /\ Impatient = {}

Active(p) == pc[p] \notin {"idle", "done"}

\* At most one task does anything, and the program's phase says which it may be.
Alone ==
  /\ \A p, q \in Procs : Active(p) /\ Active(q) => p = q
  /\ phase = "down" => \A p \in Procs : ~Active(p)
  /\ phase = "up" => ~Active(Main)
  /\ phase \in {"boot", "stopping"} => Active(Main)

NoneDown == phase = "down" => \A n \in Names : handles[n] = None

Unanswered == \A r \in Reqs : pc[r] # "done" => answer[r] = "none"

\* The status of a name is true, but for the inbound that is being started and until a
\* restart has cleared the statuses.
Matched(n) ==
  /\ runtime[n] # "starting"
  /\ runtime[n] = "listening" <=> handles[n] # None

Starting(n) ==
  \E p \in Procs : pc[p] \in {"bind", "register", "listening"} /\ Inb(p).name = n

Statuses ==
  (\A p \in Procs : pc[p] \notin {"clear", "dropclear"}) =>
    \A n \in Names : Matched(n) \/ Starting(n)

Looping == {"begin", "bind", "register", "listening"}

\* The same inbounds, but for what a retry or a tunnel changes.
SameInbounds(s, t) ==
  /\ DOMAIN s = DOMAIN t
  /\ \A i \in DOMAIN s : /\ s[i].name = t[i].name /\ s[i].tag = t[i].tag
                         /\ s[i].udp = t[i].udp   /\ s[i].port = t[i].port

SamePort(p, i) == EffectivePort(work[p][i]) = EffectivePort(config.inbounds[i])

\* The inbounds spawn_all has been through, and those it has yet to begin.
Behind(p) == {i \in DOMAIN work[p] : i < loop[p].at}
Ahead(p)  == {i \in DOMAIN work[p] : i > loop[p].at \/ (i = loop[p].at /\ pc[p] = "begin")}

\* In the loop of spawn_all: what is ahead has no listener and its port; what is behind is
\* served if all went well, and has its port unless one has moved.
InLoop(p) ==
  /\ \A i \in Ahead(p) : handles[work[p][i].name] = None /\ SamePort(p, i)
  /\ loop[p].moved \/ \A i \in Behind(p) : SamePort(p, i)
  /\ loop[p].up => \A i \in Behind(p) : Serving(work[p][i])
  /\ pc[p] # "begin" => loop[p].first = EffectivePort(config.inbounds[loop[p].at])
  /\ pc[p] \in {"bind", "register"} => handles[Inb(p).name] = None
  /\ pc[p] = "listening" => /\ handles[Inb(p).name] = Socket(Inb(p))
                            /\ owner[Socket(Inb(p))] = Listener(Inb(p))

\* What the task that restarts the inbounds knows.
Knows(p) ==
  /\ pc[p] \in {"clear", "dropclear", "spawn"} => \A n \in Names : handles[n] = None
  /\ pc[p] \in {"drop", "dropclear"} => ~loop[p].up
  /\ pc[p] \in Looping \cup {"merge"} =>
       /\ DistinctNames(work[p]) /\ SameInbounds(config.inbounds, work[p])
       /\ \A n \in Names : handles[n] # None => HasName(work[p], n)
  /\ pc[p] \in Looping => InLoop(p)
  /\ pc[p] = "merge" => \A i \in DOMAIN work[p] : Serving(work[p][i])
  /\ pc[p] = "save" => loop[p].up
  /\ pc[p] \in {"return", "save"} /\ loop[p].up => ServesExactly(config.inbounds)

SInv ==
  /\ Alone /\ NoneDown /\ Unanswered /\ NoOrphans /\ Statuses
  /\ \A p \in Procs : Knows(p)

\* A list that has the same inbounds on the same ports is served when the other is.
LEMMA ServingSame ==
  ASSUME NEW i1, NEW i2, i1.name = i2.name, i1.tag = i2.tag, i1.udp = i2.udp,
         EffectivePort(i1) = EffectivePort(i2), Serving(i1)
  PROVE  Serving(i2)
BY DEF Serving, Socket, Listener

\* The listeners of before and after a step are the same.
ListenersKept ==
  \A s \in Sockets : owner[s].kind = "listen" \/ owner'[s].kind = "listen" => owner'[s] = owner[s]

LEMMA ListElement ==
  ASSUME NEW s \in InboundList, NEW i \in DOMAIN s
  PROVE  i \in Nat /\ i >= 1 /\ s[i] \in Inbound /\ s[i].name \in Names
<1>1. DOMAIN s = 1 .. Len(s) /\ Len(s) \in Nat /\ s[i] \in Inbound
  BY DEF InboundList
<1>2. s[i].name \in Names
  BY <1>1 DEF Inbound
<1>. QED  BY <1>1, <1>2

LEMMA HandleSocket ==
  ASSUME TypeOK, NEW inb \in Inbound, handles[inb.name] = Socket(inb)
  PROVE  Socket(inb) \in Sockets /\ Socket(inb) # None
<1>1. EffectivePort(inb) \in Nat
  <2>1. EffectivePort(inb) \in Ports \cup {0}
    BY EffectivePortType
  <2>2. Ports \cup {0} \subseteq Nat
    BY PortsAssumption
  <2>. QED  BY <2>1, <2>2
<1>2. Socket(inb) \in BOOLEAN \X Nat
  BY <1>1 DEF Socket, Inbound
<1>3. inb.name \in Names
  BY DEF Inbound
<1>. QED  BY <1>2, <1>3, NoneAssumption DEF TypeOK

LEMMA ServingKept ==
  ASSUME TypeOK, NEW inb \in Inbound, Serving(inb), ListenersKept,
         handles'[inb.name] = handles[inb.name], runtime'[inb.name] = runtime[inb.name]
  PROVE  Serving(inb)'
<1>1. Socket(inb) \in Sockets
  BY HandleSocket DEF Serving
<1>2. owner[Socket(inb)].kind = "listen"
  BY DEF Serving, Listener
<1>. QED  BY <1>1, <1>2 DEF Serving, ListenersKept, Listener

LEMMA NoOrphansKept ==
  ASSUME NoOrphans, ListenersKept, UNCHANGED handles
  PROVE  NoOrphans'
BY DEF NoOrphans, ListenersKept

LEMMA IdleKnows ==
  ASSUME NEW p \in Procs, ~Active(p)
  PROVE  Knows(p)
BY DEF Active, Knows, Looping

\* A step of the active task, which goes on or has answered.
LEMMA TaskStep ==
  ASSUME SInv, NEW p \in Procs, Active(p), UNCHANGED phase,
         \A q \in Procs \ {p} : pc'[q] = pc[q],
         pc'[p] # "idle", p = Main => pc'[p] # "done",
         NoneDown', Unanswered', NoOrphans', Statuses', Knows(p)'
  PROVE  SInv'
<1>1. \A q \in Procs \ {p} : ~Active(q) /\ ~Active(q)'
  BY DEF SInv, Alone, Active
<1>2. Alone'
  <2>1. Main \in Procs
    BY DEF Procs
  <2>2. \A q, s \in Procs : Active(q)' /\ Active(s)' => q = s
    BY <1>1
  <2>3. phase # "down" /\ (phase = "up" => p # Main) /\ (phase \in {"boot", "stopping"} => p = Main)
    BY <2>1 DEF SInv, Alone
  <2>4. p = Main => Active(p)'
    BY DEF Active
  <2>5. phase = "up" => ~Active(Main)'
    BY <1>1, <2>1, <2>3
  <2>. QED  BY <2>1, <2>2, <2>3, <2>4, <2>5 DEF Alone
<1>3. \A q \in Procs \ {p} : Knows(q)'
  BY <1>1, IdleKnows DEF Active, Knows, Looping
<1>. QED  BY <1>2, <1>3 DEF SInv

LEMMA OthersIdle ==
  ASSUME Alone, NEW p \in Procs, Active(p), \A q \in Procs \ {p} : pc'[q] = pc[q]
  PROVE  \A q \in Procs \ {p} : ~Active(q) /\ ~Active(q)'
BY DEF Alone, Active

\* A task is active in a phase of the program.
LEMMA ActivePhase ==
  ASSUME SInv, NEW p \in Procs, Active(p)
  PROVE  phase # "down"
BY DEF SInv, Alone

-----------------------------------------------------------------------------
(* The handlers, one at a time *)

Plain == {"add", "clone", "update", "delete", "regenerate", "account", "previous",
          "preflight", "probing", "undo", "stop", "return", "save"}

\* A step of a handler that starts or stops no listener.
LEMMA PlainStep ==
  ASSUME IInv, SInv, NEW r \in Reqs, pc[r] \in Plain, pc'[r] \in Plain \cup {"done"},
         \A q \in Procs \ {r} : pc'[q] = pc[q],
         UNCHANGED <<phase, handles, runtime>>, ListenersKept, Unanswered', Knows(r)'
  PROVE  SInv'
<1>1. r \in Procs /\ Active(r) /\ r # Main
  BY MainAssumption DEF Procs, Plain, Active
<1>2. \A q \in Procs \ {r} : ~Active(q) /\ ~Active(q)'
  BY <1>1, OthersIdle DEF SInv
<1>3. NoOrphans' /\ NoneDown'
  BY NoOrphansKept DEF SInv, NoneDown
<1>4. Statuses'
  <2>. SUFFICES ASSUME NEW n \in Names PROVE Matched(n)'
    BY DEF Statuses
  <2>1. \A q \in Procs : pc[q] \notin {"clear", "dropclear", "bind", "register", "listening"}
    BY <1>2 DEF Active, Plain
  <2>2. Matched(n)
    BY <2>1 DEF SInv, Statuses, Starting
  <2>. QED  BY <2>2 DEF Matched
<1>. QED  BY <1>1, <1>3, <1>4, TaskStep DEF Plain

LEMMA SameListeners ==
  ASSUME UNCHANGED owner
  PROVE  ListenersKept
BY DEF ListenersKept

\* An answer, and nothing else but a store.
LEMMA ReplyPlain ==
  ASSUME IInv, SInv, NEW r \in Reqs, NEW a, Reply(r, a), pc[r] \in Plain,
         UNCHANGED <<program, live>>, ListenersKept
  PROVE  SInv'
<1>1. pc' = [pc EXCEPT ![r] = "done"] /\ answer' = [answer EXCEPT ![r] = a]
  BY DEF Reply
<1>2. pc'[r] = "done" /\ \A q \in Procs \ {r} : pc'[q] = pc[q] /\ answer'[q] = answer[q]
  BY <1>1 DEF IInv, TypeOK, Procs
<1>3. Unanswered'
  BY <1>2 DEF SInv, Unanswered, Procs
<1>4. Knows(r)'
  BY <1>2 DEF Knows, Looping
<1>. QED  BY <1>2, <1>3, <1>4, PlainStep

LEMMA SubmitPlain ==
  ASSUME IInv, SInv, NEW r \in Reqs, NEW s, Submit(r, s), pc[r] \in Plain,
         UNCHANGED <<program, live, owner>>
  PROVE  SInv'
<1>1. CASE Reply(r, "422")
  BY <1>1, ReplyPlain, SameListeners
<1>2. CASE pc' = [pc EXCEPT ![r] = "previous"] /\ UNCHANGED answer
  <2>1. pc'[r] = "previous" /\ \A q \in Procs \ {r} : pc'[q] = pc[q]
    BY <1>2 DEF IInv, TypeOK, Procs
  <2>2. Unanswered' /\ Knows(r)'
    BY <1>2, <2>1 DEF SInv, Unanswered, Knows, Looping, Procs, Plain
  <2>. QED  BY <2>1, <2>2, PlainStep, SameListeners DEF Plain
<1>. QED  BY <1>1, <1>2 DEF Submit

\* A step of a handler from one place to the next.
LEMMA MovePlain ==
  ASSUME IInv, SInv, NEW r \in Reqs, NEW l \in Plain, pc[r] \in Plain,
         pc' = [pc EXCEPT ![r] = l], UNCHANGED <<program, live, answer>>,
         ListenersKept, l # "save", l # "return"
  PROVE  SInv'
<1>1. pc'[r] = l /\ \A q \in Procs \ {r} : pc'[q] = pc[q]
  BY DEF IInv, TypeOK, Procs
<1>2. Unanswered' /\ Knows(r)'
  BY <1>1 DEF SInv, Unanswered, Knows, Looping, Procs, Plain
<1>. QED  BY <1>1, <1>2, PlainStep

LEMMA EditSteps ==
  ASSUME IInv, SInv, NEW r \in Reqs,
         AddCheck(r) \/ AddClone(r) \/ UpdateClone(r) \/ DeleteClone(r)
  PROVE  SInv'
<1>1. CASE AddCheck(r)
  <2>1. CASE Reply(r, "409")
    BY <1>1, <2>1, ReplyPlain, SameListeners DEF AddCheck, Plain
  <2>2. CASE pc' = [pc EXCEPT ![r] = "clone"] /\ UNCHANGED answer
    BY <1>1, <2>2, MovePlain, SameListeners DEF AddCheck, Plain
  <2>. QED  BY <1>1, <2>1, <2>2 DEF AddCheck
<1>2. ASSUME NEW s, AssignAndSubmit(r, s), pc[r] \in Plain, UNCHANGED <<program, live, owner>>
      PROVE  SInv'
  BY <1>2, SubmitPlain, ReplyPlain, SameListeners DEF AssignAndSubmit
<1>3. CASE AddClone(r)
  BY <1>2, <1>3 DEF AddClone, Plain
<1>4. CASE UpdateClone(r)
  <2>1. CASE Reply(r, "404")
    BY <1>4, <2>1, ReplyPlain, SameListeners DEF UpdateClone, Plain
  <2>2. CASE ~Reply(r, "404")
    BY <1>2, <1>4, <2>2 DEF UpdateClone, Plain
  <2>. QED  BY <2>1, <2>2
<1>5. CASE DeleteClone(r)
  <2>1. CASE Reply(r, "404")
    BY <1>5, <2>1, ReplyPlain, SameListeners DEF DeleteClone, Plain
  <2>2. CASE ~Reply(r, "404")
    BY <1>5, <2>2, SubmitPlain DEF DeleteClone, Plain
  <2>. QED  BY <2>1, <2>2
<1>. QED  BY <1>1, <1>3, <1>4, <1>5

LEMMA PreflightSteps ==
  ASSUME IInv, SInv, NEW r \in Reqs,
         ReadPrevious(r) \/ PreflightPass(r) \/ PreflightFail(r) \/ ProbeStart(r) \/ ProbeStop(r)
  PROVE  SInv'
<1>1. CASE ReadPrevious(r)
  BY <1>1, MovePlain, SameListeners DEF ReadPrevious, Plain
<1>2. CASE PreflightPass(r)
  <2>1. pc[r] = "preflight" /\ pc' = [pc EXCEPT ![r] = "preflight"]
    BY <1>2 DEF PreflightPass, Preflighting, IInv, TypeOK
  <2>. QED  BY <1>2, <2>1, MovePlain, SameListeners DEF PreflightPass, Plain
<1>3. CASE PreflightFail(r)
  BY <1>3, ReplyPlain, SameListeners DEF PreflightFail, Preflighting, Plain
<1>4. CASE ProbeStart(r)
  <2>1. ListenersKept
    BY <1>4 DEF ProbeStart, ListenersKept, Free, FreeSock, Probe, IInv, TypeOK
  <2>. QED  BY <1>4, <2>1, MovePlain DEF ProbeStart, Preflighting, Plain
<1>5. CASE ProbeStop(r)
  <2>1. owner[Socket(Candidate(r))] = Probe(r)
    BY <1>5 DEF ProbeStop, IInv, PendingOwned, Pending, Procs
  <2>2. ListenersKept
    BY <1>5, <2>1 DEF ProbeStop, Released, ListenersKept, FreeSock, Closing, Probe, IInv, TypeOK
  <2>. QED  BY <1>5, <2>2, MovePlain, ReplyPlain DEF ProbeStop, Plain
<1>. QED  BY <1>1, <1>2, <1>3, <1>4, <1>5

LEMMA CommitSteps ==
  ASSUME IInv, SInv, NEW r \in Reqs,
         Install(r) \/ Save(r) \/ Undo(r) \/ ReturnCommit(r) \/ ReturnUndo(r)
  PROVE  SInv'
<1>1. CASE Install(r)
  BY <1>1, MovePlain, SameListeners DEF Install, Plain
<1>2. CASE Undo(r)
  BY <1>2, MovePlain, SameListeners DEF Undo, Plain
<1>3. CASE Save(r)
  <2>1. CASE Reply(r, "200")
    BY <1>3, <2>1, ReplyPlain, SameListeners DEF Save, Plain
  <2>2. CASE ~Reply(r, "200")
    BY <1>3, <2>2, MovePlain, SameListeners DEF Save, Plain
  <2>. QED  BY <2>1, <2>2
<1>4. CASE ReturnUndo(r)
  BY <1>4, ReplyPlain, SameListeners DEF ReturnUndo, Plain
<1>5. CASE ReturnCommit(r)
  <2>1. CASE pc' = [pc EXCEPT ![r] = "undo"]
    BY <1>5, <2>1, MovePlain, SameListeners DEF ReturnCommit, Plain
  <2>2. CASE loop[r].up /\ pc' = [pc EXCEPT ![r] = "save"]
    <3>1. pc'[r] = "save" /\ \A q \in Procs \ {r} : pc'[q] = pc[q]
      BY <2>2 DEF IInv, TypeOK, Procs
    <3>2. Unanswered'
      BY <1>5, <3>1 DEF ReturnCommit, SInv, Unanswered, Procs
    <3>3. Knows(r)
      BY DEF SInv, Procs
    <3>4. ServesExactly(config.inbounds)'
      BY <1>5, <2>2, <3>3 DEF ReturnCommit, Knows, ServesExactly, Serving
    <3>5. Knows(r)'
      BY <1>5, <2>2, <3>1, <3>4 DEF ReturnCommit, Knows, Looping
    <3>. QED  BY <1>5, <3>1, <3>2, <3>5, PlainStep, SameListeners DEF ReturnCommit, Plain
  <2>. QED  BY <1>5, <2>1, <2>2 DEF ReturnCommit
<1>. QED  BY <1>1, <1>2, <1>3, <1>4, <1>5

LEMMA StoreSteps ==
  ASSUME IInv, SInv, NEW r \in Reqs, Regenerate(r) \/ UpdateAccount(r)
  PROVE  SInv'
BY ReplyPlain, SameListeners DEF Regenerate, UpdateAccount, Plain

LEMMA HandlerSteps ==
  ASSUME IInv, SInv, NEW r \in Reqs, Handling(r)
  PROVE  SInv'
BY EditSteps, PreflightSteps, CommitSteps, StoreSteps DEF Handling

-----------------------------------------------------------------------------
(* The restart, by the one task that is active *)

LEMMA RestartStep ==
  ASSUME IInv, SInv, NEW p \in Procs, Active(p), NEW l, l \notin {"idle", "done"},
         pc' = [pc EXCEPT ![p] = l], UNCHANGED <<program, answer>>,
         NoOrphans', Statuses', Knows(p)'
  PROVE  SInv'
<1>1. pc'[p] = l /\ \A q \in Procs \ {p} : pc'[q] = pc[q]
  BY DEF IInv, TypeOK
<1>2. NoneDown'
  BY ActivePhase DEF NoneDown
<1>3. Unanswered'
  BY <1>1 DEF SInv, Unanswered, Procs, Active
<1>. QED  BY <1>1, <1>2, <1>3, TaskStep

\* Who may be starting an inbound, before and after a step of the active task.
LEMMA OnlyStarter ==
  ASSUME IInv, SInv, NEW p \in Procs, Active(p), NEW l, pc' = [pc EXCEPT ![p] = l], NEW n
  PROVE  /\ pc'[p] = l
         /\ Starting(n) <=> pc[p] \in {"bind", "register", "listening"} /\ Inb(p).name = n
         /\ Starting(n)' <=> pc'[p] \in {"bind", "register", "listening"} /\ Inb(p)'.name = n
         /\ \A q \in Procs : pc[q] \in {"clear", "dropclear"} => q = p
<1>1. pc'[p] = l /\ \A q \in Procs \ {p} : pc'[q] = pc[q]
  BY DEF IInv, TypeOK
<1>2. \A q \in Procs \ {p} : ~Active(q) /\ ~Active(q)'
  BY <1>1, OthersIdle DEF SInv
<1>. QED  BY <1>1, <1>2 DEF Starting, Active

\* Statuses before a step, as the active task sees them.
LEMMA StatusesSeen ==
  ASSUME SInv, NEW p \in Procs, Active(p), pc[p] \notin {"clear", "dropclear"}, NEW n \in Names
  PROVE  Matched(n) \/ (pc[p] \in {"bind", "register", "listening"} /\ Inb(p).name = n)
<1>1. \A q \in Procs \ {p} : ~Active(q)
  BY DEF SInv, Alone
<1>2. \A q \in Procs : pc[q] \notin {"clear", "dropclear"}
  BY <1>1 DEF Active
<1>. QED  BY <1>1, <1>2 DEF SInv, Statuses, Starting, Active

LEMMA StopSerial ==
  ASSUME IInv, SInv, NEW p \in Procs, Stop(p)
  PROVE  SInv'
<1> DEFINE mine == {handles[n] : n \in Names} \ {None}
<1> PICK left \in SUBSET (mine \cap Linger) :
      owner' = [s \in Sockets |-> IF s \in left THEN Closing
                                  ELSE IF s \in mine THEN FreeSock ELSE owner[s]]
  BY DEF Stop
<1>1. Active(p) /\ handles' = [n \in Names |-> None] /\ UNCHANGED <<program, answer, loop>>
  BY DEF Stop, Active
<1>2. PICK l \in {"clear", "dropclear"} :
        pc' = [pc EXCEPT ![p] = l] /\ (l = "dropclear" => pc[p] = "drop")
  BY DEF Stop
<1>3. pc'[p] = l
  BY <1>2 DEF IInv, TypeOK
<1>4. NoOrphans'
  <2>. SUFFICES ASSUME NEW s \in Sockets, owner'[s].kind = "listen" PROVE FALSE
    BY DEF NoOrphans
  <2>1. s \notin mine /\ owner'[s] = owner[s]
    BY DEF FreeSock, Closing
  <2>2. handles[owner[s].name] = s /\ owner[s].name \in Names
    <3>1. owner[s] \in Holder /\ owner[s].kind = "listen"
      BY <2>1 DEF IInv, TypeOK
    <3>. QED  BY <3>1 DEF SInv, NoOrphans, Holder
  <2>3. s # None
    BY NoneAssumption, PortsAssumption DEF Sockets
  <2>. QED  BY <2>1, <2>2, <2>3
<1>5. Statuses'
  BY <1>3 DEF Statuses
<1>6. Knows(p)'
  <2>1. pc[p] = "drop" => ~loop[p].up
    BY DEF SInv, Knows
  <2>. QED  BY <1>1, <1>2, <1>3, <2>1 DEF Knows, Looping
<1>. QED  BY <1>1, <1>2, <1>4, <1>5, <1>6, RestartStep

LEMMA ClearSerial ==
  ASSUME IInv, SInv, NEW p \in Procs, Clear(p)
  PROVE  SInv'
<1>1. /\ Active(p) /\ pc[p] \in {"clear", "dropclear"} /\ runtime' = [n \in Names |-> "none"]
      /\ UNCHANGED <<program, owner, handles, answer, loop>>
  BY DEF Clear, Active
<1>2. PICK l \in {"return", "exit", "spawn"} :
        pc' = [pc EXCEPT ![p] = l] /\ (l = "return" => pc[p] = "dropclear")
  BY DEF Clear
<1>3. pc'[p] = l
  BY <1>2 DEF IInv, TypeOK
<1>4. (\A n \in Names : handles[n] = None) /\ (pc[p] = "dropclear" => ~loop[p].up)
  BY <1>1 DEF SInv, Knows
<1>5. NoOrphans'
  BY <1>1, NoOrphansKept, SameListeners DEF SInv
<1>6. Statuses'
  BY <1>1, <1>4 DEF Statuses, Matched
<1>7. Knows(p)'
  BY <1>1, <1>2, <1>3, <1>4 DEF Knows, Looping
<1>. QED  BY <1>1, <1>2, <1>5, <1>6, <1>7, RestartStep

LEMMA SpawnCloneSerial ==
  ASSUME IInv, SInv, NEW p \in Procs, SpawnClone(p)
  PROVE  SInv'
<1>1. /\ Active(p) /\ pc[p] = "spawn" /\ pc' = [pc EXCEPT ![p] = "begin"]
      /\ UNCHANGED <<program, store, owner, handles, runtime, answer>>
  BY DEF SpawnClone, Active
<1>2. pc'[p] = "begin" /\ work'[p] = config.inbounds /\ loop'[p] = NoLoop
  BY DEF SpawnClone, IInv, TypeOK
<1>3. \A n \in Names : handles[n] = None
  BY <1>1 DEF SInv, Knows
<1>4. NoOrphans'
  BY <1>1, NoOrphansKept, SameListeners DEF SInv
<1>5. Statuses'
  <2>1. \A n \in Names : Matched(n)
    BY <1>1, StatusesSeen
  <2>. QED  BY <1>1, <2>1 DEF Statuses, Matched
<1>6. config.inbounds \in InboundList /\ DistinctNames(config.inbounds)
  BY DEF IInv, TypeOK, Config, StoredChecked
<1>7. \A i \in DOMAIN config.inbounds : i \in Nat /\ i >= 1 /\ config.inbounds[i].name \in Names
  BY <1>6, ListElement
<1>8. SameInbounds(config.inbounds, work[p])'
  BY <1>1, <1>2 DEF SameInbounds
<1>9. InLoop(p)'
  <2>1. Behind(p)' = {} /\ Ahead(p)' \subseteq DOMAIN config.inbounds
    BY <1>2, <1>7 DEF Behind, Ahead, NoLoop
  <2>. QED  BY <1>1, <1>2, <1>3, <1>7, <2>1 DEF InLoop, SamePort, NoLoop
<1>10. Knows(p)'
  BY <1>1, <1>2, <1>3, <1>6, <1>8, <1>9 DEF Knows, Looping
<1>. QED  BY <1>1, <1>4, <1>5, <1>10, RestartStep

\* What the task in the loop of spawn_all has in hand.
LEMMA InHand ==
  ASSUME IInv, SInv, NEW p \in Procs, pc[p] \in Looping
  PROVE  /\ Active(p) /\ InLoop(p)
         /\ DistinctNames(work[p]) /\ SameInbounds(config.inbounds, work[p])
         /\ \A n \in Names : handles[n] # None => HasName(work[p], n)
         /\ work[p] \in Seq(Inbound) /\ config.inbounds \in Seq(Inbound)
         /\ DOMAIN work[p] = 1 .. Len(work[p]) /\ Len(work[p]) \in Nat
         /\ loop[p] \in Loops /\ loop[p].at \in Nat \ {0}
         /\ \A i \in DOMAIN work[p] : work[p][i] \in Inbound /\ work[p][i].name \in Names
         /\ pc[p] # "begin" => loop[p].at \in DOMAIN work[p]
<1>1. Active(p) /\ InLoop(p)
      /\ DistinctNames(work[p]) /\ SameInbounds(config.inbounds, work[p])
      /\ \A n \in Names : handles[n] # None => HasName(work[p], n)
  BY DEF Active, Looping, SInv, Knows
<1>2. work[p] \in Seq(Inbound) /\ config.inbounds \in Seq(Inbound) /\ loop[p] \in Loops
  BY DEF IInv, TypeOK, InboundList, Config
<1>3. DOMAIN work[p] = 1 .. Len(work[p]) /\ Len(work[p]) \in Nat /\ loop[p].at \in Nat \ {0}
  BY <1>2 DEF Loops
<1>4. \A i \in DOMAIN work[p] : work[p][i] \in Inbound /\ work[p][i].name \in Names
  BY <1>2, ListElement DEF InboundList
<1>5. pc[p] # "begin" => loop[p].at \in DOMAIN work[p]
  BY DEF IInv, PendingOwned, Pending, Looping
<1>. QED  BY <1>1, <1>2, <1>3, <1>4, <1>5

LEMMA BeginSerial ==
  ASSUME IInv, SInv, NEW p \in Procs, Begin(p)
  PROVE  SInv'
<1> PICK at : at = loop[p].at
  OBVIOUS
<1> PICK inb : inb = Inb(p)
  OBVIOUS
<1>1. /\ pc[p] = "begin" /\ at \in DOMAIN work[p] /\ pc' = [pc EXCEPT ![p] = "bind"]
      /\ runtime' = [runtime EXCEPT ![inb.name] = "starting"]
      /\ UNCHANGED <<program, store, owner, handles, work, answer>>
  BY DEF Begin
<1>2. /\ Active(p) /\ InLoop(p) /\ DistinctNames(work[p]) /\ SameInbounds(config.inbounds, work[p])
      /\ \A n \in Names : handles[n] # None => HasName(work[p], n)
      /\ DOMAIN work[p] = 1 .. Len(work[p]) /\ Len(work[p]) \in Nat
      /\ loop[p] \in Loops /\ at \in Nat
      /\ \A i \in DOMAIN work[p] : work[p][i] \in Inbound /\ work[p][i].name \in Names
  BY <1>1, InHand DEF Looping
<1>3. inb = work[p][at] /\ inb.name \in Names
  BY <1>1, <1>2 DEF Inb
<1>4. /\ pc'[p] = "bind" /\ loop'[p].at = at /\ loop'[p].up = loop[p].up
      /\ loop'[p].moved = loop[p].moved /\ loop'[p].first = EffectivePort(inb)
  BY <1>1, <1>2 DEF Begin, IInv, TypeOK, Loops
<1>5. Inb(p)' = inb
  BY <1>1, <1>3, <1>4 DEF Inb
<1>6. at \in Ahead(p)
  BY <1>1 DEF Ahead
<1>7. handles[inb.name] = None /\ EffectivePort(inb) = EffectivePort(config.inbounds[at])
  BY <1>2, <1>3, <1>6 DEF InLoop, SamePort
<1>8. /\ \A n \in Names : n # inb.name => runtime'[n] = runtime[n]
      /\ runtime'[inb.name] = "starting"
  BY <1>1, <1>3 DEF IInv, TypeOK
<1>9. Behind(p)' = Behind(p) /\ Ahead(p)' \subseteq Ahead(p)
  BY <1>1, <1>4 DEF Behind, Ahead
<1>10. ASSUME NEW i \in Behind(p), Serving(work[p][i])
       PROVE  Serving(work[p][i])'
  <2>1. i \in DOMAIN work[p] /\ i < at
    BY DEF Behind
  <2>2. work[p][i].name # inb.name
    BY <1>1, <1>2, <1>3, <2>1 DEF DistinctNames
  <2>3. runtime'[work[p][i].name] = runtime[work[p][i].name]
    BY <1>2, <1>8, <2>1, <2>2
  <2>. QED  BY <1>1, <1>10, <2>3 DEF Serving
<1>11. InLoop(p)'
  <2>1. \A i \in Ahead(p)' : handles'[work'[p][i].name] = None /\ SamePort(p, i)'
    BY <1>1, <1>2, <1>9 DEF InLoop, SamePort
  <2>2. loop'[p].moved \/ \A i \in Behind(p)' : SamePort(p, i)'
    BY <1>1, <1>2, <1>4, <1>9 DEF InLoop, SamePort
  <2>3. loop'[p].up => \A i \in Behind(p)' : Serving(work[p][i])'
    BY <1>2, <1>4, <1>9, <1>10 DEF InLoop
  <2>4. loop'[p].first = EffectivePort(config'.inbounds[loop'[p].at]) /\ handles'[Inb(p)'.name] = None
    BY <1>1, <1>4, <1>5, <1>7
  <2>. QED  BY <1>4, <2>1, <2>2, <2>3, <2>4 DEF InLoop
<1>12. Knows(p)'
  BY <1>1, <1>2, <1>4, <1>11 DEF Knows, Looping
<1>13. NoOrphans'
  BY <1>1, NoOrphansKept, SameListeners DEF SInv
<1>14. Statuses'
  <2>. SUFFICES ASSUME NEW n \in Names PROVE Matched(n)' \/ Starting(n)'
    BY DEF Statuses
  <2>1. CASE n = inb.name
    BY <1>1, <1>2, <1>4, <1>5, <2>1, OnlyStarter
  <2>2. CASE n # inb.name
    <3>1. Matched(n)
      BY <1>1, <1>2, StatusesSeen
    <3>. QED  BY <1>1, <1>8, <2>2, <3>1 DEF Matched
  <2>. QED  BY <2>1, <2>2
<1>. QED  BY <1>1, <1>2, <1>12, <1>13, <1>14, RestartStep

LEMMA BindSerial ==
  ASSUME IInv, SInv, NEW p \in Procs, Bind(p)
  PROVE  SInv'
<1> PICK inb : inb = Inb(p)
  OBVIOUS
<1>1. /\ pc[p] = "bind" /\ Socket(inb) \in Free /\ pc' = [pc EXCEPT ![p] = "register"]
      /\ owner' = [owner EXCEPT ![Socket(inb)] = BoundBy(p)]
      /\ UNCHANGED <<program, store, live, work, loop, answer>>
  BY DEF Bind
<1>2. /\ Active(p) /\ InLoop(p) /\ DistinctNames(work[p]) /\ SameInbounds(config.inbounds, work[p])
      /\ \A n \in Names : handles[n] # None => HasName(work[p], n)
      /\ \A i \in DOMAIN work[p] : work[p][i] \in Inbound
  BY <1>1, InHand DEF Looping
<1>3. pc'[p] = "register" /\ Inb(p)' = Inb(p)
  BY <1>1 DEF IInv, TypeOK, Inb
<1>4. ListenersKept
  BY <1>1 DEF ListenersKept, Free, FreeSock, BoundBy, IInv, TypeOK
<1>5. Behind(p)' = Behind(p) /\ Ahead(p)' = Ahead(p) /\ Behind(p) \subseteq DOMAIN work[p]
  BY <1>1, <1>3 DEF Behind, Ahead
<1>6. \A i \in Behind(p) : Serving(work[p][i]) => Serving(work[p][i])'
  <2>. SUFFICES ASSUME NEW i \in Behind(p), Serving(work[p][i]) PROVE Serving(work[p][i])'
    OBVIOUS
  <2>1. PICK x \in Inbound : x = work[p][i] /\ x = work'[p][i]
    BY <1>1, <1>2, <1>5
  <2>2. Serving(x)'
    BY <1>1, <1>4, <2>1, ServingKept DEF IInv
  <2>. QED  BY <2>1, <2>2
<1>7. InLoop(p)'
  BY <1>1, <1>2, <1>3, <1>5, <1>6 DEF InLoop, SamePort
<1>8. Knows(p)'
  BY <1>1, <1>2, <1>3, <1>7 DEF Knows, Looping
<1>9. NoOrphans'
  BY <1>1, <1>4, NoOrphansKept DEF SInv
<1>10. Statuses'
  <2>. SUFFICES ASSUME NEW n \in Names PROVE Matched(n)' \/ Starting(n)'
    BY DEF Statuses
  <2>1. Matched(n) \/ Inb(p).name = n
    BY <1>1, <1>2, StatusesSeen
  <2>2. Starting(n)' <=> Inb(p)'.name = n
    BY <1>1, <1>2, <1>3, OnlyStarter
  <2>. QED  BY <1>1, <1>3, <2>1, <2>2 DEF Matched
<1>. QED  BY <1>1, <1>2, <1>8, <1>9, <1>10, RestartStep

\* The inbound in hand stands at its index, and no other inbound has its name.
LEMMA InHandIndex ==
  ASSUME IInv, SInv, NEW p \in Procs, pc[p] \in Looping \ {"begin"}
  PROVE  /\ InboundIndex(work[p], Inb(p).name) = loop[p].at
         /\ Inb(p) = work[p][loop[p].at] /\ Inb(p) \in Inbound /\ Inb(p).name \in Names
         /\ \A i \in DOMAIN work[p] : work[p][i].name = Inb(p).name => i = loop[p].at
         /\ \A i \in Behind(p) \cup Ahead(p) : work[p][i].name # Inb(p).name
<1>1. loop[p].at \in DOMAIN work[p] /\ DistinctNames(work[p]) /\ DOMAIN work[p] \subseteq Nat
      /\ \A i \in DOMAIN work[p] : work[p][i] \in Inbound /\ work[p][i].name \in Names
  BY InHand
<1>2. HasName(work[p], Inb(p).name)
  BY <1>1 DEF HasName, Inb
<1>3. \A i \in DOMAIN work[p] : work[p][i].name = Inb(p).name => i = loop[p].at
  BY <1>1 DEF DistinctNames, Inb
<1>4. \A i \in Behind(p) \cup Ahead(p) : i \in DOMAIN work[p] /\ i # loop[p].at
  BY <1>1 DEF Behind, Ahead
<1>5. \A i \in Behind(p) \cup Ahead(p) : work[p][i].name # Inb(p).name
  BY <1>3, <1>4
<1>. QED  BY <1>1, <1>2, <1>3, <1>5, InboundIndexType DEF Inb

LEMMA BindRetrySerial ==
  ASSUME IInv, SInv, NEW p \in Procs, BindRetry(p)
  PROVE  SInv'
<1> PICK at : at = loop[p].at
  OBVIOUS
<1>1. /\ pc[p] = "bind" /\ pc' = [pc EXCEPT ![p] = "bind"]
      /\ loop' = [loop EXCEPT ![p].tries = @ + 1]
      /\ UNCHANGED <<program, store, owner, live, answer>>
  BY DEF BindRetry, IInv, TypeOK
<1>2. /\ Active(p) /\ InLoop(p) /\ DistinctNames(work[p]) /\ SameInbounds(config.inbounds, work[p])
      /\ \A n \in Names : handles[n] # None => HasName(work[p], n)
      /\ loop[p] \in Loops /\ at \in DOMAIN work[p] /\ at \in Nat
      /\ \A i \in DOMAIN work[p] : work[p][i] \in Inbound
  BY <1>1, InHand DEF Looping
<1>3. InboundIndex(work[p], Inb(p).name) = at /\ Inb(p) = work[p][at]
  BY <1>1, InHandIndex DEF Looping
<1>4. PICK q \in Ports : work'[p] = [work[p] EXCEPT ![at].assigned = q]
  <2>1. PICK w \in Retryable(p) : work' = [work EXCEPT ![p] = w]
    BY DEF BindRetry
  <2>2. w \in Reassignments(work[p], at, Free) /\ work'[p] = w
    BY <1>3, <2>1 DEF Retryable, IInv, TypeOK
  <2>. QED  BY <2>2 DEF Reassignments
<1>5. /\ DOMAIN work'[p] = DOMAIN work[p]
      /\ \A i \in DOMAIN work[p] : i # at => work'[p][i] = work[p][i]
      /\ \A i \in DOMAIN work[p] : /\ work'[p][i].name = work[p][i].name
                                   /\ work'[p][i].tag = work[p][i].tag
                                   /\ work'[p][i].udp = work[p][i].udp
                                   /\ work'[p][i].port = work[p][i].port
  <2>1. work'[p] = [work[p] EXCEPT ![at] = [work[p][at] EXCEPT !.assigned = q]]
    BY <1>4
  <2>. QED  BY <1>2, <2>1 DEF Inbound
<1>6. /\ pc'[p] = "bind" /\ loop'[p].at = at /\ loop'[p].up = loop[p].up
      /\ loop'[p].moved = loop[p].moved /\ loop'[p].first = loop[p].first
  BY <1>1, <1>2 DEF IInv, TypeOK, Loops
<1>7. Inb(p)'.name = Inb(p).name
  BY <1>2, <1>3, <1>5, <1>6 DEF Inb
<1>8. /\ Behind(p)' = Behind(p) /\ Ahead(p)' = Ahead(p)
      /\ \A i \in Behind(p) \cup Ahead(p) : i \in DOMAIN work[p] /\ i # at
  BY <1>1, <1>2, <1>5, <1>6 DEF Behind, Ahead
<1>9. \A i \in Behind(p) \cup Ahead(p) : work'[p][i] = work[p][i]
  BY <1>5, <1>8
<1>10. InLoop(p)'
  <2>1. \A i \in Ahead(p)' : handles'[work'[p][i].name] = None /\ SamePort(p, i)'
    BY <1>1, <1>2, <1>8, <1>9 DEF InLoop, SamePort
  <2>2. loop'[p].moved \/ \A i \in Behind(p)' : SamePort(p, i)'
    BY <1>1, <1>2, <1>6, <1>8, <1>9 DEF InLoop, SamePort
  <2>3. loop'[p].up => \A i \in Behind(p)' : Serving(work[p][i])'
    BY <1>1, <1>2, <1>6, <1>8, <1>9 DEF InLoop, Serving
  <2>4. loop'[p].first = EffectivePort(config'.inbounds[loop'[p].at]) /\ handles'[Inb(p)'.name] = None
    BY <1>1, <1>2, <1>6, <1>7 DEF InLoop
  <2>. QED  BY <1>6, <2>1, <2>2, <2>3, <2>4 DEF InLoop
<1>11. DistinctNames(work'[p]) /\ SameInbounds(config'.inbounds, work'[p])
  BY <1>1, <1>2, <1>5 DEF DistinctNames, SameInbounds
<1>12. \A n \in Names : handles'[n] # None => HasName(work'[p], n)
  BY <1>1, <1>2, <1>5 DEF HasName
<1>13. Knows(p)'
  BY <1>6, <1>10, <1>11, <1>12 DEF Knows, Looping
<1>14. NoOrphans'
  BY <1>1, NoOrphansKept, SameListeners DEF SInv
<1>15. Statuses'
  <2>. SUFFICES ASSUME NEW n \in Names PROVE Matched(n)' \/ Starting(n)'
    BY DEF Statuses
  <2>1. Matched(n) \/ Inb(p).name = n
    BY <1>1, <1>2, StatusesSeen
  <2>2. Starting(n)' <=> Inb(p)'.name = n
    BY <1>1, <1>2, <1>6, OnlyStarter
  <2>. QED  BY <1>1, <1>7, <2>1, <2>2 DEF Matched
<1>. QED  BY <1>1, <1>2, <1>13, <1>14, <1>15, RestartStep

\* The inbound in hand has failed or is being served, and the loop goes on.
LEMMA LoopGoesOn ==
  ASSUME IInv, SInv, NEW p \in Procs, pc[p] \in {"bind", "listening"},
         pc' = [pc EXCEPT ![p] = "begin"], NEW st \in {"failed", "listening"},
         runtime' = [runtime EXCEPT ![Inb(p).name] = st],
         UNCHANGED <<program, store, owner, handles, work, answer>>,
         loop'[p].at = loop[p].at + 1, loop'[p].moved = Moved(p),
         loop'[p].up => loop[p].up,
         st = "listening" <=> pc[p] = "listening",
         pc[p] = "bind" => ~loop'[p].up
  PROVE  SInv'
<1> PICK at : at = loop[p].at
  OBVIOUS
<1> PICK inb : inb = Inb(p)
  OBVIOUS
<1>1. /\ Active(p) /\ InLoop(p) /\ DistinctNames(work[p]) /\ SameInbounds(config.inbounds, work[p])
      /\ \A n \in Names : handles[n] # None => HasName(work[p], n)
      /\ at \in DOMAIN work[p] /\ DOMAIN work[p] \subseteq Nat
      /\ \A i \in DOMAIN work[p] : work[p][i] \in Inbound
  BY InHand DEF Looping
<1>2. /\ inb = work[p][at] /\ inb \in Inbound /\ inb.name \in Names
      /\ \A i \in Behind(p) \cup Ahead(p) : work[p][i].name # inb.name
  BY InHandIndex DEF Looping
<1>3. pc'[p] = "begin" /\ runtime'[inb.name] = st
      /\ \A n \in Names : n # inb.name => runtime'[n] = runtime[n]
  BY <1>2 DEF IInv, TypeOK
<1>4. Behind(p)' = Behind(p) \cup {at} /\ Ahead(p)' = Ahead(p)
  BY <1>1, <1>3 DEF Behind, Ahead
<1>5. pc[p] = "listening" => Serving(inb)'
  BY <1>1, <1>3 DEF InLoop, Serving
<1>6. ASSUME NEW i \in Behind(p), Serving(work[p][i])
      PROVE  Serving(work[p][i])'
  <2>1. work[p][i].name \in Names /\ work[p][i].name # inb.name
    BY <1>1, <1>2 DEF Behind, Inbound
  <2>. QED  BY <1>3, <1>6, <2>1 DEF Serving
<1>7. InLoop(p)'
  <2>1. \A i \in Ahead(p)' : handles'[work'[p][i].name] = None /\ SamePort(p, i)'
    BY <1>1, <1>4 DEF InLoop, SamePort
  <2>2. loop'[p].moved \/ \A i \in Behind(p)' : SamePort(p, i)'
    <3>. SUFFICES ASSUME ~Moved(p), NEW i \in Behind(p) \cup {at} PROVE SamePort(p, i)
      BY <1>4 DEF SamePort
    <3>1. CASE i = at
      BY <1>1, <1>2, <3>1 DEF Moved, SamePort, InLoop
    <3>2. CASE i \in Behind(p)
      BY <1>1, <3>2 DEF Moved, InLoop
    <3>. QED  BY <3>1, <3>2
  <2>3. loop'[p].up => \A i \in Behind(p)' : Serving(work[p][i])'
    <3>. SUFFICES ASSUME loop'[p].up, NEW i \in Behind(p) \cup {at} PROVE Serving(work[p][i])'
      BY <1>4
    <3>1. CASE i = at
      BY <1>2, <1>5, <3>1
    <3>2. CASE i \in Behind(p)
      BY <1>1, <1>6, <3>2 DEF InLoop
    <3>. QED  BY <3>1, <3>2
  <2>. QED  BY <1>3, <2>1, <2>2, <2>3 DEF InLoop
<1>8. Knows(p)'
  BY <1>1, <1>3, <1>7 DEF Knows, Looping
<1>9. NoOrphans'
  BY NoOrphansKept, SameListeners DEF SInv
<1>10. Statuses'
  <2>. SUFFICES ASSUME NEW n \in Names PROVE Matched(n)'
    BY DEF Statuses
  <2>1. CASE n = inb.name
    <3>1. st = "listening" <=> handles[n] # None
      BY <1>1, <1>2, <2>1, HandleSocket DEF InLoop, IInv
    <3>. QED  BY <1>3, <2>1, <3>1 DEF Matched
  <2>2. CASE n # inb.name
    <3>1. Matched(n)
      BY <1>1, <2>2, StatusesSeen
    <3>. QED  BY <1>3, <2>2, <3>1 DEF Matched
  <2>. QED  BY <2>1, <2>2
<1>. QED  BY <1>1, <1>8, <1>9, <1>10, RestartStep

LEMMA BindFailSerial ==
  ASSUME IInv, SInv, NEW p \in Procs, BindFail(p)
  PROVE  SInv'
<1>1. pc[p] = "bind" /\ loop \in [Procs -> Loops]
  BY DEF BindFail, IInv, TypeOK
<1>2. loop'[p].at = loop[p].at + 1 /\ loop'[p].moved = Moved(p) /\ ~loop'[p].up
  BY <1>1 DEF BindFail, Loops
<1>. QED  BY <1>1, <1>2, LoopGoesOn DEF BindFail

LEMMA ListeningSerial ==
  ASSUME IInv, SInv, NEW p \in Procs, Listening(p)
  PROVE  SInv'
<1>1. pc[p] = "listening" /\ loop \in [Procs -> Loops]
  BY DEF Listening, IInv, TypeOK
<1>2. loop'[p].at = loop[p].at + 1 /\ loop'[p].moved = Moved(p) /\ loop'[p].up = loop[p].up
  BY <1>1 DEF Listening, Loops
<1>. QED  BY <1>1, <1>2, LoopGoesOn DEF Listening

LEMMA RegisterSerial ==
  ASSUME IInv, SInv, NEW p \in Procs, Register(p)
  PROVE  SInv'
<1> PICK inb : inb = Inb(p)
  OBVIOUS
<1> PICK sock : sock = Socket(inb)
  OBVIOUS
<1>1. /\ pc[p] = "register" /\ pc' = [pc EXCEPT ![p] = "listening"]
      /\ handles' = [handles EXCEPT ![inb.name] = sock]
      /\ owner' = [owner EXCEPT ![sock] = Listener(inb)]
      /\ UNCHANGED <<program, store, runtime, work, loop, answer>>
  BY DEF Register
<1>2. /\ Active(p) /\ InLoop(p) /\ DistinctNames(work[p]) /\ SameInbounds(config.inbounds, work[p])
      /\ \A n \in Names : handles[n] # None => HasName(work[p], n)
      /\ loop[p].at \in DOMAIN work[p]
      /\ \A i \in DOMAIN work[p] : work[p][i] \in Inbound
  BY <1>1, InHand DEF Looping
<1>3. /\ inb = work[p][loop[p].at] /\ inb \in Inbound /\ inb.name \in Names
      /\ \A i \in Behind(p) \cup Ahead(p) : work[p][i].name # inb.name
  BY <1>1, InHandIndex DEF Looping
<1>4. sock \in Sockets /\ owner[sock] = BoundBy(p) /\ handles[inb.name] = None
  BY <1>1, <1>2 DEF IInv, PendingOwned, Pending, InLoop
<1>5. /\ pc'[p] = "listening" /\ handles'[inb.name] = sock /\ owner'[sock] = Listener(inb)
      /\ \A n \in Names : n # inb.name => handles'[n] = handles[n]
      /\ \A s \in Sockets : s # sock => owner'[s] = owner[s]
  BY <1>1, <1>3, <1>4 DEF IInv, TypeOK
<1>6. Inb(p)' = Inb(p)
  BY <1>1 DEF Inb
<1>7. Behind(p)' = Behind(p) /\ Ahead(p)' = Ahead(p)
      /\ Behind(p) \subseteq DOMAIN work[p] /\ Ahead(p) \subseteq DOMAIN work[p]
  BY <1>1, <1>5 DEF Behind, Ahead
<1>8. sock # None
  BY <1>4, NoneAssumption, PortsAssumption DEF Sockets
<1>9. \A i \in Behind(p) : Serving(work[p][i]) => Serving(work[p][i])'
  <2>. SUFFICES ASSUME NEW i \in Behind(p), Serving(work[p][i]) PROVE Serving(work[p][i])'
    OBVIOUS
  <2>1. PICK x \in Inbound : x = work[p][i] /\ x = work'[p][i] /\ x.name # inb.name
    BY <1>1, <1>2, <1>3, <1>7
  <2>2. Socket(x) \in Sockets /\ x.name \in Names
    BY <2>1, HandleSocket DEF Serving, IInv, Inbound
  <2>3. Socket(x) # sock
    BY <1>4, <2>1 DEF Serving, Listener, BoundBy
  <2>4. Serving(x)'
    BY <1>1, <1>5, <2>1, <2>2, <2>3 DEF Serving, Listener
  <2>. QED  BY <2>1, <2>4
<1>10. InLoop(p)'
  <2>1. \A i \in Ahead(p)' : handles'[work'[p][i].name] = None /\ SamePort(p, i)'
    <3>1. \A i \in Ahead(p) : work[p][i].name \in Names /\ work[p][i].name # inb.name
      BY <1>2, <1>3, <1>7 DEF Inbound
    <3>. QED  BY <1>1, <1>2, <1>5, <1>7, <3>1 DEF InLoop, SamePort
  <2>2. loop'[p].moved \/ \A i \in Behind(p)' : SamePort(p, i)'
    BY <1>1, <1>2, <1>7 DEF InLoop, SamePort
  <2>3. loop'[p].up => \A i \in Behind(p)' : Serving(work[p][i])'
    BY <1>1, <1>2, <1>7, <1>9 DEF InLoop
  <2>4. loop'[p].first = EffectivePort(config'.inbounds[loop'[p].at])
    BY <1>1, <1>2 DEF InLoop
  <2>5. handles'[Inb(p)'.name] = Socket(Inb(p)') /\ owner'[Socket(Inb(p)')] = Listener(Inb(p)')
    BY <1>5, <1>6
  <2>. QED  BY <1>5, <2>1, <2>2, <2>3, <2>4, <2>5 DEF InLoop
<1>11. \A n \in Names : handles'[n] # None => HasName(work'[p], n)
  BY <1>1, <1>2, <1>3, <1>5 DEF HasName
<1>12. Knows(p)'
  BY <1>1, <1>2, <1>5, <1>10, <1>11 DEF Knows, Looping
<1>13. NoOrphans'
  <2>. SUFFICES ASSUME NEW s \in Sockets, owner'[s].kind = "listen"
                PROVE  handles'[owner'[s].name] = s
    BY DEF NoOrphans
  <2>1. CASE s = sock
    BY <1>5, <2>1 DEF Listener
  <2>2. CASE s # sock
    <3>1. owner[s] = owner'[s] /\ owner[s] \in Holder
      BY <1>5, <2>2 DEF IInv, TypeOK
    <3>2. handles[owner[s].name] = s /\ owner[s].name \in Names
      BY <3>1 DEF SInv, NoOrphans, Holder
    <3>3. s # None
      BY NoneAssumption, PortsAssumption DEF Sockets
    <3>. QED  BY <1>4, <1>5, <3>1, <3>2, <3>3
  <2>. QED  BY <2>1, <2>2
<1>14. Statuses'
  <2>. SUFFICES ASSUME NEW n \in Names PROVE Matched(n)' \/ Starting(n)'
    BY DEF Statuses
  <2>1. Matched(n) \/ inb.name = n
    BY <1>1, <1>2, StatusesSeen
  <2>2. Starting(n)' <=> Inb(p)'.name = n
    BY <1>1, <1>2, <1>5, OnlyStarter
  <2>3. CASE n # inb.name
    <3>1. handles'[n] = handles[n] /\ runtime'[n] = runtime[n] /\ Matched(n)
      BY <1>1, <1>5, <2>1, <2>3
    <3>. QED  BY <3>1 DEF Matched
  <2>. QED  BY <1>6, <2>2, <2>3
<1>. QED  BY <1>1, <1>2, <1>12, <1>13, <1>14, RestartStep

LEMMA SpawnEndSerial ==
  ASSUME IInv, SInv, NEW p \in Procs, SpawnEnd(p)
  PROVE  SInv'
<1>1. /\ pc[p] = "begin" /\ loop[p].at \notin DOMAIN work[p]
      /\ UNCHANGED <<program, store, owner, live, work, loop, answer>>
  BY DEF SpawnEnd
<1>2. PICK l \in {"return", "merge", "drop"} :
        /\ pc' = [pc EXCEPT ![p] = l]
        /\ l = "return" => ~loop[p].moved
        /\ l = "merge" => loop[p].up
        /\ l = "drop" => ~loop[p].up
  BY DEF SpawnEnd
<1>3. /\ Active(p) /\ InLoop(p) /\ DistinctNames(work[p]) /\ SameInbounds(config.inbounds, work[p])
      /\ \A n \in Names : handles[n] # None => HasName(work[p], n)
      /\ DOMAIN work[p] = 1 .. Len(work[p]) /\ Len(work[p]) \in Nat /\ loop[p].at \in Nat \ {0}
  BY <1>1, InHand DEF Looping
<1>4. pc'[p] = l
  BY <1>2 DEF IInv, TypeOK
<1>5. Behind(p) = DOMAIN work[p]
  BY <1>1, <1>3 DEF Behind
<1>6. ASSUME l = "return", loop[p].up
      PROVE  ServesExactly(config.inbounds)
  <2>1. ASSUME NEW i \in DOMAIN config.inbounds PROVE Serving(config.inbounds[i])
    <3>1. i \in Behind(p) /\ Serving(work[p][i]) /\ SamePort(p, i)
      BY <1>2, <1>3, <1>5, <1>6 DEF InLoop, SameInbounds
    <3>. QED  BY <1>3, <3>1, ServingSame DEF SameInbounds, SamePort
  <2>2. ASSUME NEW n \in Names, handles[n] # None PROVE HasName(config.inbounds, n)
    BY <1>3, <2>2 DEF HasName, SameInbounds
  <2>. QED  BY <2>1, <2>2 DEF ServesExactly
<1>7. l = "merge" => \A i \in DOMAIN work[p] : Serving(work[p][i])
  BY <1>2, <1>3, <1>5 DEF InLoop
<1>8. Knows(p)'
  <2>1. l = "return" /\ loop'[p].up => ServesExactly(config.inbounds)'
    BY <1>1, <1>6 DEF ServesExactly, Serving
  <2>2. l = "merge" => \A i \in DOMAIN work'[p] : Serving(work[p][i])'
    BY <1>1, <1>7 DEF Serving
  <2>. QED  BY <1>1, <1>2, <1>3, <1>4, <2>1, <2>2 DEF Knows, Looping
<1>9. NoOrphans'
  BY <1>1, NoOrphansKept, SameListeners DEF SInv
<1>10. Statuses'
  <2>1. \A n \in Names : Matched(n)
    BY <1>1, <1>3, StatusesSeen
  <2>. QED  BY <1>1, <2>1 DEF Statuses, Matched
<1>. QED  BY <1>1, <1>2, <1>3, <1>8, <1>9, <1>10, RestartStep

LEMMA MergeMovedPortsSerial ==
  ASSUME IInv, SInv, NEW p \in Procs, MergeMovedPorts(p)
  PROVE  SInv'
<1> PICK merged : merged = [config EXCEPT !.inbounds = MergePorts(@, work[p])]
  OBVIOUS
<1>1. /\ pc[p] = "merge" /\ Active(p) /\ UNCHANGED <<program, owner, live, work, answer>>
  BY DEF MergeMovedPorts, Active
<1>2. PICK l \in {"return", "drop"} :
        /\ pc' = [pc EXCEPT ![p] = l]
        /\ l = "return" => config' = merged
        /\ l = "drop" => loop' = [loop EXCEPT ![p].up = FALSE]
  BY DEF MergeMovedPorts
<1>3. pc'[p] = l
  BY <1>2 DEF IInv, TypeOK
<1>4. /\ DistinctNames(work[p]) /\ SameInbounds(config.inbounds, work[p])
      /\ \A n \in Names : handles[n] # None => HasName(work[p], n)
      /\ \A i \in DOMAIN work[p] : Serving(work[p][i])
      /\ config \in Config /\ work[p] \in InboundList
  BY <1>1 DEF SInv, Knows, IInv, TypeOK
<1>5. /\ DOMAIN merged.inbounds = DOMAIN work[p]
      /\ \A i \in DOMAIN work[p] :
           /\ merged.inbounds[i].name = work[p][i].name
           /\ merged.inbounds[i].tag = work[p][i].tag
           /\ merged.inbounds[i].udp = work[p][i].udp
           /\ EffectivePort(merged.inbounds[i]) = EffectivePort(work[p][i])
  <2>1. merged.inbounds = MergePorts(config.inbounds, work[p])
    BY <1>4 DEF Config
  <2>. SUFFICES ASSUME NEW i \in DOMAIN work[p]
                PROVE  /\ merged.inbounds[i].name = work[p][i].name
                       /\ merged.inbounds[i].tag = work[p][i].tag
                       /\ merged.inbounds[i].udp = work[p][i].udp
                       /\ EffectivePort(merged.inbounds[i]) = EffectivePort(work[p][i])
    BY <1>4, <2>1 DEF MergePorts, SameInbounds
  <2>2. PICK c : c = config.inbounds[i]
    OBVIOUS
  <2>3. i \in DOMAIN config.inbounds /\ c \in Inbound /\ c.name = work[p][i].name
        /\ c.tag = work[p][i].tag /\ c.udp = work[p][i].udp /\ c.port = work[p][i].port
    BY <1>4, <2>2, ListElement DEF SameInbounds, Config
  <2>4. HasName(work[p], c.name)
    BY <2>3 DEF HasName
  <2>5. InboundIndex(work[p], c.name) = i
    BY <1>4, <2>3, <2>4, InboundIndexType DEF DistinctNames
  <2>6. merged.inbounds[i] = [c EXCEPT !.assigned = work[p][i].assigned]
    BY <2>1, <2>2, <2>3, <2>4, <2>5 DEF MergePorts
  <2>. QED  BY <2>3, <2>6 DEF Inbound, EffectivePort
<1>6. l = "return" => ServesExactly(config.inbounds)'
  <2>. SUFFICES ASSUME config' = merged PROVE ServesExactly(config.inbounds)'
    BY <1>2
  <2>1. \A i \in DOMAIN merged.inbounds : Serving(merged.inbounds[i])
    BY <1>4, <1>5, ServingSame
  <2>2. \A i \in DOMAIN merged.inbounds : Serving(merged.inbounds[i])'
    BY <1>1, <2>1 DEF Serving
  <2>3. \A n \in Names : handles'[n] # None => HasName(config'.inbounds, n)
    BY <1>1, <1>4, <1>5 DEF HasName
  <2>. QED  BY <2>2, <2>3 DEF ServesExactly
<1>7. l = "drop" => ~loop'[p].up
  BY <1>2 DEF IInv, TypeOK, Loops
<1>8. Knows(p)'
  BY <1>2, <1>3, <1>6, <1>7 DEF Knows, Looping
<1>9. NoOrphans'
  BY <1>1, NoOrphansKept, SameListeners DEF SInv
<1>10. Statuses'
  <2>1. \A n \in Names : Matched(n)
    BY <1>1, StatusesSeen
  <2>. QED  BY <1>1, <2>1 DEF Statuses, Matched
<1>. QED  BY <1>1, <1>2, <1>8, <1>9, <1>10, RestartStep

LEMMA RestartSteps ==
  ASSUME IInv, SInv, NEW p \in Procs, Restarting(p)
  PROVE  SInv'
BY StopSerial, ClearSerial, SpawnCloneSerial, BeginSerial, BindSerial, BindRetrySerial,
   BindFailSerial,
   RegisterSerial, ListeningSerial, SpawnEndSerial, MergeMovedPortsSerial DEF Restarting

-----------------------------------------------------------------------------
(* The environment, and the program's life *)

\* A step that no task takes, and that leaves the handles and statuses alone.
LEMMA OutsideSerial ==
  ASSUME IInv, SInv, UNCHANGED <<program, handles, runtime, pc, local, answer>>, ListenersKept, config' \in Config,
         SameInbounds(config.inbounds, config'.inbounds),
         \A i \in DOMAIN config.inbounds :
           EffectivePort(config'.inbounds[i]) = EffectivePort(config.inbounds[i])
  PROVE  SInv'
<1>1. Alone' /\ NoneDown' /\ Unanswered' /\ NoOrphans'
  BY NoOrphansKept DEF SInv, Alone, Active, NoneDown, Unanswered
<1>2. Statuses'
  BY DEF SInv, Statuses, Matched, Starting, Inb
<1>3. ASSUME NEW x \in Inbound, Serving(x)
      PROVE  Serving(x)'
  BY <1>3, ServingKept DEF IInv
<1>4. ASSUME NEW p \in Procs
      PROVE  Knows(p)'
  <2>1. Knows(p) /\ UNCHANGED <<handles, pc, work, loop>>
    BY DEF SInv
  <2>2. pc[p] \in Looping \cup {"merge"} => SameInbounds(config'.inbounds, work'[p])
    BY <2>1 DEF Knows, SameInbounds
  <2>3. \A i \in DOMAIN work[p] : Serving(work[p][i]) => Serving(work[p][i])'
    <3>. SUFFICES ASSUME NEW i \in DOMAIN work[p], Serving(work[p][i]) PROVE Serving(work[p][i])'
      OBVIOUS
    <3>1. PICK x \in Inbound : x = work[p][i] /\ x = work'[p][i]
      BY <2>1, ListElement DEF IInv, TypeOK
    <3>. QED  BY <1>3, <3>1
  <2>4. pc[p] \in Looping => InLoop(p)'
    <3>. SUFFICES ASSUME pc[p] \in Looping PROVE InLoop(p)'
      OBVIOUS
    <3>1. /\ InLoop(p) /\ SameInbounds(config.inbounds, work[p])
          /\ \A i \in DOMAIN work[p] : work[p][i] \in Inbound
          /\ pc[p] # "begin" => loop[p].at \in DOMAIN work[p]
      BY InHand
    <3>2. /\ Behind(p)' = Behind(p) /\ Ahead(p)' = Ahead(p)
          /\ Behind(p) \subseteq DOMAIN work[p] /\ Ahead(p) \subseteq DOMAIN work[p]
      BY <2>1 DEF Behind, Ahead
    <3>3. \A i \in DOMAIN work[p] : SamePort(p, i) => SamePort(p, i)'
      BY <2>1, <3>1 DEF SamePort, SameInbounds
    <3>4. \A i \in Ahead(p)' : handles'[work'[p][i].name] = None /\ SamePort(p, i)'
      BY <2>1, <3>1, <3>2, <3>3 DEF InLoop
    <3>5. loop'[p].moved \/ \A i \in Behind(p)' : SamePort(p, i)'
      BY <2>1, <3>1, <3>2, <3>3 DEF InLoop
    <3>6. loop'[p].up => \A i \in Behind(p)' : Serving(work[p][i])'
      BY <2>1, <2>3, <3>1, <3>2 DEF InLoop
    <3>7. pc'[p] # "begin" => loop'[p].first = EffectivePort(config'.inbounds[loop'[p].at])
      BY <2>1, <3>1 DEF InLoop, SameInbounds
    <3>8. Inb(p)' = Inb(p) /\ (pc'[p] \in {"bind", "register"} => handles'[Inb(p).name] = None)
      BY <2>1, <3>1 DEF Inb, InLoop
    <3>9. pc'[p] = "listening" => handles'[Inb(p).name] = Socket(Inb(p))
                                  /\ owner'[Socket(Inb(p))] = Listener(Inb(p))
      <4>. SUFFICES ASSUME pc[p] = "listening"
                    PROVE  handles[Inb(p).name] = Socket(Inb(p))
                           /\ owner'[Socket(Inb(p))] = Listener(Inb(p))
        BY <2>1
      <4>1. Inb(p) \in Inbound
        BY InHandIndex DEF Looping
      <4>2. handles[Inb(p).name] = Socket(Inb(p)) /\ owner[Socket(Inb(p))] = Listener(Inb(p))
        BY <3>1 DEF InLoop
      <4>3. Socket(Inb(p)) \in Sockets
        BY <4>1, <4>2, HandleSocket DEF IInv
      <4>. QED  BY <4>2, <4>3 DEF ListenersKept, Listener
    <3>. QED  BY <3>4, <3>5, <3>6, <3>7, <3>8, <3>9 DEF InLoop
  <2>5. ServesExactly(config.inbounds) => ServesExactly(config.inbounds)'
    <3>. SUFFICES ASSUME ServesExactly(config.inbounds) PROVE ServesExactly(config.inbounds)'
      OBVIOUS
    <3>1. ASSUME NEW i \in DOMAIN config'.inbounds PROVE Serving(config.inbounds[i])'
      <4>1. PICK x : x = config'.inbounds[i]
        OBVIOUS
      <4>2. x \in Inbound
        BY <4>1, ListElement DEF Config
      <4>3. Serving(x)
        BY <4>1, ServingSame DEF ServesExactly, SameInbounds
      <4>. QED  BY <1>3, <4>1, <4>2, <4>3
    <3>2. \A n \in Names : handles'[n] # None => HasName(config'.inbounds, n)
      BY DEF ServesExactly, HasName, SameInbounds
    <3>. QED  BY <3>1, <3>2 DEF ServesExactly
  <2>6. pc[p] = "merge" => \A i \in DOMAIN work'[p] : Serving(work[p][i])'
    BY <2>1, <2>3 DEF Knows
  <2>. QED  BY <2>1, <2>2, <2>4, <2>5, <2>6 DEF Knows, Looping
<1>. QED  BY <1>1, <1>2, <1>4 DEF SInv

LEMMA SocketSerial ==
  ASSUME IInv, SInv, NEW s \in Sockets, ForeignGrab(s) \/ ForeignFree(s) \/ Drain(s)
  PROVE  SInv'
<1>1. UNCHANGED <<program, store, live, pc, local, answer>>
  BY DEF ForeignGrab, ForeignFree, Drain
<1>2. ListenersKept
  BY DEF ForeignGrab, ForeignFree, Drain, ListenersKept, Free, FreeSock, Foreign, Closing, IInv,
     TypeOK
<1>3. config' = config /\ config \in Config
  BY <1>1 DEF IInv, TypeOK
<1>4. SameInbounds(config.inbounds, config'.inbounds)
  BY <1>3 DEF SameInbounds
<1>. QED  BY <1>1, <1>2, <1>3, <1>4, OutsideSerial

LEMMA ReaderSerial ==
  ASSUME IInv, SInv, NEW n \in Names, TunnelHost(n) \/ ReaderEnd(n)
  PROVE  SInv'
<1> DEFINE s == config.inbounds
           at == InboundIndex(s, n)
<1>1. UNCHANGED <<program, handles, runtime, owner, pc, local, answer>> /\ ListenersKept
  BY SameListeners DEF TunnelHost, ReaderEnd
<1>2. IInv' /\ config \in Config /\ s \in InboundList
  BY TunnelHostStep, ReaderEndStep DEF IInv, TypeOK, Config
<1>3. config' \in Config
  BY <1>2 DEF IInv, TypeOK
<1>4. config' = config \/ \E h \in Hosts : HasName(s, n) /\ config' = [config EXCEPT !.inbounds[at].host = h]
  BY DEF TunnelHost, ReaderEnd
<1>5. CASE config' = config
  BY <1>1, <1>3, <1>5, OutsideSerial DEF SameInbounds
<1>6. CASE HasName(s, n) /\ \E h \in Hosts : config' = [config EXCEPT !.inbounds[at].host = h]
  <2>1. PICK h \in Hosts : config' = [config EXCEPT !.inbounds[at].host = h]
    BY <1>6
  <2>2. at \in DOMAIN s
    BY <1>6, InboundIndexType
  <2>3. config'.inbounds = [s EXCEPT ![at] = [s[at] EXCEPT !.host = h]]
    BY <1>2, <2>1, <2>2 DEF Config
  <2>4. \A i \in DOMAIN s : s[i] \in Inbound
    BY <1>2, ListElement
  <2>5. /\ DOMAIN config'.inbounds = DOMAIN s
        /\ \A i \in DOMAIN s : /\ config'.inbounds[i].name = s[i].name /\ config'.inbounds[i].tag = s[i].tag
                               /\ config'.inbounds[i].udp = s[i].udp /\ config'.inbounds[i].port = s[i].port
                               /\ config'.inbounds[i].assigned = s[i].assigned
    BY <2>2, <2>3, <2>4 DEF Inbound
  <2>. QED  BY <1>1, <1>3, <2>5, OutsideSerial DEF SameInbounds, EffectivePort
<1>. QED  BY <1>4, <1>5, <1>6

\* With room for one request, it is alone.
LEMMA ArriveAlone ==
  ASSUME IInv, Serial, NEW r \in Reqs, Arrive(r), Alone
  PROVE  \A p \in Procs : ~Active(p)
<1>1. Cardinality(InFlight) < 1 /\ ~Active(Main) /\ \A p, q \in Procs : Active(p) /\ Active(q) => p = q
  BY DEF Arrive, Serial, Alone
<1>. SUFFICES ASSUME NEW q \in Reqs, Active(q) PROVE FALSE
  BY <1>1 DEF Procs
<1>2. InFlight = {q}
  BY <1>1 DEF InFlight, Active, Procs
<1>3. Cardinality({q}) = 1
  BY FS_Singleton
<1>. QED  BY <1>1, <1>2, <1>3

LEMMA ArriveSerial ==
  ASSUME IInv, SInv, Serial, NEW r \in Reqs, Arrive(r)
  PROVE  SInv'
<1>1. \A p \in Procs : ~Active(p)
  BY ArriveAlone DEF SInv
<1>2. PICK l : pc' = [pc EXCEPT ![r] = l]
               /\ l \in {"add", "update", "delete", "regenerate", "account"}
  BY OpsAssumption DEF Arrive, Operations
<1>3. UNCHANGED <<program, owner, handles, runtime, answer>> /\ r \in Procs /\ r # Main /\ Main \in Procs
  BY MainAssumption DEF Arrive, Procs
<1>4. pc[r] = "idle" /\ phase = "up" /\ pc'[r] = l /\ \A q \in Procs \ {r} : pc'[q] = pc[q]
  BY <1>2, <1>3 DEF Arrive, IInv, TypeOK
<1>5. \A q \in Procs \ {r} : ~Active(q)'
  BY <1>1, <1>4 DEF Active
<1>6. Alone'
  BY <1>3, <1>4, <1>5 DEF Alone
<1>7. NoneDown' /\ NoOrphans'
  BY <1>3, NoOrphansKept, SameListeners DEF SInv, NoneDown
<1>8. Unanswered'
  BY <1>3, <1>4 DEF SInv, Unanswered, Procs
<1>9. Statuses'
  <2>1. \A n \in Names : Matched(n)
    BY <1>1 DEF SInv, Statuses, Starting, Active
  <2>. QED  BY <1>3, <2>1 DEF Statuses, Matched
<1>10. \A q \in Procs : Knows(q)'
  BY <1>2, <1>4, <1>5 DEF Knows, Looping, Active
<1>. QED  BY <1>6, <1>7, <1>8, <1>9, <1>10 DEF SInv

\* A step of main, when no task is active but perhaps main itself.
LEMMA MainStep ==
  ASSUME IInv, SInv, \A r \in Reqs : ~Active(r), NEW l,
         pc' = [pc EXCEPT ![Main] = l], UNCHANGED <<owner, handles, runtime, answer>>,
         pc[Main] \notin {"clear", "dropclear", "bind", "register", "listening"},
         phase' # "down", phase' = "up" <=> l \in {"idle", "done"}, Knows(Main)'
  PROVE  SInv'
<1>1. Main \in Procs /\ pc'[Main] = l /\ \A q \in Procs \ {Main} : q \in Reqs /\ pc'[q] = pc[q]
  BY DEF IInv, TypeOK, Procs
<1>2. \A q \in Procs \ {Main} : ~Active(q) /\ ~Active(q)'
  BY <1>1 DEF Active
<1>3. Active(Main)' <=> l \notin {"idle", "done"}
  BY <1>1 DEF Active
<1>4. Alone'
  BY <1>1, <1>2, <1>3 DEF Alone
<1>5. NoneDown' /\ NoOrphans'
  BY NoOrphansKept, SameListeners DEF SInv, NoneDown
<1>6. Unanswered'
  BY <1>1, MainAssumption DEF SInv, Unanswered, Procs
<1>7. Statuses'
  <2>1. \A n \in Names : Matched(n)
    BY <1>2 DEF SInv, Statuses, Starting, Active
  <2>. QED  BY <2>1 DEF Statuses, Matched
<1>8. \A q \in Procs : Knows(q)'
  BY <1>2 DEF Knows, Looping, Active
<1>. QED  BY <1>4, <1>5, <1>6, <1>7, <1>8 DEF SInv

LEMMA MainSerial ==
  ASSUME IInv, SInv, Boot \/ ReturnBoot \/ Shutdown
  PROVE  SInv'
<1>1. Main \in Procs /\ \A r \in Reqs : r \in Procs /\ r # Main
  BY MainAssumption DEF Procs
<1>2. CASE Boot
  <2>1. \A p \in Procs : ~Active(p) /\ pc[p] \in {"idle", "done"}
    BY <1>2 DEF Boot, SInv, Alone, Active
  <2>2. \A n \in Names : handles[n] = None
    BY <1>2 DEF Boot, SInv, NoneDown
  <2>3. pc' = [pc EXCEPT ![Main] = "spawn"] /\ pc'[Main] = "spawn" /\ UNCHANGED <<owner, live, answer>>
        /\ phase' = "boot"
    BY <1>1, <1>2 DEF Boot, IInv, TypeOK
  <2>4. Knows(Main)'
    BY <2>2, <2>3 DEF Knows, Looping
  <2>. QED  BY <1>1, <2>1, <2>3, <2>4, MainStep
<1>3. CASE ReturnBoot
  <2>1. Active(Main) /\ \A r \in Reqs : ~Active(r)
    BY <1>1, <1>3 DEF ReturnBoot, SInv, Alone, Active
  <2>2. pc' = [pc EXCEPT ![Main] = "done"] /\ pc'[Main] = "done" /\ UNCHANGED <<owner, live, answer>>
        /\ phase' = "up" /\ pc[Main] = "return"
    BY <1>1, <1>3 DEF ReturnBoot, IInv, TypeOK
  <2>3. Knows(Main)'
    BY <2>2 DEF Knows, Looping
  <2>. QED  BY <2>1, <2>2, <2>3, MainStep
<1>4. CASE Shutdown
  <2>1. \A p \in Procs : ~Active(p) /\ pc[p] \in {"idle", "done"}
    BY <1>1, <1>4 DEF Shutdown, InFlight, SInv, Alone, Active, Procs
  <2>2. pc' = [pc EXCEPT ![Main] = "stop"] /\ pc'[Main] = "stop" /\ UNCHANGED <<owner, live, answer>>
        /\ phase' = "stopping"
    BY <1>1, <1>4 DEF Shutdown, IInv, TypeOK
  <2>3. Knows(Main)'
    BY <2>2 DEF Knows, Looping
  <2>. QED  BY <1>1, <2>1, <2>2, <2>3, MainStep
<1>. QED  BY <1>2, <1>3, <1>4

LEMMA GoneSerial ==
  ASSUME IInv, SInv, Gone
  PROVE  SInv'
<1>1. phase' = "down" /\ handles' = [n \in Names |-> None] /\ runtime' = [n \in Names |-> "none"]
      /\ \A s \in Sockets : owner'[s].kind # "listen"
  BY DEF Gone, Foreign, FreeSock
<1>2. \A p \in Procs : pc'[p] \in {"idle", "done"}
  BY DEF Gone, InFlight, Procs
<1>3. Alone' /\ NoneDown' /\ NoOrphans'
  BY <1>1, <1>2, MainAssumption DEF Alone, Active, NoneDown, NoOrphans, Procs
<1>4. Unanswered'
  <2>. SUFFICES ASSUME NEW r \in Reqs, pc'[r] # "done" PROVE answer'[r] = "none"
    BY DEF Unanswered
  <2>1. r # Main /\ r \in Procs
    BY MainAssumption DEF Procs
  <2>2. r \notin InFlight /\ pc'[r] = pc[r] /\ answer'[r] = answer[r]
    BY <2>1 DEF Gone
  <2>. QED  BY <2>2 DEF SInv, Unanswered
<1>5. Statuses'
  BY <1>1 DEF Statuses, Matched
<1>6. \A p \in Procs : Knows(p)'
  BY <1>2 DEF Knows, Looping
<1>. QED  BY <1>3, <1>4, <1>5, <1>6 DEF SInv

LEMMA InitSInv == Init => SInv
<1>. SUFFICES ASSUME Init PROVE SInv
  OBVIOUS
<1>1. \A p \in Procs : pc[p] = "idle"
  BY DEF Init
<1>2. Alone /\ NoneDown /\ Unanswered /\ NoOrphans /\ Statuses
  BY <1>1 DEF Init, Alone, Active, NoneDown, Unanswered, NoOrphans, FreeSock, Statuses, Matched,
     Procs
<1>3. \A p \in Procs : Knows(p)
  BY <1>1 DEF Knows, Looping
<1>. QED  BY <1>2, <1>3 DEF SInv

LEMMA NextSInv ==
  ASSUME Serial, IInv, SInv, [Next]_vars
  PROVE  SInv'
<1>1. CASE UNCHANGED vars
  BY <1>1 DEF vars, SInv, Alone, Active, NoneDown, Unanswered, NoOrphans, Statuses, Matched,
     Starting,
              Inb, Knows, InLoop, Behind, Ahead, SamePort, Serving, ServesExactly
<1>2. CASE \E r \in Reqs : Arrive(r) \/ Handling(r)
  BY <1>2, ArriveSerial, HandlerSteps
<1>3. CASE \E p \in Procs : Restarting(p)
  BY <1>3, RestartSteps
<1>4. CASE ReturnBoot \/ Boot \/ Shutdown
  BY <1>4, MainSerial
<1>5. CASE Exit \/ Crash
  BY <1>5, GoneSerial DEF Exit, Crash
<1>6. CASE Environment
  BY <1>6, SocketSerial, ReaderSerial DEF Environment, HangUp, Serial
<1>. QED  BY <1>1, <1>2, <1>3, <1>4, <1>5, <1>6 DEF Next

\* One request at a time, every list that spawn_all works on and everything it has
\* started is as the task that runs it believes (web/mod.rs spawn_all).
THEOREM SerialInvariance == Serial => (Spec => []SInv)
<1>. SUFFICES ASSUME Serial PROVE Spec => []SInv
  OBVIOUS
<1>1. IInv /\ SInv /\ [Next]_vars => SInv'
  BY NextSInv
<1>. QED  BY <1>1, InitSInv, Invariance, PTL DEF Spec

\* Whatever other programs, lingering sockets, failed saves and crashes do, no listener
\* runs whose handle has been lost (web/mod.rs spawn_all, stop_all), as long as clients wait
\* for the answer to one change before they ask for the next.
THEOREM NoOrphansHolds == Serial => (Spec => []NoOrphans)
<1>. SUFFICES ASSUME Serial PROVE Spec => []NoOrphans
  OBVIOUS
<1>1. SInv => NoOrphans
  BY DEF SInv
<1>. QED  BY <1>1, SerialInvariance, PTL

\* On the same terms the status page is right between requests: an inbound is shown as
\* listening exactly when it has a listener, and never as still starting (web/mod.rs
\* spawn_all, stop_all).
THEOREM StatusTruthfulHolds == Serial => (Spec => []StatusTruthful)
<1>. SUFFICES ASSUME Serial PROVE Spec => []StatusTruthful
  OBVIOUS
<1>1. ASSUME SInv PROVE StatusTruthful
  <2>. SUFFICES ASSUME Quiescent, NEW n \in Names PROVE Matched(n)
    BY DEF StatusTruthful, Matched
  <2>1. \A p \in Procs : ~Active(p)
    BY <1>1 DEF Quiescent, InFlight, SInv, Alone, Active, Procs
  <2>. QED  BY <1>1, <2>1 DEF SInv, Statuses, Starting, Active
<1>. QED  BY <1>1, SerialInvariance, PTL

\* The step that acknowledges a node change is the final save.
LEMMA AckIsSave ==
  ASSUME Serial, IInv, SInv, [Next]_vars,
         NEW r \in Reqs, pc[r] = "save", answer'[r] = "200"
  PROVE  Save(r) /\ Reply(r, "200")
<1>1. r \in Procs /\ Active(r) /\ answer[r] = "none" /\ phase # "down" /\ r # Main
  BY MainAssumption DEF SInv, Unanswered, Alone, Active, Procs
<1>2. \A q \in Procs \ {r} : pc[q] \in {"idle", "done"}
  BY <1>1 DEF SInv, Alone, Active
<1>3. answer' # answer
  BY <1>1
<1>4. PICK q \in Reqs : Handling(q)
  <2>1. ~(\E p \in Procs : Restarting(p)) /\ ~ReturnBoot /\ ~Boot /\ ~Shutdown
    BY <1>3 DEF Restarting, ReturnBoot, Boot, Shutdown, Stop, Clear, SpawnClone, Begin, Bind,
       BindRetry,
                BindFail, Register, Listening, SpawnEnd, MergeMovedPorts
  <2>2. ~Exit /\ ~Crash
    BY <1>1 DEF Exit, Crash, Gone, InFlight
  <2>3. ~Environment /\ ~(\E q \in Reqs : Arrive(q)) /\ ~UNCHANGED vars
    BY <1>3 DEF Environment, ForeignGrab, ForeignFree, Drain, TunnelHost, ReaderEnd, HangUp, Serial,
                Arrive, vars
  <2>. QED  BY <2>1, <2>2, <2>3 DEF Next
<1>5. q = r
  BY <1>2, <1>4 DEF Handling, AddCheck, AddClone, UpdateClone, DeleteClone, ReadPrevious,
     PreflightPass,
        PreflightFail, ProbeStart, ProbeStop, Preflighting, Install, Save, Undo, ReturnCommit, ReturnUndo,
        Regenerate, UpdateAccount, Procs
<1>6. Save(r)
  BY <1>4, <1>5 DEF Handling, AddCheck, AddClone, UpdateClone, DeleteClone, ReadPrevious,
     PreflightPass,
        PreflightFail, ProbeStart, ProbeStop, Preflighting, Install, Undo, ReturnCommit, ReturnUndo,
        Regenerate, UpdateAccount
<1>. QED  BY <1>3, <1>6 DEF Save

\* On the same terms a node change is acknowledged only when every inbound of the new
\* configuration, and nothing else, is served with its current contents and the
\* configuration is on disk (web/mod.rs commit_config).
THEOREM AckedIsServedHolds == Serial => (Spec => AckedIsServed)
<1>. SUFFICES ASSUME Serial PROVE Spec => AckedIsServed
  OBVIOUS
<1>1. ASSUME IInv, SInv, [Next]_vars, NEW r \in Reqs, pc[r] = "save", answer'[r] = "200"
      PROVE  ServesExactly(config.inbounds)' /\ disk'.inbounds = config'.inbounds
  <2>1. Save(r) /\ Reply(r, "200")
    BY <1>1, AckIsSave
  <2>2. UNCHANGED <<config, owner, live>>
    BY <2>1 DEF Save
  <2>3. disk' = config
    <3>1. PICK o \in SaveOutcomes :
            /\ disk' = IF o = "fail" THEN disk ELSE config
            /\ \/ o = "ok" /\ promised' = config /\ Reply(r, "200")
               \/ o # "ok" /\ Goto(r, "undo")
      BY <2>1 DEF Save
    <3>2. pc' = [pc EXCEPT ![r] = "done"]
      BY <2>1 DEF Reply
    <3>3. ~(pc' = [pc EXCEPT ![r] = "undo"])
      BY <1>1, <3>2 DEF IInv, TypeOK, Procs
    <3>. QED  BY <3>1, <3>3
  <2>4. Knows(r)
    BY <1>1 DEF SInv, Procs
  <2>5. ServesExactly(config.inbounds)
    BY <1>1, <2>4 DEF Knows
  <2>. QED  BY <2>2, <2>3, <2>5 DEF ServesExactly, Serving
<1>2. IInv /\ SInv /\ [Next]_vars =>
        [\A r \in Reqs : pc[r] = "save" /\ answer'[r] = "200" =>
           ServesExactly(config.inbounds)' /\ disk'.inbounds = config'.inbounds]_vars
  BY <1>1
<1>. QED  BY <1>2, Invariance, SerialInvariance, PTL DEF Spec, AckedIsServed

-----------------------------------------------------------------------------
(* What an edit makes of a list *)

\* The operators of the two modules are the same.
LEMMA SameOperators ==
  ASSUME NEW s
  PROVE  /\ Api!Valid(s) <=> Valid(s)
         /\ \A n : Api!HasName(s, n) <=> HasName(s, n)
         /\ \A n : Api!InboundIndex(s, n) = InboundIndex(s, n)
<1>1. \A n : Api!HasName(s, n) <=> HasName(s, n)
  BY DEF HasName, Api!HasName
<1>2. \A n : Api!InboundIndex(s, n) = InboundIndex(s, n)
  BY DEF InboundIndex, Api!InboundIndex
<1>3. Api!Valid(s) <=> Valid(s)
  BY DEF Valid, DistinctNames, DistinctSockets, Socket, EffectivePort,
         Api!Valid, Api!DistinctNames, Api!DistinctSockets, Api!Socket, Api!EffectivePort
<1>. QED  BY <1>1, <1>2, <1>3

LEMMA WithPortType ==
  ASSUME NEW node \in Inbound, NEW inb \in Api!WithPort(node)
  PROVE  inb \in Inbound /\ inb.port = node.port /\ inb.udp = node.udp
BY DEF Api!WithPort, Inbound

\* With at most one port missing, assign_missing_ports gives a port to that inbound.
LEMMA AssignOne ==
  ASSUME NEW s \in InboundList, NEW k \in DOMAIN s, Missing(s) \subseteq {k},
         NEW x, s[k] = x, NEW free, NEW t \in Assignments(s, free)
  PROVE  \E inb \in Api!WithPort(x) : t = [s EXCEPT ![k] = inb]
<1>1. PICK f \in [Missing(s) -> Ports] :
        t = [i \in DOMAIN s |-> IF i \in Missing(s) THEN [s[i] EXCEPT !.assigned = f[i]]
                                                   ELSE s[i]]
  BY DEF Assignments
<1>2. s = [i \in DOMAIN s |-> s[i]]
  BY DEF InboundList
<1>3. CASE k \in Missing(s)
  <2>1. x.port = 0 /\ x.assigned = None /\ f[k] \in Ports
    BY <1>3 DEF Missing
  <2>2. [x EXCEPT !.assigned = f[k]] \in Api!WithPort(x)
    BY <2>1 DEF Api!WithPort
  <2>3. t = [s EXCEPT ![k] = [x EXCEPT !.assigned = f[k]]]
    BY <1>1, <1>2, <1>3
  <2>. QED  BY <2>2, <2>3
<1>4. CASE k \notin Missing(s)
  <2>1. Missing(s) = {}
    BY <1>4
  <2>2. t = s
    BY <1>1, <1>2, <2>1
  <2>3. s[k] \in Api!WithPort(x)
    BY <1>4 DEF Api!WithPort, Missing
  <2>. QED  BY <1>2, <2>2, <2>3
<1>. QED  BY <1>3, <1>4

\* With none missing it changes nothing.
LEMMA AssignNone ==
  ASSUME NEW s \in InboundList, Missing(s) = {}, NEW free, NEW t \in Assignments(s, free)
  PROVE  t = s
<1>1. PICK f \in [Missing(s) -> Ports] :
        t = [i \in DOMAIN s |-> IF i \in Missing(s) THEN [s[i] EXCEPT !.assigned = f[i]]
                                                   ELSE s[i]]
  BY DEF Assignments
<1>2. s = [i \in DOMAIN s |-> s[i]]
  BY DEF InboundList
<1>. QED  BY <1>1, <1>2

LEMMA ValidComplete ==
  ASSUME NEW s \in InboundList, Valid(s)
  PROVE  Missing(s) = {}
<1>. SUFFICES ASSUME NEW i \in DOMAIN s, s[i].port = 0, s[i].assigned = None PROVE FALSE
  BY DEF Missing
<1>1. EffectivePort(s[i]) = 0
  BY DEF EffectivePort
<1>. QED  BY <1>1 DEF Valid

\* The node of a request is an inbound.
LEMMA NodeType ==
  ASSUME NEW o \in Operations
  PROVE  /\ o.kind \in {"add", "update"} => o.node \in Inbound
         /\ o.kind = "update" => o.name \in Names
         /\ o # NoOp
BY DEF Operations, NoOp

LEMMA Appended ==
  ASSUME NEW d \in InboundList, NEW inb \in Inbound
  PROVE  /\ Append(d, inb) \in InboundList /\ Len(d) + 1 \in DOMAIN Append(d, inb)
         /\ \A i \in DOMAIN Append(d, inb) :
              Append(d, inb)[i] = IF i = Len(d) + 1 THEN inb ELSE d[i]
         /\ \A i \in DOMAIN Append(d, inb) : i # Len(d) + 1 => i \in DOMAIN d
BY DEF InboundList

LEMMA AddedIsChange ==
  ASSUME NEW d \in InboundList, Missing(d) = {}, NEW o, o.kind = "add", NEW node \in Inbound,
         o.node = node, NEW free, NEW t \in Assignments(Append(d, node), free)
  PROVE  t \in Api!Changed(d, o)
<1> DEFINE s == Append(d, node)
           k == Len(d) + 1
<1>1. s \in InboundList /\ k \in DOMAIN s /\ s[k] = node
      /\ \A i \in DOMAIN s : i # k => s[i] = d[i] /\ i \in DOMAIN d
  BY Appended
<1>2. Missing(s) \subseteq {k}
  BY <1>1 DEF Missing
<1>3. PICK inb \in Api!WithPort(node) : t = [s EXCEPT ![k] = inb]
  <2>1. t \in Assignments(s, free)
    OBVIOUS
  <2>. HIDE DEF s, k
  <2>. QED  BY <1>1, <1>2, <2>1, AssignOne
<1>4. inb \in Inbound
  BY <1>3, WithPortType
<1>5. [s EXCEPT ![k] = inb] = Append(d, inb)
  <2>1. [s EXCEPT ![k] = inb] \in Seq(Inbound) /\ Append(d, inb) \in Seq(Inbound)
        /\ Len([s EXCEPT ![k] = inb]) = Len(s) /\ Len(s) = k /\ Len(Append(d, inb)) = k
    BY <1>1, <1>4 DEF InboundList
  <2>2. \A i \in 1 .. k : Append(d, inb)[i] = IF i = k THEN inb ELSE d[i]
    <3>1. DOMAIN Append(d, inb) = 1 .. k
      BY <2>1
    <3>2. \A i \in DOMAIN Append(d, inb) : Append(d, inb)[i] = IF i = k THEN inb ELSE d[i]
      BY <1>4, Appended
    <3>. QED  BY <3>1, <3>2
  <2>3. \A i \in 1 .. k : i \in DOMAIN s
    BY <1>1, <2>1 DEF InboundList
  <2>4. \A i \in 1 .. k : [s EXCEPT ![k] = inb][i] = IF i = k THEN inb ELSE s[i]
    BY <2>3
  <2>5. \A i \in 1 .. k : [s EXCEPT ![k] = inb][i] = Append(d, inb)[i]
    BY <1>1, <2>2, <2>3, <2>4
  <2>. QED  BY <2>1, <2>5, SeqEqual
<1>. QED  BY <1>3, <1>5, SMT DEF Api!Changed

LEMMA Renamed ==
  ASSUME NEW node \in Inbound, NEW n \in Names
  PROVE  /\ [node EXCEPT !.name = n] \in Inbound
         /\ \A x \in Api!WithPort([node EXCEPT !.name = n]) :
              \E b \in Api!WithPort(node) : x = [b EXCEPT !.name = n]
<1> DEFINE m == [node EXCEPT !.name = n]
<1>1. m \in Inbound /\ m.port = node.port /\ m.assigned = node.assigned
  BY DEF Inbound
<1>2. ASSUME NEW x \in Api!WithPort(m)
      PROVE  \E b \in Api!WithPort(node) : x = [b EXCEPT !.name = n]
  <2>1. CASE node.port = 0 /\ node.assigned = None
    <3>1. PICK p \in Ports : x = [m EXCEPT !.assigned = p]
      BY <1>1, <1>2, <2>1 DEF Api!WithPort
    <3>2. x = [[node EXCEPT !.assigned = p] EXCEPT !.name = n]
      BY <3>1 DEF Inbound
    <3>3. [node EXCEPT !.assigned = p] \in Api!WithPort(node)
      BY <2>1 DEF Api!WithPort
    <3>. QED  BY <3>2, <3>3
  <2>2. CASE ~(node.port = 0 /\ node.assigned = None)
    BY <1>1, <1>2, <2>2 DEF Api!WithPort
  <2>. QED  BY <2>1, <2>2
<1>. QED  BY <1>1, <1>2

LEMMA UpdatedIsChange ==
  ASSUME NEW d \in InboundList, Missing(d) = {}, NEW o, o.kind = "update", NEW n \in Names, o.name = n,
         NEW node \in Inbound, o.node = node, HasName(d, n), NEW free,
         NEW t \in Assignments([d EXCEPT ![InboundIndex(d, n)] = [node EXCEPT !.name = n]], free)
  PROVE  t \in Api!Changed(d, o)
<1> DEFINE k == InboundIndex(d, n)
           m == [node EXCEPT !.name = n]
           s == [d EXCEPT ![k] = m]
<1>1. k \in DOMAIN d /\ m \in Inbound
  BY InboundIndexType, Renamed
<1>2. s \in InboundList /\ DOMAIN s = DOMAIN d /\ s[k] = m /\ \A i \in DOMAIN d \ {k} : s[i] = d[i]
  BY <1>1 DEF InboundList
<1>3. Missing(s) \subseteq {k}
  BY <1>2 DEF Missing
<1>4. PICK inb \in Api!WithPort(m) : t = [s EXCEPT ![k] = inb]
  <2>1. t \in Assignments(s, free)
    OBVIOUS
  <2>. HIDE DEF s, k, m
  <2>. QED  BY <1>1, <1>2, <1>3, <2>1, AssignOne
<1>5. t = [d EXCEPT ![k] = inb]
  BY <1>4
<1>6. PICK b \in Api!WithPort(node) : inb = [b EXCEPT !.name = n]
  BY <1>4, Renamed
<1>7. \E x \in Api!WithPort(node) : t = [d EXCEPT ![Api!InboundIndex(d, n)] = [x EXCEPT !.name = n]]
  BY <1>5, <1>6, SameOperators
<1>. QED  BY <1>7 DEF Api!Changed

LEMMA RemovedElements ==
  ASSUME NEW d \in InboundList, NEW k \in 1 .. Len(d), NEW i \in DOMAIN RemoveAt(d, k)
  PROVE  \E j \in DOMAIN d : RemoveAt(d, k)[i] = d[j]
<1> DEFINE a == SubSeq(d, 1, k - 1)
           b == SubSeq(d, k + 1, Len(d))
<1>1. Len(d) \in Nat /\ DOMAIN d = 1 .. Len(d) /\ d \in Seq(Inbound)
      /\ \A j \in 1 .. Len(d) : d[j] \in Inbound
  BY DEF InboundList
<1>2. a \in Seq(Inbound) /\ Len(a) = k - 1 /\ \A j \in 1 .. k - 1 : a[j] = d[j]
  BY <1>1, SubSeqProperties
<1>3. b \in Seq(Inbound) /\ Len(b) = Len(d) - k /\ \A j \in 1 .. Len(d) - k : b[j] = d[k + j]
  <2>1. /\ b \in Seq(Inbound)
        /\ Len(b) = IF k + 1 <= Len(d) THEN Len(d) - (k + 1) + 1 ELSE 0
        /\ Len(b) \in Nat
        /\ \A j \in 1 .. Len(d) - (k + 1) + 1 : b[j] = d[(k + 1) + j - 1]
    BY <1>1, SubSeqProperties
  <2>. HIDE DEF b
  <2>2. Len(b) = Len(d) - k
    <3>1. k \in Nat /\ k <= Len(d) /\ Len(d) \in Nat
      BY <1>1
    <3>. QED  BY <2>1, <3>1
  <2>3. ASSUME NEW j \in 1 .. Len(d) - k PROVE b[j] = d[k + j]
    <3>1. j \in 1 .. Len(d) - (k + 1) + 1 /\ (k + 1) + j - 1 = k + j
      BY <1>1
    <3>. QED  BY <2>1, <3>1
  <2>. QED  BY <2>1, <2>2, <2>3
<1>. HIDE DEF a, b
<1>4. RemoveAt(d, k) = a \o b
  BY DEF RemoveAt, a, b
<1>5. i \in 1 .. Len(d) - 1 /\ (a \o b)[i] = IF i <= k - 1 THEN a[i] ELSE b[i - (k - 1)]
  <2>1. a \o b \in Seq(Inbound) /\ Len(a \o b) = Len(d) - 1
        /\ \A j \in 1 .. Len(d) - 1 : (a \o b)[j] = IF j <= k - 1 THEN a[j] ELSE b[j - (k - 1)]
    <3>1. Len(a) + Len(b) = Len(d) - 1
      BY <1>1, <1>2, <1>3
    <3>2. /\ a \o b \in Seq(Inbound) /\ Len(a \o b) = Len(a) + Len(b)
          /\ \A j \in 1 .. Len(a) + Len(b) : (a \o b)[j] = IF j <= Len(a) THEN a[j] ELSE b[j - Len(a)]
      BY <1>2, <1>3, ConcatProperties
    <3>. QED  BY <1>2, <3>1, <3>2
  <2>2. DOMAIN (a \o b) = 1 .. Len(d) - 1
    BY <2>1
  <2>. QED  BY <1>4, <2>1, <2>2
<1>6. CASE i <= k - 1
  BY <1>1, <1>2, <1>4, <1>5, <1>6
<1>7. CASE ~(i <= k - 1)
  <2>1. i - (k - 1) \in 1 .. Len(d) - k /\ k + (i - (k - 1)) = i + 1 /\ i + 1 \in DOMAIN d
    BY <1>1, <1>5, <1>7
  <2>2. b[i - (k - 1)] = d[i + 1]
    BY <1>3, <2>1
  <2>. QED  BY <1>4, <1>5, <1>7, <2>1, <2>2
<1>. QED  BY <1>6, <1>7

\* What an edit has put in a list was there, or is the node of the request.
LEMMA ChangedElements ==
  ASSUME NEW d \in InboundList, NEW o \in Operations, o.kind \in {"add", "update", "delete"},
         o.kind \in {"update", "delete"} => HasName(d, o.name),
         NEW t \in Api!Changed(d, o), NEW i \in DOMAIN t
  PROVE  \/ \E j \in DOMAIN d : t[i] = d[j]
         \/ /\ o.kind \in {"add", "update"}
            /\ t[i].port = o.node.port /\ t[i].udp = o.node.udp
<1>1. Len(d) \in Nat /\ DOMAIN d = 1 .. Len(d)
  BY DEF InboundList
<1>2. ASSUME o.kind \in {"add", "update"}, NEW inb \in Api!WithPort(o.node)
      PROVE  inb \in Inbound /\ inb.port = o.node.port /\ inb.udp = o.node.udp
  <2>1. PICK node \in Inbound : node = o.node
    BY <1>2, NodeType
  <2>. QED  BY <1>2, <2>1, WithPortType
<1>3. CASE o.kind = "add"
  <2>1. PICK inb \in Api!WithPort(o.node) : t = Append(d, inb)
    BY <1>3 DEF Api!Changed
  <2>2. i \in 1 .. Len(d) + 1 /\ t[i] = IF i <= Len(d) THEN d[i] ELSE inb
    BY <1>1, <2>1 DEF InboundList
  <2>. QED  BY <1>1, <1>2, <1>3, <2>2
<1>4. CASE o.kind = "update"
  <2>1. PICK inb \in Api!WithPort(o.node) :
          t = [d EXCEPT ![Api!InboundIndex(d, o.name)] = [inb EXCEPT !.name = o.name]]
    BY <1>4 DEF Api!Changed
  <2>2. inb \in Inbound /\ inb.port = o.node.port /\ inb.udp = o.node.udp
    BY <1>2, <1>4
  <2>3. i \in DOMAIN d /\ (t[i] = d[i] \/ t[i] = [inb EXCEPT !.name = o.name])
    BY <2>1
  <2>4. [inb EXCEPT !.name = o.name].port = inb.port /\ [inb EXCEPT !.name = o.name].udp = inb.udp
    BY <2>2 DEF Inbound
  <2>. QED  BY <1>4, <2>2, <2>3, <2>4
<1>5. CASE o.kind = "delete"
  <2> DEFINE k == InboundIndex(d, o.name)
  <2>1. k \in 1 .. Len(d)
    BY <1>1, <1>5, InboundIndexType
  <2>2. t = RemoveAt(d, k)
    <3>1. t = RemoveAt(d, Api!InboundIndex(d, o.name))
      BY <1>5 DEF Api!Changed, RemoveAt, Api!RemoveAt
    <3>. QED  BY <3>1, SameOperators
  <2>. QED  BY <2>1, <2>2, RemovedElements
<1>. QED  BY <1>3, <1>4, <1>5

-----------------------------------------------------------------------------
(* What makes a change one step: other programs do not take the sockets of the *)
(* acknowledged configuration, nor those an automatic port may be drawn from,  *)
(* a socket is free once its task has ended, a failed save leaves the file, no *)
(* inbound is behind a tunnel, and the initial configuration can be served.    *)

Orderly ==
  /\ Serial /\ Polite /\ Linger = {} /\ TunnelTags = {} /\ "late" \notin SaveOutcomes
  /\ \A i \in DOMAIN InitConfig.inbounds : InitConfig.inbounds[i].tag \notin DeafTags
  /\ \A o \in Ops : o.kind \in {"add", "update"} /\ o.node.port = 0 =>
       \A q \in Ports : <<o.node.udp, q>> \notin ForeignSocks

Early   == {"add", "clone", "update", "delete", "regenerate", "account",
            "previous", "preflight", "probing"}
Restart == {"stop", "clear", "spawn", "return"} \cup Looping
Late    == Restart \cup {"save", "undo"}

\* The candidate of a request is installed, and not yet acknowledged.
Trial(p) == pc[p] \in Late /\ fin[p] = "commit"

\* The candidate is what the request may make of the file.
Fits(r) ==
  /\ op[r].kind \in {"add", "update", "delete"} /\ Api!Meaningful(r)
  /\ next[r] = [disk EXCEPT !.inbounds = next[r].inbounds]
  /\ next[r].inbounds \in Api!Changed(disk.inbounds, op[r])
  /\ Valid(next[r].inbounds)

\* What is on disk is what has been acknowledged, and can be served.
Committed ==
  /\ promised = disk /\ Valid(disk.inbounds)
  /\ \A i \in DOMAIN disk.inbounds : disk.inbounds[i].tag \notin DeafTags

Holders ==
  /\ readers = {}
  /\ \A s \in Sockets :
       /\ owner[s] = Foreign => s \in ForeignSocks \ Claimed(disk.inbounds, DOMAIN disk.inbounds)
       /\ owner[s] # Closing
       /\ owner[s].kind = "listen" => owner[s].tag \notin DeafTags

\* The socket a task has bound for a probe or a listener to come.
Holding(p) ==
  IF pc[p] = "probing" THEN {Socket(Candidate(p))}
  ELSE IF pc[p] = "register" THEN {Socket(Inb(p))} ELSE {}

Taken == {s \in Sockets : owner[s].kind \in {"probe", "bound"}}

\* The task in the loop of spawn_all finds every automatic port free, and every port when
\* it starts what is on disk.
Unhindered(p) ==
  /\ pc[p] \notin {"merge", "drop", "dropclear"}
  /\ pc[p] \in Looping =>
       /\ work[p] = config.inbounds
       /\ \A i \in DOMAIN work[p] : handles[work[p][i].name] \in {None, Socket(work[p][i])}
  /\ pc[p] \in Looping \cup {"return"} => ~loop[p].moved /\ (Trial(p) \/ loop[p].up)
  /\ pc[p] = "register" => Inb(p).tag \notin DeafTags

\* A request is in hand from its arrival to its answer.
Asked(r) ==
  /\ op[r] \in Ops \cup {NoOp}
  /\ op[r] = NoOp <=> pc[r] = "idle"
  /\ pc[r] = "done" => answer[r] # "none"

\* Who has called spawn_all, and what a rolled back commit answers.
Called(p) ==
  IF p = Main THEN fin[p] = "boot" /\ pc[p] \in Restart \cup {"idle", "done", "exit"}
  ELSE /\ pc[p] \in Restart => fin[p] # "boot"
       /\ pc[p] \in {"save", "undo"} => fin[p] = "commit"
       /\ pc[p] = "undo" \/ (pc[p] \in Restart /\ fin[p] = "undo") => code[p] # "none"

\* What a task has in its locals.
Orders(p) ==
  /\ Active(p) => config = IF Trial(p) THEN next[p] ELSE disk
  /\ pc[p] \in {"previous", "preflight", "probing"} \/ Trial(p) => Fits(p)
  /\ pc[p] \in {"preflight", "probing"} \/ Trial(p) => prev[p] = disk
  /\ pc[p] = "clone" => ~HasName(disk.inbounds, op[p].node.name)
  /\ pc[p] \in Early => ServesExactly(config.inbounds)
  /\ p # Main => Asked(p)
  /\ Called(p) /\ Unhindered(p)

AtRest ==
  phase = "up" /\ (\A p \in Procs : ~Active(p)) =>
    config = disk /\ ServesExactly(config.inbounds)

OInv ==
  /\ Committed /\ Holders /\ AtRest
  /\ \A s \in Taken : \E p \in Procs : s \in Holding(p)
  /\ \A p \in Procs : Orders(p)

-----------------------------------------------------------------------------

LEMMA ProcsApart ==
  /\ Main \in Procs /\ \A r \in Reqs : r \in Procs /\ r # Main
  /\ \A p \in Procs : p = Main \/ p \in Reqs
BY MainAssumption DEF Procs

LEMMA IdleOrders ==
  ASSUME NEW q \in Procs, Orders(q), ~Active(q), pc'[q] = pc[q], op'[q] = op[q],
         answer'[q] = answer[q], fin'[q] = fin[q]
  PROVE  Orders(q)'
<1>1. pc[q] \in {"idle", "done"}
  BY DEF Active
<1>2. ~Active(q)' /\ ~Trial(q)'
  BY <1>1 DEF Active, Trial, Late, Restart, Looping
<1>3. Called(q)' /\ Unhindered(q)'
  BY <1>1, <1>2 DEF Orders, Called, Unhindered, Restart, Looping
<1>4. q # Main => Asked(q)'
  BY DEF Orders, Asked
<1>. QED  BY <1>1, <1>2, <1>3, <1>4 DEF Orders, Early

\* A step of the only active task, which goes on.
LEMMA StepOn ==
  ASSUME OInv, NEW p \in Procs, Active(p)', \A q \in Procs \ {p} : ~Active(q),
         \A q \in Procs \ {p} : pc'[q] = pc[q] /\ op'[q] = op[q]
                                /\ answer'[q] = answer[q] /\ fin'[q] = fin[q],
         Committed', Holders', Taken' \subseteq Holding(p)', Orders(p)'
  PROVE  OInv'
<1>1. \A q \in Procs \ {p} : Orders(q)'
  BY IdleOrders DEF OInv
<1>2. AtRest'
  BY DEF AtRest
<1>. QED  BY <1>1, <1>2 DEF OInv

\* The last step of the only active task.
LEMMA StepEnd ==
  ASSUME OInv, NEW p \in Procs, \A q \in Procs \ {p} : ~Active(q),
         \A q \in Procs \ {p} : pc'[q] = pc[q] /\ op'[q] = op[q]
                                /\ answer'[q] = answer[q] /\ fin'[q] = fin[q],
         pc'[p] = "done", p # Main => op[p] # NoOp /\ op'[p] = op[p] /\ answer'[p] # "none",
         p = Main => fin'[p] = "boot",
         Committed', Holders', Taken' = {}, config' = disk', ServesExactly(config.inbounds)'
  PROVE  OInv'
<1>1. \A q \in Procs \ {p} : Orders(q)'
  BY IdleOrders DEF OInv
<1>2. Orders(p)'
  <2>1. ~Active(p)' /\ ~Trial(p)' /\ pc'[p] \notin Early
    BY DEF Active, Trial, Late, Restart, Looping, Early
  <2>2. Called(p)' /\ Unhindered(p)'
    BY <2>1 DEF Called, Unhindered, Restart, Looping
  <2>3. p # Main => Asked(p)'
    BY DEF Asked, OInv, Orders
  <2>. QED  BY <2>1, <2>2, <2>3 DEF Orders
<1>. QED  BY <1>1, <1>2 DEF OInv, AtRest

\* No socket is held by a task that is elsewhere.
LEMMA NoneTaken ==
  ASSUME OInv, \A q \in Procs : pc[q] \notin {"probing", "register"}
  PROVE  Taken = {}
BY DEF OInv, Holding

LEMMA OthersAway ==
  ASSUME SInv, NEW p \in Procs, Active(p)
  PROVE  /\ \A q \in Procs \ {p} : ~Active(q)
         /\ pc[p] \notin {"probing", "register"} =>
              \A q \in Procs : pc[q] \notin {"probing", "register"}
BY DEF SInv, Alone, Active

LEMMA HoldersSame ==
  ASSUME Holders, UNCHANGED <<owner, disk>>, readers' = {}
  PROVE  Holders'
BY DEF Holders

LEMMA CommittedSame ==
  ASSUME Committed, UNCHANGED <<disk, promised>>
  PROVE  Committed'
BY DEF Committed

LEMMA ServesSame ==
  ASSUME NEW s, ServesExactly(s), UNCHANGED <<owner, handles, runtime>>
  PROVE  ServesExactly(s)'
BY DEF ServesExactly, Serving

LEMMA ServesKept ==
  ASSUME TypeOK, ServesExactly(config.inbounds), ListenersKept,
         UNCHANGED <<config, handles, runtime>>
  PROVE  ServesExactly(config.inbounds)'
<1>1. \A i \in DOMAIN config.inbounds : config.inbounds[i] \in Inbound
  BY DEF TypeOK, Config, InboundList
<1>2. \A i \in DOMAIN config.inbounds : Serving(config.inbounds[i])'
  BY <1>1, ServingKept DEF ServesExactly
<1>. QED  BY <1>2 DEF ServesExactly

\* A handler that answers before it has installed anything, or after the last restart.
LEMMA AnswerSame ==
  ASSUME IInv, SInv, OInv, NEW r \in Reqs, NEW a, Reply(r, a), a # "none", Active(r),
         pc[r] \notin {"probing", "register"}, config = disk, ServesExactly(config.inbounds),
         UNCHANGED <<program, store, owner, live, op>>
  PROVE  OInv'
<1>1. r \in Procs /\ r # Main /\ \A q \in Procs \ {r} : ~Active(q)
  BY ProcsApart, OthersAway
<1>2. /\ pc'[r] = "done" /\ answer'[r] = a
      /\ \A q \in Procs \ {r} : pc'[q] = pc[q] /\ answer'[q] = answer[q] /\ fin'[q] = fin[q]
  BY <1>1 DEF Reply, IInv, TypeOK
<1>3. op[r] # NoOp
  BY <1>1 DEF OInv, Orders, Asked, Active
<1>4. Taken' = {}
  BY <1>1, NoneTaken, OthersAway DEF Taken
<1>5. ServesExactly(config.inbounds)'
  BY ServesSame
<1>6. Committed' /\ Holders'
  BY HoldersSame, CommittedSame DEF OInv, Holders
<1>. QED  BY <1>1, <1>2, <1>3, <1>4, <1>5, <1>6, StepEnd

\* A handler at work on what is on disk.
LEMMA EarlyKnows ==
  ASSUME IInv, SInv, OInv, NEW r \in Reqs, pc[r] \in Early
  PROVE  /\ Active(r) /\ config = disk /\ ServesExactly(config.inbounds) /\ ~Trial(r)
         /\ op[r] \in Operations /\ r \in Procs
         /\ pc[r] \in {"add", "update", "delete", "account"} => op[r].kind = pc[r]
         /\ pc[r] = "clone" => op[r].kind = "add"
<1>1. Active(r) /\ ~Trial(r) /\ r \in Procs /\ r # Main
  BY ProcsApart DEF Active, Early, Trial, Late, Restart, Looping
<1>2. op[r] # NoOp /\ op[r] \in Operations \cup {NoOp}
  BY <1>1 DEF OInv, Orders, Asked, Active, IInv, TypeOK
<1>. QED  BY <1>1, <1>2 DEF OInv, Orders, IInv, OpMatches

LEMMA AnswerEarly ==
  ASSUME IInv, SInv, OInv, NEW r \in Reqs, NEW a, Reply(r, a), a # "none", pc[r] \in Early \ {"probing"},
         UNCHANGED <<program, store, owner, live, op>>
  PROVE  OInv'
<1>1. pc[r] \notin {"probing", "register"}
  BY DEF Early
<1>. QED  BY <1>1, AnswerSame, EarlyKnows

\* From one place before the installation to the next.
LEMMA EarlyStep ==
  ASSUME IInv, SInv, OInv, NEW r \in Reqs, pc[r] \in Early, pc'[r] \in Early,
         \A q \in Procs \ {r} : pc'[q] = pc[q],
         UNCHANGED <<config, disk, promised, handles, runtime, readers, op, answer, fin>>, ListenersKept,
         Holders', Taken' \subseteq Holding(r)',
         pc'[r] \in {"previous", "preflight", "probing"} => Fits(r)',
         pc'[r] \in {"preflight", "probing"} => prev'[r] = disk,
         pc'[r] = "clone" => ~HasName(disk.inbounds, op[r].node.name)
  PROVE  OInv'
<1>1. r \in Procs /\ r # Main /\ Active(r) /\ config = disk /\ ServesExactly(config.inbounds)
  BY ProcsApart, EarlyKnows
<1>2. Active(r)' /\ ~Trial(r)' /\ pc'[r] \notin Late
  BY DEF Active, Early, Trial, Late, Restart, Looping
<1>3. ServesExactly(config.inbounds)'
  BY <1>1, ServesKept DEF IInv
<1>4. Called(r)'
  BY <1>1, <1>2 DEF Called, Late
<1>5. Unhindered(r)'
  BY DEF Unhindered, Early, Looping
<1>6. Asked(r)'
  BY <1>1 DEF Asked, OInv, Orders, Active, Early
<1>7. Orders(r)'
  BY <1>1, <1>2, <1>3, <1>4, <1>5, <1>6 DEF Orders
<1>8. Committed'
  BY CommittedSame DEF OInv
<1>. QED  BY <1>1, <1>2, <1>7, <1>8, StepOn, OthersAway

\* The same, when no socket changes hands.
LEMMA EarlyMove ==
  ASSUME IInv, SInv, OInv, NEW r \in Reqs, pc[r] \in Early \ {"probing"},
         NEW l \in Early \ {"probing"}, pc' = [pc EXCEPT ![r] = l],
         UNCHANGED <<store, owner, live, op, answer, fin>>,
         l \in {"previous", "preflight"} => Fits(r)',
         l = "preflight" => prev'[r] = disk,
         l = "clone" => ~HasName(disk.inbounds, op[r].node.name)
  PROVE  OInv'
<1>1. r \in Procs /\ Active(r) /\ pc'[r] = l /\ \A q \in Procs \ {r} : pc'[q] = pc[q]
  BY ProcsApart, EarlyKnows DEF IInv, TypeOK
<1>2. pc[r] \notin {"probing", "register"}
  BY DEF Early
<1>3. Taken' = {}
  BY <1>1, <1>2, NoneTaken, OthersAway DEF Taken
<1>4. Holders'
  BY HoldersSame DEF OInv, Holders
<1>. QED  BY <1>1, <1>3, <1>4, EarlyStep, SameListeners

-----------------------------------------------------------------------------
(* The handlers, up to the installation of the candidate *)

LEMMA FitsKept ==
  ASSUME NEW r \in Reqs, Fits(r), next'[r] = next[r], op'[r] = op[r], disk' = disk
  PROVE  Fits(r)'
<1>1. Api!Meaningful(r)'
  BY DEF Fits, Api!Meaningful
<1>. QED  BY <1>1 DEF Fits

LEMMA ArriveOrderly ==
  ASSUME IInv, SInv, OInv, Serial, NEW r \in Reqs, Arrive(r)
  PROVE  OInv'
<1>1. r \in Procs /\ r # Main /\ \A p \in Procs : ~Active(p) /\ pc[p] \in {"idle", "done"}
  BY ProcsApart, ArriveAlone DEF SInv, Active
<1>2. PICK o \in Ops : op' = [op EXCEPT ![r] = o] /\ pc' = [pc EXCEPT ![r] = o.kind]
  BY DEF Arrive
<1>3. o.kind \in {"add", "update", "delete", "regenerate", "account"} /\ o # NoOp
  BY OpsAssumption, NodeType DEF Operations
<1>4. UNCHANGED <<phase, config, disk, promised, owner, handles, runtime, readers, fin, answer>>
  BY DEF Arrive
<1>5. /\ pc'[r] = o.kind /\ op'[r] = o
      /\ \A q \in Procs \ {r} : pc'[q] = pc[q] /\ op'[q] = op[q]
  BY <1>1, <1>2 DEF IInv, TypeOK
<1>6. config = disk /\ ServesExactly(config.inbounds)
  BY <1>1 DEF Arrive, OInv, AtRest
<1>7. Taken' = {} /\ Committed' /\ Holders'
  BY <1>1, <1>4, NoneTaken, CommittedSame, HoldersSame DEF Taken, OInv, Holders
<1>8. ServesExactly(config.inbounds)'
  BY <1>4, <1>6, ServesSame
<1>9. Active(r)' /\ ~Trial(r)'
  BY <1>3, <1>5 DEF Active, Trial, Late, Restart, Looping
<1>10. Asked(r)' /\ Called(r)' /\ Unhindered(r)'
  BY <1>1, <1>3, <1>5 DEF Asked, Called, Unhindered, Restart, Looping
<1>11. Orders(r)'
  BY <1>3, <1>4, <1>5, <1>6, <1>8, <1>9, <1>10 DEF Orders, Early
<1>. QED  BY <1>1, <1>4, <1>5, <1>7, <1>9, <1>11, StepOn

LEMMA AddCheckOrderly ==
  ASSUME IInv, SInv, OInv, NEW r \in Reqs, AddCheck(r)
  PROVE  OInv'
<1>1. pc[r] \in Early \ {"probing"} /\ config = disk
  BY EarlyKnows DEF AddCheck, Early
<1>2. CASE Reply(r, "409")
  BY <1>1, <1>2, AnswerEarly DEF AddCheck
<1>3. CASE ~Reply(r, "409")
  BY <1>1, <1>3, EarlyMove DEF AddCheck, Early
<1>. QED  BY <1>2, <1>3

\* What the handlers hand to commit_config fits their request.
LEMMA SubmitOrderly ==
  ASSUME IInv, SInv, OInv, NEW r \in Reqs, pc[r] \in {"clone", "update", "delete"},
         NEW s \in Api!Changed(disk.inbounds, op[r]), Submit(r, s), Api!Meaningful(r),
         UNCHANGED <<program, store, owner, live, op>>
  PROVE  OInv'
<1>1. pc[r] \in Early \ {"probing"} /\ config = disk /\ op[r].kind \in {"add", "update", "delete"} /\ r \in Procs
  BY EarlyKnows DEF Early
<1>2. CASE Reply(r, "422")
  BY <1>1, <1>2, AnswerEarly
<1>3. CASE Valid(s) /\ next' = [next EXCEPT ![r] = [config EXCEPT !.inbounds = s]]
           /\ pc' = [pc EXCEPT ![r] = "previous"] /\ UNCHANGED <<fin, answer>>
  <2>1. next'[r] = [disk EXCEPT !.inbounds = s]
    BY <1>1, <1>3 DEF IInv, TypeOK
  <2>2. next'[r].inbounds = s
    BY <2>1 DEF IInv, TypeOK, Config
  <2>3. Api!Meaningful(r)'
    BY DEF Api!Meaningful
  <2>4. Fits(r)'
    BY <1>1, <1>3, <2>1, <2>2, <2>3 DEF Fits
  <2>. QED  BY <1>1, <1>3, <2>4, EarlyMove DEF Early
<1>. QED  BY <1>2, <1>3 DEF Submit

LEMMA AssignOrderly ==
  ASSUME IInv, SInv, OInv, NEW r \in Reqs, pc[r] \in {"clone", "update"}, NEW s,
         \A t \in Assignments(s, Free) : t \in Api!Changed(disk.inbounds, op[r]),
         AssignAndSubmit(r, s), Api!Meaningful(r),
         UNCHANGED <<program, store, owner, live, op>>
  PROVE  OInv'
<1>1. CASE Reply(r, "422")
  BY <1>1, AnswerEarly DEF Early
<1>2. CASE \E t \in Assignments(s, Free) : Submit(r, t)
  BY <1>2, SubmitOrderly
<1>. QED  BY <1>1, <1>2 DEF AssignAndSubmit

LEMMA EditOrderly ==
  ASSUME IInv, SInv, OInv, NEW r \in Reqs, AddClone(r) \/ UpdateClone(r) \/ DeleteClone(r)
  PROVE  OInv'
<1> DEFINE d == disk.inbounds
<1>1. pc[r] \in Early /\ config = disk /\ op[r] \in Operations /\ r \in Procs
  BY EarlyKnows DEF AddClone, UpdateClone, DeleteClone, Early
<1>2. d \in InboundList /\ Missing(d) = {}
  BY ValidComplete DEF OInv, Committed, IInv, TypeOK, Config
<1>3. CASE AddClone(r)
  <2>1. pc[r] = "clone" /\ AssignAndSubmit(r, Append(d, op[r].node)) /\ op[r].kind = "add"
        /\ ~HasName(d, op[r].node.name)
    BY <1>1, <1>3, EarlyKnows DEF AddClone, OInv, Orders
  <2>2. op[r].node \in Inbound
    BY <1>1, <2>1, NodeType
  <2>3. \A t \in Assignments(Append(d, op[r].node), Free) : t \in Api!Changed(d, op[r])
    BY <1>2, <2>1, <2>2, AddedIsChange
  <2>4. Api!Meaningful(r)
    BY <2>1, SameOperators DEF Api!Meaningful
  <2>. QED  BY <1>3, <2>1, <2>3, <2>4, AssignOrderly DEF AddClone
<1>4. CASE UpdateClone(r)
  <2> DEFINE n == op[r].name
  <2>1. CASE Reply(r, "404")
    BY <1>1, <1>4, <2>1, AnswerEarly DEF UpdateClone
  <2>2. CASE HasName(d, n) /\ AssignAndSubmit(r, [d EXCEPT ![InboundIndex(d, n)] =
                                                     [op[r].node EXCEPT !.name = n]])
    <3>1. pc[r] = "update" /\ op[r].kind = "update"
      BY <1>4, EarlyKnows DEF UpdateClone, Early
    <3>2. op[r].node \in Inbound /\ n \in Names
      BY <1>1, <3>1, NodeType
    <3>3. \A t \in Assignments([d EXCEPT ![InboundIndex(d, n)] = [op[r].node EXCEPT !.name = n]], Free) :
            t \in Api!Changed(d, op[r])
      BY <1>2, <2>2, <3>1, <3>2, UpdatedIsChange
    <3>4. Api!Meaningful(r)
      BY <2>2, <3>1, SameOperators DEF Api!Meaningful
    <3>. QED  BY <1>4, <2>2, <3>1, <3>3, <3>4, AssignOrderly DEF UpdateClone
  <2>. QED  BY <1>1, <1>4, <2>1, <2>2 DEF UpdateClone
<1>5. CASE DeleteClone(r)
  <2> DEFINE n == op[r].name
  <2>1. CASE Reply(r, "404")
    BY <1>1, <1>5, <2>1, AnswerEarly DEF DeleteClone
  <2>2. CASE HasName(d, n) /\ Submit(r, RemoveAt(d, InboundIndex(d, n)))
    <3>1. pc[r] = "delete" /\ op[r].kind = "delete"
      BY <1>5, EarlyKnows DEF DeleteClone, Early
    <3>2. Api!Meaningful(r)
      BY <2>2, <3>1, SameOperators DEF Api!Meaningful
    <3>3. RemoveAt(d, InboundIndex(d, n)) = Api!RemoveAt(d, Api!InboundIndex(d, n))
      BY SameOperators DEF RemoveAt, Api!RemoveAt
    <3>4. RemoveAt(d, InboundIndex(d, n)) \in Api!Changed(d, op[r])
      BY <3>1, <3>3 DEF Api!Changed
    <3>. QED  BY <1>5, <2>2, <3>1, <3>2, <3>4, SubmitOrderly DEF DeleteClone
  <2>. QED  BY <1>1, <1>5, <2>1, <2>2 DEF DeleteClone
<1>. QED  BY <1>3, <1>4, <1>5

LEMMA PreflightOrderly ==
  ASSUME IInv, SInv, OInv, NEW r \in Reqs, ReadPrevious(r) \/ PreflightPass(r) \/ PreflightFail(r)
  PROVE  OInv'
<1>1. pc[r] \in {"previous", "preflight"} /\ pc[r] \in Early \ {"probing"} /\ r \in Procs
      /\ config = disk /\ Fits(r)
  BY EarlyKnows DEF ReadPrevious, PreflightPass, PreflightFail, Preflighting, Early, OInv, Orders
<1>2. CASE ReadPrevious(r)
  <2>1. Fits(r)' /\ prev'[r] = disk
    BY <1>1, <1>2, FitsKept DEF ReadPrevious, IInv, TypeOK
  <2>. QED  BY <1>1, <1>2, <2>1, EarlyMove DEF ReadPrevious, Early
<1>3. CASE PreflightPass(r)
  <2>1. pc[r] = "preflight" /\ pc' = [pc EXCEPT ![r] = "preflight"] /\ prev[r] = disk
    BY <1>1, <1>3 DEF PreflightPass, Preflighting, IInv, TypeOK, OInv, Orders
  <2>2. Fits(r)' /\ prev'[r] = disk
    BY <1>1, <1>3, <2>1, FitsKept DEF PreflightPass
  <2>. QED  BY <1>1, <1>3, <2>1, <2>2, EarlyMove DEF PreflightPass, Early
<1>4. CASE PreflightFail(r)
  BY <1>1, <1>4, AnswerEarly DEF PreflightFail
<1>. QED  BY <1>2, <1>3, <1>4

LEMMA ProbeOrderly ==
  ASSUME IInv, SInv, OInv, Linger = {}, NEW r \in Reqs, ProbeStart(r) \/ ProbeStop(r)
  PROVE  OInv'
<1> DEFINE s == Socket(Candidate(r))
<1>1. pc[r] \in {"preflight", "probing"} /\ pc[r] \in Early /\ r \in Procs /\ Fits(r) /\ prev[r] = disk
      /\ Active(r)
  BY EarlyKnows DEF ProbeStart, ProbeStop, Preflighting, Early, OInv, Orders
<1>2. \A q \in Procs \ {r} : ~Active(q)
  BY <1>1, OthersAway
<1>3. CASE ProbeStart(r)
  <2>1. pc[r] = "preflight" /\ pc'[r] = "probing" /\ \A q \in Procs \ {r} : pc'[q] = pc[q]
    BY <1>1, <1>3 DEF ProbeStart, Preflighting, IInv, TypeOK
  <2>2. s \in Sockets /\ owner[s] = FreeSock /\ owner' = [owner EXCEPT ![s] = Probe(r)]
    BY <1>3 DEF ProbeStart, Free
  <2>3. ListenersKept
    BY <2>2 DEF ListenersKept, FreeSock, Probe, IInv, TypeOK
  <2>4. Taken = {}
    BY <1>1, <2>1, NoneTaken, OthersAway
  <2>5. Holding(r)' = {s}
    BY <1>3, <2>1 DEF ProbeStart, Holding, Candidate
  <2>6. \A x \in Sockets : owner'[x] = owner[x] \/ x = s
    BY <2>2 DEF IInv, TypeOK
  <2>7. Taken' \subseteq Holding(r)'
    BY <2>4, <2>5, <2>6 DEF Taken
  <2>8. Holders'
    BY <1>3, <2>2 DEF ProbeStart, OInv, Holders, Probe, Foreign, Closing, IInv, TypeOK
  <2>9. Fits(r)' /\ prev'[r] = disk
    BY <1>1, <1>3, FitsKept DEF ProbeStart
  <2>. QED  BY <1>1, <1>3, <2>1, <2>3, <2>7, <2>8, <2>9, EarlyStep DEF ProbeStart, Early
<1>4. CASE ProbeStop(r)
  <2>1. s \in Sockets /\ owner[s] = Probe(r) /\ pc[r] = "probing"
    BY <1>1, <1>4 DEF ProbeStop, IInv, PendingOwned, Pending
  <2>2. PICK h \in Released(s) :
          /\ owner' = [owner EXCEPT ![s] = h]
          /\ \/ /\ pc' = [pc EXCEPT ![r] = "preflight"] /\ Advance(r)
                /\ UNCHANGED <<next, prev, work, fin, code, answer>>
             \/ h = Closing /\ Reply(r, "409")
    BY <1>4 DEF ProbeStop
  <2>3. owner' = [owner EXCEPT ![s] = FreeSock] /\ pc' = [pc EXCEPT ![r] = "preflight"]
        /\ UNCHANGED <<next, prev, fin, answer>>
    <3>1. Released(s) = {FreeSock} /\ FreeSock # Closing
      BY DEF Released, FreeSock, Closing
    <3>2. h = FreeSock /\ h # Closing
      BY <2>2, <3>1
    <3>. QED  BY <2>2, <3>2
  <2>4. pc'[r] = "preflight" /\ \A q \in Procs \ {r} : pc'[q] = pc[q]
    BY <1>1, <2>3 DEF IInv, TypeOK
  <2>5. ListenersKept
    BY <2>1, <2>3 DEF ListenersKept, FreeSock, Probe, IInv, TypeOK
  <2>6. Taken \subseteq {s}
    <3>1. \A q \in Procs \ {r} : Holding(q) = {}
      BY <1>2 DEF Active, Holding
    <3>2. Holding(r) = {s}
      BY <2>1 DEF Holding
    <3>. QED  BY <3>1, <3>2 DEF OInv
  <2>7. Taken' = {}
    BY <2>1, <2>3, <2>6 DEF Taken, FreeSock, IInv, TypeOK
  <2>8. Holders'
    BY <1>4, <2>1, <2>3 DEF ProbeStop, OInv, Holders, FreeSock, Foreign, Closing, IInv, TypeOK
  <2>9. Fits(r)' /\ prev'[r] = disk
    BY <1>1, <1>4, <2>3, FitsKept DEF ProbeStop
  <2>. QED  BY <1>1, <1>4, <2>3, <2>4, <2>5, <2>7, <2>8, <2>9, EarlyStep DEF ProbeStop, Early
<1>. QED  BY <1>3, <1>4

-----------------------------------------------------------------------------
(* The handlers, from the installation on *)

\* From one place of a restart, or around it, to the next.
LEMMA LateStep ==
  ASSUME IInv, SInv, OInv, NEW p \in Procs, Active(p), NEW l \in Late \cup {"exit"},
         pc' = [pc EXCEPT ![p] = l], UNCHANGED <<disk, promised, op, answer>>,
         \A q \in Procs \ {p} : fin'[q] = fin[q], Holders', Taken' \subseteq Holding(p)',
         config' = IF Trial(p)' THEN next'[p] ELSE disk,
         Trial(p)' => Fits(p)' /\ prev'[p] = disk, Called(p)', Unhindered(p)'
  PROVE  OInv'
<1>1. pc'[p] = l /\ \A q \in Procs \ {p} : pc'[q] = pc[q]
  BY DEF IInv, TypeOK
<1>2. l \notin {"idle", "done", "clone", "previous", "preflight", "probing"} \cup Early
  BY DEF Late, Restart, Looping, Early
<1>3. Active(p)'
  BY <1>1, <1>2 DEF Active
<1>4. p # Main => Asked(p)'
  BY <1>1, <1>2 DEF Asked, OInv, Orders, Active
<1>5. Orders(p)'
  BY <1>1, <1>2, <1>4 DEF Orders
<1>6. Committed'
  BY CommittedSame DEF OInv
<1>. QED  BY <1>1, <1>3, <1>5, <1>6, StepOn, OthersAway

\* The same, when no socket changes hands.
LEMMA LateMove ==
  ASSUME IInv, SInv, OInv, NEW p \in Procs, Active(p), NEW l \in Late \cup {"exit"},
         pc[p] \notin {"probing", "register"}, pc' = [pc EXCEPT ![p] = l],
         UNCHANGED <<disk, promised, op, answer, owner, readers>>,
         \A q \in Procs \ {p} : fin'[q] = fin[q],
         config' = IF Trial(p)' THEN next'[p] ELSE disk,
         Trial(p)' => Fits(p)' /\ prev'[p] = disk, Called(p)', Unhindered(p)'
  PROVE  OInv'
<1>1. Taken' = {}
  BY NoneTaken, OthersAway DEF Taken
<1>2. Holders'
  BY HoldersSame DEF OInv, Holders
<1>. QED  BY <1>1, <1>2, LateStep

LEMMA InstallOrderly ==
  ASSUME IInv, SInv, OInv, NEW r \in Reqs, Install(r)
  PROVE  OInv'
<1>1. pc[r] = "preflight" /\ r \in Procs /\ r # Main /\ Active(r) /\ Fits(r) /\ prev[r] = disk
  BY ProcsApart DEF Install, OInv, Orders, Active
<1>2. fin'[r] = "commit" /\ pc'[r] = "stop" /\ \A q \in Procs \ {r} : fin'[q] = fin[q]
  BY <1>1 DEF Install, IInv, TypeOK
<1>3. Trial(r)' /\ Fits(r)' /\ prev'[r] = disk
  BY <1>1, <1>2, FitsKept DEF Install, Trial, Late, Restart
<1>4. Called(r)' /\ Unhindered(r)'
  BY <1>1, <1>2 DEF Called, Unhindered, Restart, Looping
<1>. QED  BY <1>1, <1>2, <1>3, <1>4, LateMove DEF Install, Late, Restart

LEMMA UndoOrderly ==
  ASSUME IInv, SInv, OInv, NEW r \in Reqs, Undo(r)
  PROVE  OInv'
<1>1. pc[r] = "undo" /\ r \in Procs /\ r # Main /\ Active(r) /\ Trial(r) /\ prev[r] = disk /\ code[r] # "none"
  BY ProcsApart DEF Undo, OInv, Orders, Active, Called, Trial, Late
<1>2. fin'[r] = "undo" /\ pc'[r] = "stop" /\ \A q \in Procs \ {r} : fin'[q] = fin[q]
  BY <1>1 DEF Undo, IInv, TypeOK
<1>3. ~Trial(r)'
  BY <1>2 DEF Trial
<1>4. Called(r)' /\ Unhindered(r)'
  BY <1>1, <1>2 DEF Undo, Called, Unhindered, Restart, Looping
<1>. QED  BY <1>1, <1>2, <1>3, <1>4, LateMove DEF Undo, Late, Restart

LEMMA ReturnCommitOrderly ==
  ASSUME IInv, SInv, OInv, NEW r \in Reqs, ReturnCommit(r)
  PROVE  OInv'
<1>1. pc[r] = "return" /\ fin[r] = "commit" /\ r \in Procs /\ r # Main /\ Active(r) /\ Trial(r)
      /\ Fits(r) /\ prev[r] = disk /\ config = next[r]
  BY ProcsApart DEF ReturnCommit, OInv, Orders, Active, Trial, Late, Restart
<1>2. PICK l \in {"save", "undo"} : pc' = [pc EXCEPT ![r] = l] /\ (l = "undo" => code'[r] = "409")
  BY <1>1 DEF ReturnCommit, IInv, TypeOK
<1>3. pc'[r] = l /\ UNCHANGED <<fin, next, prev, op, config, disk>>
  BY <1>1, <1>2 DEF ReturnCommit, IInv, TypeOK
<1>4. Trial(r)' /\ Fits(r)' /\ prev'[r] = disk
  BY <1>1, <1>3, FitsKept DEF Trial, Late
<1>5. Called(r)' /\ Unhindered(r)'
  BY <1>1, <1>2, <1>3 DEF Called, Unhindered, Restart, Looping
<1>. QED  BY <1>1, <1>2, <1>3, <1>4, <1>5, LateMove DEF ReturnCommit, Late

LEMMA ReturnUndoOrderly ==
  ASSUME IInv, SInv, OInv, NEW r \in Reqs, ReturnUndo(r)
  PROVE  OInv'
<1>1. pc[r] = "return" /\ fin[r] = "undo" /\ r \in Procs /\ r # Main /\ Active(r) /\ ~Trial(r)
  BY ProcsApart DEF ReturnUndo, Active, Trial
<1>2. config = disk /\ loop[r].up /\ code[r] # "none"
  BY <1>1 DEF OInv, Orders, Unhindered, Called, Restart
<1>3. ServesExactly(config.inbounds)
  BY <1>1, <1>2 DEF SInv, Knows
<1>. QED  BY <1>1, <1>2, <1>3, AnswerSame DEF ReturnUndo

\* What is served can be on disk.
LEMMA ServedCommitted ==
  ASSUME IInv, Holders, ServesExactly(config.inbounds), Valid(config.inbounds),
         disk' = config, promised' = config, UNCHANGED <<owner, readers>>
  PROVE  Committed' /\ Holders'
<1>1. ASSUME NEW i \in DOMAIN config.inbounds
      PROVE  /\ Socket(config.inbounds[i]) \in Sockets
             /\ owner[Socket(config.inbounds[i])].kind = "listen"
             /\ config.inbounds[i].tag \notin DeafTags
  <2>1. config.inbounds[i] \in Inbound /\ Serving(config.inbounds[i])
    BY DEF IInv, TypeOK, Config, InboundList, ServesExactly
  <2>2. Socket(config.inbounds[i]) \in Sockets
    BY <2>1, HandleSocket DEF Serving, IInv
  <2>. QED  BY <2>1, <2>2 DEF Serving, Listener, Holders
<1>2. Committed'
  BY <1>1 DEF Committed
<1>3. Holders'
  BY <1>1 DEF Holders, Claimed, Foreign
<1>. QED  BY <1>2, <1>3

LEMMA SaveOrderly ==
  ASSUME IInv, SInv, OInv, "late" \notin SaveOutcomes, NEW r \in Reqs, Save(r)
  PROVE  OInv'
<1>1. pc[r] = "save" /\ r \in Procs /\ r # Main /\ Active(r) /\ Trial(r)
      /\ Fits(r) /\ prev[r] = disk /\ config = next[r] /\ fin[r] = "commit"
  BY ProcsApart DEF Save, OInv, Orders, Active, Called, Trial, Late
<1>2. PICK o \in SaveOutcomes :
        /\ disk' = IF o = "fail" THEN disk ELSE config
        /\ \/ o = "ok" /\ promised' = config /\ Reply(r, "200")
           \/ /\ o # "ok" /\ pc' = [pc EXCEPT ![r] = "undo"] /\ code' = [code EXCEPT ![r] = "500"]
              /\ UNCHANGED <<promised, next, prev, work, loop, fin, answer>>
  BY DEF Save
<1>3. UNCHANGED <<config, owner, handles, runtime, readers, op>>
  BY DEF Save
<1>4. CASE o = "ok"
  <2>1. ServesExactly(config.inbounds)
    BY <1>1 DEF SInv, Knows
  <2>2. Valid(config.inbounds) /\ disk' = config /\ promised' = config /\ Reply(r, "200")
    BY <1>1, <1>2, <1>4 DEF Fits
  <2>3. Committed' /\ Holders' /\ ServesExactly(config.inbounds)'
    BY <1>3, <2>1, <2>2, ServedCommitted, ServesSame DEF OInv
  <2>4. pc'[r] = "done" /\ answer'[r] = "200"
        /\ \A q \in Procs \ {r} : pc'[q] = pc[q] /\ answer'[q] = answer[q] /\ fin'[q] = fin[q]
    BY <1>1, <2>2 DEF Reply, IInv, TypeOK
  <2>5. Taken' = {} /\ op[r] # NoOp
    BY <1>1, <1>3, NoneTaken, OthersAway DEF Taken, OInv, Orders, Asked
  <2>. QED  BY <1>1, <1>3, <2>2, <2>3, <2>4, <2>5, StepEnd, OthersAway
<1>5. CASE o # "ok"
  <2>1. disk' = disk /\ promised' = promised /\ pc' = [pc EXCEPT ![r] = "undo"] /\ code' = [code EXCEPT ![r] = "500"]
        /\ UNCHANGED <<next, prev, fin, answer>>
    BY <1>2, <1>5, SaveAssumption
  <2>2. pc'[r] = "undo" /\ code'[r] = "500"
    BY <1>1, <2>1 DEF IInv, TypeOK
  <2>3. Trial(r)' /\ Fits(r)' /\ prev'[r] = disk
    BY <1>1, <1>3, <2>1, <2>2, FitsKept DEF Trial, Late
  <2>4. Called(r)' /\ Unhindered(r)'
    BY <1>1, <2>1, <2>2 DEF Called, Unhindered, Restart, Looping
  <2>. QED  BY <1>1, <1>3, <2>1, <2>3, <2>4, LateMove DEF Late
<1>. QED  BY <1>4, <1>5

\* The writers that keep the inbounds.
LEMMA KeepInbounds ==
  ASSUME IInv, SInv, OInv, NEW r \in Reqs, pc[r] \in {"regenerate", "account"}, NEW new,
         new.inbounds = config.inbounds, config' = new, disk' = new, promised' = new,
         Reply(r, "200"), UNCHANGED <<program, owner, live, op>>
  PROVE  OInv'
<1>1. /\ r \in Procs /\ r # Main /\ Active(r) /\ config = disk /\ ServesExactly(config.inbounds)
      /\ pc[r] \notin {"probing", "register"}
  BY ProcsApart, EarlyKnows DEF Early
<1>2. pc'[r] = "done" /\ answer'[r] = "200"
      /\ \A q \in Procs \ {r} : pc'[q] = pc[q] /\ answer'[q] = answer[q] /\ fin'[q] = fin[q]
  BY <1>1 DEF Reply, IInv, TypeOK
<1>3. Taken' = {} /\ op[r] # NoOp
  BY <1>1, NoneTaken, OthersAway DEF Taken, OInv, Orders, Asked, Active
<1>4. ServesExactly(config.inbounds)'
  BY <1>1 DEF ServesExactly, Serving
<1>5. Committed' /\ Holders'
  BY <1>1 DEF OInv, Committed, Holders
<1>. QED  BY <1>1, <1>2, <1>3, <1>4, <1>5, StepEnd, OthersAway

LEMMA StoreOrderly ==
  ASSUME IInv, SInv, OInv, "late" \notin SaveOutcomes, NEW r \in Reqs, Regenerate(r) \/ UpdateAccount(r)
  PROVE  OInv'
<1>1. config \in Config /\ pc[r] \in Early \ {"probing"}
  BY DEF IInv, TypeOK, Regenerate, UpdateAccount, Early
<1>2. ASSUME NEW a \in {"401", "500"}, Reply(r, a), UNCHANGED <<program, store, owner, live, op>> PROVE OInv'
  BY <1>1, <1>2, AnswerEarly
<1>3. CASE Regenerate(r)
  <2> DEFINE new == [config EXCEPT !.sub = r]
  <2>1. PICK o \in SaveOutcomes :
          /\ disk' = IF o = "fail" THEN disk ELSE new
          /\ \/ o = "ok" /\ config' = new /\ promised' = new /\ Reply(r, "200")
             \/ o # "ok" /\ Reply(r, "500") /\ UNCHANGED <<config, promised>>
    BY <1>3 DEF Regenerate
  <2>2. new.inbounds = config.inbounds
    BY <1>1 DEF Config
  <2>3. CASE o = "ok"
    BY <1>3, <2>1, <2>2, <2>3, KeepInbounds DEF Regenerate
  <2>4. CASE o # "ok"
    BY <1>2, <1>3, <2>1, <2>4, SaveAssumption DEF Regenerate
  <2>. QED  BY <2>3, <2>4
<1>4. CASE UpdateAccount(r)
  <2> DEFINE new == [config EXCEPT !.acct = r]
  <2>1. CASE Reply(r, "401") /\ UNCHANGED store
    BY <1>2, <1>4, <2>1 DEF UpdateAccount
  <2>2. CASE \E o \in SaveOutcomes :
               /\ disk' = IF o = "fail" THEN disk ELSE new
               /\ \/ o = "ok" /\ config' = new /\ promised' = new /\ Reply(r, "200")
                  \/ o # "ok" /\ Reply(r, "500") /\ UNCHANGED <<config, promised>>
    <3>1. PICK o \in SaveOutcomes :
            /\ disk' = IF o = "fail" THEN disk ELSE new
            /\ \/ o = "ok" /\ config' = new /\ promised' = new /\ Reply(r, "200")
               \/ o # "ok" /\ Reply(r, "500") /\ UNCHANGED <<config, promised>>
      BY <2>2
    <3>2. new.inbounds = config.inbounds
      BY <1>1 DEF Config
    <3>3. CASE o = "ok"
      BY <1>4, <3>1, <3>2, <3>3, KeepInbounds DEF UpdateAccount
    <3>4. CASE o # "ok"
      BY <1>2, <1>4, <3>1, <3>4, SaveAssumption DEF UpdateAccount
    <3>. QED  BY <3>3, <3>4
  <2>. QED  BY <1>4, <2>1, <2>2 DEF UpdateAccount
<1>. QED  BY <1>3, <1>4

LEMMA HandlingOrderly ==
  ASSUME IInv, SInv, OInv, Orderly, NEW r \in Reqs, Handling(r)
  PROVE  OInv'
BY AddCheckOrderly, EditOrderly, PreflightOrderly, ProbeOrderly, InstallOrderly, SaveOrderly,
   UndoOrderly, ReturnCommitOrderly, ReturnUndoOrderly, StoreOrderly DEF Handling, Orderly

-----------------------------------------------------------------------------
(* The restart *)

LEMMA RestartOrderly ==
  ASSUME IInv, SInv, OInv, NEW p \in Procs, pc[p] \in Restart, NEW l \in Restart \cup {"exit"},
         l = "exit" => p = Main, pc' = [pc EXCEPT ![p] = l],
         UNCHANGED <<store, op, answer, fin, next, prev, code>>,
         Holders', Taken' \subseteq Holding(p)', Unhindered(p)'
  PROVE  OInv'
<1>1. Active(p) /\ pc'[p] = l /\ pc[p] \in Late
  BY DEF Active, Restart, Looping, Late, IInv, TypeOK
<1>2. Called(p)'
  BY <1>1 DEF OInv, Orders, Called, Restart, Looping
<1>3. Trial(p)' <=> Trial(p)
  BY <1>1 DEF Trial, Late, Restart, Looping, OInv, Orders, Called
<1>4. config' = IF Trial(p)' THEN next'[p] ELSE disk
  BY <1>1, <1>3 DEF OInv, Orders
<1>5. Trial(p) => p \in Reqs
  BY ProcsApart DEF Trial, OInv, Orders, Called
<1>6. Trial(p)' => Fits(p)' /\ prev'[p] = disk
  BY <1>3, <1>5, FitsKept DEF OInv, Orders
<1>. QED  BY <1>1, <1>2, <1>4, <1>6, LateStep DEF Late

\* The same, when no socket changes hands.
LEMMA RestartMove ==
  ASSUME IInv, SInv, OInv, NEW p \in Procs, pc[p] \in Restart \ {"register"}, NEW l \in Restart \cup {"exit"},
         l = "exit" => p = Main, pc' = [pc EXCEPT ![p] = l],
         UNCHANGED <<store, op, answer, fin, next, prev, code, owner, readers>>, Unhindered(p)'
  PROVE  OInv'
<1>1. Active(p) /\ pc[p] \notin {"probing", "register"}
  BY DEF Active, Restart, Looping
<1>2. Taken' = {}
  BY <1>1, NoneTaken, OthersAway DEF Taken
<1>3. Holders'
  BY HoldersSame DEF OInv, Holders
<1>. QED  BY <1>2, <1>3, RestartOrderly

LEMMA StopOrderly ==
  ASSUME IInv, SInv, OInv, Linger = {}, NEW p \in Procs, Stop(p)
  PROVE  OInv'
<1> DEFINE mine == {handles[n] : n \in Names} \ {None}
<1>1. pc[p] = "stop" /\ pc' = [pc EXCEPT ![p] = "clear"] /\ Active(p)
  BY DEF Stop, OInv, Orders, Unhindered, Active
<1>2. pc'[p] = "clear"
  BY <1>1 DEF IInv, TypeOK
<1>3. PICK left \in SUBSET (mine \cap Linger) :
        owner' = [s \in Sockets |-> IF s \in left THEN Closing
                                    ELSE IF s \in mine THEN FreeSock ELSE owner[s]]
  BY DEF Stop
<1>4. \A s \in Sockets : owner'[s] = FreeSock \/ owner'[s] = owner[s]
  BY <1>3
<1>5. Taken = {}
  BY <1>1, NoneTaken, OthersAway
<1>6. Taken' = {} /\ Holders'
  BY <1>4, <1>5 DEF Stop, Taken, OInv, Holders, FreeSock, Foreign, Closing
<1>7. Unhindered(p)'
  BY <1>2 DEF Unhindered, Looping
<1>. QED  BY <1>1, <1>6, <1>7, RestartOrderly DEF Stop, Restart

LEMMA ClearOrderly ==
  ASSUME IInv, SInv, OInv, NEW p \in Procs, Clear(p)
  PROVE  OInv'
<1>1. pc[p] = "clear" /\ Active(p)
  BY DEF Clear, OInv, Orders, Unhindered, Active
<1>2. PICK l \in {"exit", "spawn"} : pc' = [pc EXCEPT ![p] = l] /\ (l = "exit" => phase = "stopping")
  BY <1>1 DEF Clear
<1>3. l = "exit" => p = Main
  BY <1>1, <1>2, ProcsApart DEF SInv, Alone
<1>4. pc'[p] = l
  BY <1>2 DEF IInv, TypeOK
<1>5. Unhindered(p)'
  BY <1>4 DEF Unhindered, Looping
<1>. QED  BY <1>1, <1>2, <1>3, <1>5, RestartMove DEF Clear, Restart

LEMMA SpawnCloneOrderly ==
  ASSUME IInv, SInv, OInv, NEW p \in Procs, SpawnClone(p)
  PROVE  OInv'
<1>1. pc[p] = "spawn" /\ pc' = [pc EXCEPT ![p] = "begin"]
  BY DEF SpawnClone
<1>2. pc'[p] = "begin" /\ work'[p] = config.inbounds /\ loop'[p] = NoLoop
  BY DEF SpawnClone, IInv, TypeOK
<1>3. \A n \in Names : handles[n] = None
  BY <1>1 DEF SInv, Knows
<1>4. \A i \in DOMAIN config.inbounds : config.inbounds[i].name \in Names
  BY ListElement DEF IInv, TypeOK, Config
<1>5. Unhindered(p)'
  BY <1>2, <1>3, <1>4 DEF SpawnClone, Unhindered, NoLoop
<1>. QED  BY <1>1, <1>5, RestartMove DEF SpawnClone, Restart, Looping

LEMMA BeginOrderly ==
  ASSUME IInv, SInv, OInv, NEW p \in Procs, Begin(p)
  PROVE  OInv'
<1>1. pc[p] = "begin" /\ pc' = [pc EXCEPT ![p] = "bind"]
  BY DEF Begin
<1>2. pc'[p] = "bind" /\ loop'[p].moved = loop[p].moved /\ loop'[p].up = loop[p].up
  BY DEF Begin, IInv, TypeOK, Loops
<1>3. fin[p] = "commit" => Trial(p) /\ Trial(p)'
  BY <1>1, <1>2 DEF Begin, Trial, Late, Restart, Looping
<1>4. Unhindered(p)
  BY DEF OInv, Orders
<1>5. Unhindered(p)'
  BY <1>1, <1>2, <1>3, <1>4 DEF Begin, Unhindered, Looping, Trial
<1>. QED  BY <1>1, <1>5, RestartMove DEF Begin, Restart, Looping

\* The list a task works on is valid.
LEMMA WorkValid ==
  ASSUME IInv, OInv, NEW p \in Procs, pc[p] \in Looping
  PROVE  /\ work[p] = config.inbounds /\ Valid(work[p])
         /\ Trial(p) => Fits(p) /\ config = next[p] /\ p \in Reqs /\ op[p] \in Ops
         /\ ~Trial(p) => config = disk
<1>1. Active(p) /\ pc[p] \notin {"idle", "done"}
  BY DEF Active, Looping
<1>2. work[p] = config.inbounds /\ (Trial(p) => Fits(p) /\ config = next[p]) /\ (~Trial(p) => config = disk)
  BY <1>1 DEF OInv, Orders, Unhindered
<1>3. Trial(p) => p \in Reqs /\ p # Main
  BY ProcsApart DEF Trial, OInv, Orders, Called
<1>4. Trial(p) => op[p] \in Ops
  BY <1>1, <1>3 DEF OInv, Orders, Asked
<1>5. Valid(work[p])
  BY <1>2 DEF Fits, OInv, Committed
<1>. QED  BY <1>2, <1>3, <1>4, <1>5

\* No listener and no task of the program is in the way of the one that is being started.
LEMMA OursAway ==
  ASSUME IInv, SInv, OInv, NEW p \in Procs, pc[p] = "bind"
  PROVE  /\ Socket(Inb(p)) \in Sockets
         /\ owner[Socket(Inb(p))] \in {FreeSock, Foreign}
<1> DEFINE s == Socket(Inb(p))
<1>1. /\ Active(p) /\ pc[p] \in Looping /\ handles[Inb(p).name] = None
      /\ loop[p].at \in DOMAIN work[p] /\ Inb(p) \in Inbound
      /\ \A n \in Names : handles[n] # None => HasName(work[p], n)
  BY InHand DEF Looping, InLoop, Inb
<1>2. Valid(work[p])
  BY <1>1, WorkValid
<1>3. s \in Sockets
  BY <1>1, <1>2, SocketType DEF Valid, Inb
<1>4. owner[s] \in Holder /\ owner[s] # Closing
  BY <1>3 DEF IInv, TypeOK, OInv, Holders
<1>5. owner[s].kind \notin {"probe", "bound"}
  BY <1>1, <1>3, NoneTaken, OthersAway DEF Taken
<1>6. owner[s].kind # "listen"
  <2>. SUFFICES ASSUME owner[s].kind = "listen" PROVE FALSE
    OBVIOUS
  <2>1. owner[s].name \in Names /\ handles[owner[s].name] = s
    BY <1>3, <1>4 DEF SInv, NoOrphans, Holder
  <2>2. s # None
    BY <1>3, NoneAssumption, PortsAssumption DEF Sockets
  <2>3. PICK j \in DOMAIN work[p] : work[p][j].name = owner[s].name
    BY <1>1, <2>1, <2>2 DEF HasName
  <2>4. handles[work[p][j].name] = Socket(work[p][j])
    BY <1>1, <2>1, <2>2, <2>3 DEF OInv, Orders, Unhindered
  <2>5. Socket(work[p][j]) = Socket(work[p][loop[p].at])
    BY <2>1, <2>3, <2>4 DEF Inb
  <2>6. j = loop[p].at
    BY <1>1, <1>2, <2>5 DEF Valid, DistinctSockets
  <2>. QED  BY <1>1, <2>1, <2>2, <2>3, <2>6 DEF Inb
<1>7. owner[s] = FreeSock \/ owner[s] = Foreign
  BY <1>4, <1>5, <1>6 DEF Holder, FreeSock, Foreign, Closing
<1>. QED  BY <1>3, <1>7

\* Nor is another program, if the port is automatic or the list is what is on disk.
LEMMA BindsAtOnce ==
  ASSUME Orderly, IInv, SInv, OInv, NEW p \in Procs, pc[p] = "bind", ~Trial(p) \/ Inb(p).port = 0
  PROVE  Socket(Inb(p)) \in Free
<1> DEFINE s == Socket(Inb(p))
           d == disk.inbounds
<1>1. s \in Sockets /\ owner[s] \in {FreeSock, Foreign}
  BY OursAway
<1>2. /\ work[p] = config.inbounds /\ loop[p].at \in DOMAIN work[p] /\ pc[p] \in Looping
      /\ Inb(p) = work[p][loop[p].at] /\ Inb(p) \in Inbound
  BY InHand, WorkValid DEF Looping, Inb
<1>3. ASSUME owner[s] = Foreign, s \in Claimed(d, DOMAIN d) PROVE FALSE
  BY <1>1, <1>3 DEF OInv, Holders
<1>4. CASE ~Trial(p)
  <2>1. s \in Claimed(d, DOMAIN d)
    BY <1>2, <1>4, WorkValid DEF Claimed
  <2>. QED  BY <1>1, <1>3, <2>1 DEF Free
<1>5. CASE Trial(p) /\ Inb(p).port = 0
  <2>1. /\ Fits(p) /\ config = next[p] /\ p \in Reqs /\ op[p] \in Ops /\ op[p] \in Operations
        /\ d \in InboundList
    BY <1>2, <1>5, WorkValid, OpsAssumption DEF IInv, TypeOK, Config
  <2>2. work[p] \in Api!Changed(d, op[p]) /\ op[p].kind \in {"add", "update", "delete"}
    BY <1>2, <2>1 DEF Fits
  <2>3. op[p].kind \in {"update", "delete"} => HasName(d, op[p].name)
    BY <2>1, SameOperators DEF Fits, Api!Meaningful
  <2>4. \/ \E j \in DOMAIN d : Inb(p) = d[j]
        \/ op[p].kind \in {"add", "update"} /\ op[p].node.port = 0 /\ Inb(p).udp = op[p].node.udp
    BY <1>2, <1>5, <2>1, <2>2, <2>3, ChangedElements
  <2>5. CASE \E j \in DOMAIN d : Inb(p) = d[j]
    <3>1. s \in Claimed(d, DOMAIN d)
      BY <2>5 DEF Claimed
    <3>. QED  BY <1>1, <1>3, <3>1 DEF Free
  <2>6. CASE op[p].kind \in {"add", "update"} /\ op[p].node.port = 0 /\ Inb(p).udp = op[p].node.udp
    <3>1. \A q \in Ports : <<op[p].node.udp, q>> \notin ForeignSocks
      BY <2>1, <2>6 DEF Orderly
    <3>2. s = <<op[p].node.udp, EffectivePort(Inb(p))>> /\ EffectivePort(Inb(p)) \in Ports
      BY <1>1, <2>6 DEF Socket, Sockets
    <3>3. owner[s] # Foreign
      BY <1>1, <3>1, <3>2 DEF OInv, Holders
    <3>. QED  BY <1>1, <3>3 DEF Free
  <2>. QED  BY <2>4, <2>5, <2>6
<1>. QED  BY <1>4, <1>5

LEMMA NeverRetried ==
  ASSUME Orderly, IInv, SInv, OInv, NEW p \in Procs
  PROVE  ~BindRetry(p)
<1>. SUFFICES ASSUME BindRetry(p) PROVE FALSE
  OBVIOUS
<1>1. pc[p] = "bind" /\ Busy(p) /\ Inb(p).port = 0
  BY DEF BindRetry, Retryable
<1>. QED  BY <1>1, BindsAtOnce DEF Busy

LEMMA BindOrderly ==
  ASSUME IInv, SInv, OInv, NEW p \in Procs, Bind(p)
  PROVE  OInv'
<1> DEFINE s == Socket(Inb(p))
<1>1. /\ pc[p] = "bind" /\ pc' = [pc EXCEPT ![p] = "register"] /\ s \in Sockets
      /\ owner' = [owner EXCEPT ![s] = BoundBy(p)] /\ Inb(p).tag \notin DeafTags
  BY DEF Bind, Free
<1>2. pc'[p] = "register" /\ Inb(p)' = Inb(p) /\ Active(p)
  BY <1>1 DEF Bind, IInv, TypeOK, Inb, Active
<1>3. Taken = {}
  BY <1>1, <1>2, NoneTaken, OthersAway
<1>4. \A x \in Sockets : owner'[x] = owner[x] \/ x = s
  BY <1>1 DEF IInv, TypeOK
<1>5. Holding(p)' = {s}
  BY <1>2 DEF Bind, Holding, Inb
<1>6. Taken' \subseteq Holding(p)'
  BY <1>3, <1>4, <1>5 DEF Taken
<1>7. Holders'
  BY <1>1 DEF Bind, OInv, Holders, BoundBy, Foreign, Closing, IInv, TypeOK
<1>8. fin[p] = "commit" => Trial(p) /\ Trial(p)'
  BY <1>1, <1>2 DEF Bind, Trial, Late, Restart, Looping
<1>9. Unhindered(p)
  BY DEF OInv, Orders
<1>10. Unhindered(p)'
  BY <1>1, <1>2, <1>8, <1>9 DEF Bind, Unhindered, Looping, Trial
<1>. QED  BY <1>1, <1>6, <1>7, <1>10, RestartOrderly DEF Bind, Restart, Looping

\* The port an inbound was started on is the one it has been configured with.
LEMMA NotMoved ==
  ASSUME IInv, SInv, OInv, NEW p \in Procs, pc[p] \in {"bind", "register", "listening"}
  PROVE  Moved(p) = FALSE
<1>1. pc[p] \in Looping /\ InLoop(p) /\ work[p] = config.inbounds
  BY InHand, WorkValid DEF Looping
<1>2. loop[p].first = EffectivePort(Inb(p))
  BY <1>1 DEF InLoop, Inb
<1>3. ~loop[p].moved
  BY <1>1 DEF OInv, Orders, Unhindered
<1>. QED  BY <1>2, <1>3 DEF Moved

LEMMA BindFailOrderly ==
  ASSUME Orderly, IInv, SInv, OInv, NEW p \in Procs, BindFail(p)
  PROVE  OInv'
<1>1. pc[p] = "bind" /\ pc' = [pc EXCEPT ![p] = "begin"] /\ pc[p] \in Looping
  BY DEF BindFail, Looping
<1>2. Trial(p)
  <2>. SUFFICES ASSUME ~Trial(p) PROVE FALSE
    OBVIOUS
  <2>1. ~Busy(p)
    BY <1>1, BindsAtOnce DEF Busy
  <2>2. config = disk /\ work[p] = config.inbounds /\ loop[p].at \in DOMAIN work[p]
    BY <1>1, WorkValid, InHand
  <2>3. Inb(p).tag \notin DeafTags
    BY <2>2 DEF Inb, OInv, Committed
  <2>. QED  BY <2>1, <2>3 DEF BindFail
<1>3. pc'[p] = "begin" /\ loop'[p].moved = FALSE
  <2>1. Moved(p) = FALSE
    BY <1>1, NotMoved
  <2>. QED  BY <1>1, <2>1 DEF BindFail, IInv, TypeOK, Loops
<1>4. Trial(p)'
  BY <1>2, <1>3 DEF BindFail, Trial, Late, Restart, Looping
<1>5. Unhindered(p)'
  BY <1>1, <1>3, <1>4 DEF BindFail, Unhindered, Looping, OInv, Orders
<1>. QED  BY <1>1, <1>5, RestartMove DEF BindFail, Restart, Looping

LEMMA RegisterOrderly ==
  ASSUME IInv, SInv, OInv, NEW p \in Procs, Register(p)
  PROVE  OInv'
<1> DEFINE s == Socket(Inb(p))
           n == Inb(p).name
<1>1. /\ pc[p] = "register" /\ pc' = [pc EXCEPT ![p] = "listening"] /\ pc[p] \in Looping /\ Active(p)
      /\ handles' = [handles EXCEPT ![n] = s] /\ owner' = [owner EXCEPT ![s] = Listener(Inb(p))]
  BY DEF Register, Looping, Active
<1>2. pc'[p] = "listening" /\ s \in Sockets
  BY <1>1 DEF IInv, TypeOK, PendingOwned, Pending
<1>3. /\ loop[p].at \in DOMAIN work[p] /\ n \in Names /\ DistinctNames(work[p])
      /\ \A i \in DOMAIN work[p] : work[p][i].name \in Names
  BY <1>1, InHand DEF Inb
<1>4. Unhindered(p) /\ Inb(p).tag \notin DeafTags
  BY <1>1 DEF OInv, Orders, Unhindered
<1>5. \A i \in DOMAIN work[p] : handles'[work[p][i].name] \in {None, Socket(work[p][i])}
  <2>. SUFFICES ASSUME NEW i \in DOMAIN work[p]
                PROVE  handles'[work[p][i].name] \in {None, Socket(work[p][i])}
    OBVIOUS
  <2>1. handles' = [handles EXCEPT ![n] = s] /\ handles \in [Names -> Sockets \cup {None}]
    BY <1>1 DEF IInv, TypeOK
  <2>2. CASE work[p][i].name = n
    <3>1. i = loop[p].at
      BY <1>3, <2>2 DEF DistinctNames, Inb
    <3>2. Socket(work[p][i]) = s
      BY <3>1 DEF Inb
    <3>. QED  BY <1>3, <2>1, <2>2, <3>2
  <2>3. CASE work[p][i].name # n
    <3>1. handles'[work[p][i].name] = handles[work[p][i].name]
      BY <1>3, <2>1, <2>3
    <3>. QED  BY <1>1, <1>4, <3>1 DEF Unhindered
  <2>. QED  BY <2>2, <2>3
<1>6. fin[p] = "commit" => Trial(p) /\ Trial(p)'
  BY <1>1, <1>2 DEF Register, Trial, Late, Restart, Looping
<1>7. Unhindered(p)'
  BY <1>1, <1>2, <1>4, <1>5, <1>6 DEF Register, Unhindered, Looping, Trial
<1>8. Taken \subseteq {s}
  <2>1. \A q \in Procs \ {p} : Holding(q) = {}
    BY <1>1, OthersAway DEF Active, Holding
  <2>2. Holding(p) = {s}
    BY <1>1 DEF Holding
  <2>. QED  BY <2>1, <2>2 DEF OInv
<1>9. Taken' = {}
  BY <1>1, <1>2, <1>8 DEF Taken, Listener, IInv, TypeOK
<1>10. Holders'
  BY <1>1, <1>4 DEF Register, OInv, Holders, Listener, Foreign, Closing, IInv, TypeOK
<1>. QED  BY <1>1, <1>7, <1>9, <1>10, RestartOrderly DEF Register, Restart, Looping

LEMMA ListeningOrderly ==
  ASSUME TunnelTags = {}, IInv, SInv, OInv, NEW p \in Procs, Listening(p)
  PROVE  OInv'
<1>1. pc[p] = "listening" /\ pc' = [pc EXCEPT ![p] = "begin"] /\ pc[p] \in Looping /\ readers' = readers
  BY DEF Listening, Looping
<1>2. pc'[p] = "begin" /\ loop'[p].moved = FALSE /\ loop'[p].up = loop[p].up
  <2>1. Moved(p) = FALSE
    BY <1>1, NotMoved
  <2>. QED  BY <1>1, <2>1 DEF Listening, IInv, TypeOK, Loops
<1>3. fin[p] = "commit" => Trial(p) /\ Trial(p)'
  BY <1>1, <1>2 DEF Listening, Trial, Late, Restart, Looping
<1>4. Unhindered(p)
  BY DEF OInv, Orders
<1>5. Unhindered(p)'
  BY <1>1, <1>2, <1>3, <1>4 DEF Listening, Unhindered, Looping, Trial
<1>. QED  BY <1>1, <1>5, RestartMove DEF Listening, Restart, Looping

LEMMA SpawnEndOrderly ==
  ASSUME IInv, SInv, OInv, NEW p \in Procs, SpawnEnd(p)
  PROVE  OInv'
<1>1. pc[p] = "begin" /\ ~loop[p].moved /\ (Trial(p) \/ loop[p].up)
  BY DEF SpawnEnd, OInv, Orders, Unhindered, Looping
<1>2. pc' = [pc EXCEPT ![p] = "return"]
  BY <1>1 DEF SpawnEnd
<1>3. pc'[p] = "return"
  BY <1>2 DEF IInv, TypeOK
<1>4. Trial(p) => Trial(p)'
  BY <1>3 DEF SpawnEnd, Trial, Late, Restart
<1>5. Unhindered(p)'
  BY <1>1, <1>3, <1>4 DEF SpawnEnd, Unhindered, Looping
<1>. QED  BY <1>1, <1>2, <1>5, RestartMove DEF SpawnEnd, Restart, Looping

LEMMA RestartingOrderly ==
  ASSUME Orderly, IInv, SInv, OInv, NEW p \in Procs, Restarting(p)
  PROVE  OInv'
<1>1. ~MergeMovedPorts(p)
  BY DEF MergeMovedPorts, OInv, Orders, Unhindered
<1>. QED
  BY <1>1, StopOrderly, ClearOrderly, SpawnCloneOrderly, BeginOrderly, BindOrderly, NeverRetried,
     BindFailOrderly,
     RegisterOrderly, ListeningOrderly, SpawnEndOrderly DEF Restarting, Orderly

-----------------------------------------------------------------------------
(* The program's life and its environment *)

LEMMA OwnersOrderly ==
  ASSUME IInv, OInv, UNCHANGED <<program, store, live, pc, op, local, answer>>,
         ListenersKept, Holders', Taken' = Taken
  PROVE  OInv'
<1>1. ServesExactly(config.inbounds) => ServesExactly(config.inbounds)'
  BY ServesKept DEF IInv
<1>2. Committed' /\ AtRest'
  BY <1>1 DEF OInv, Committed, AtRest, Active
<1>3. \A p \in Procs : Holding(p)' = Holding(p)
  BY DEF Holding, Candidate, Inb, Socket, EffectivePort
<1>4. ASSUME NEW p \in Procs PROVE Orders(p)'
  <2>1. Orders(p)
    BY DEF OInv
  <2>2. Active(p)' = Active(p) /\ Trial(p)' = Trial(p)
    BY DEF Active, Trial
  <2>3. Fits(p) => Fits(p)'
    BY DEF Fits, Api!Meaningful
  <2>4. Asked(p)' = Asked(p) /\ Called(p)' = Called(p) /\ Unhindered(p)' = Unhindered(p)
    BY <2>2 DEF Asked, Called, Unhindered, Inb
  <2>. QED  BY <1>1, <2>1, <2>2, <2>3, <2>4 DEF Orders
<1>. QED  BY <1>2, <1>3, <1>4 DEF OInv

LEMMA SocketOrderly ==
  ASSUME Orderly, IInv, OInv, NEW s \in Sockets, ForeignGrab(s) \/ ForeignFree(s) \/ Drain(s)
  PROVE  OInv'
<1>1. UNCHANGED <<program, store, live, pc, op, local, answer>>
  BY DEF ForeignGrab, ForeignFree, Drain
<1>2. CASE ForeignGrab(s)
  <2>1. /\ owner' = [owner EXCEPT ![s] = Foreign] /\ owner[s] = FreeSock
        /\ s \in ForeignSocks \ Claimed(disk.inbounds, DOMAIN disk.inbounds)
    BY <1>2 DEF ForeignGrab, Free, Orderly, OInv, Committed
  <2>2. ListenersKept
    BY <2>1 DEF ListenersKept, Foreign, FreeSock, IInv, TypeOK
  <2>3. Holders'
    BY <1>1, <2>1 DEF OInv, Holders, Foreign, Closing, IInv, TypeOK
  <2>4. Taken' = Taken
    BY <2>1 DEF Taken, Foreign, FreeSock, IInv, TypeOK
  <2>. QED  BY <1>1, <2>2, <2>3, <2>4, OwnersOrderly
<1>3. CASE ForeignFree(s)
  <2>1. owner' = [owner EXCEPT ![s] = FreeSock] /\ owner[s] = Foreign
    BY <1>3 DEF ForeignFree
  <2>2. ListenersKept
    BY <2>1 DEF ListenersKept, Foreign, FreeSock, IInv, TypeOK
  <2>3. Holders'
    BY <1>1, <2>1 DEF OInv, Holders, Foreign, FreeSock, Closing, IInv, TypeOK
  <2>4. Taken' = Taken
    BY <2>1 DEF Taken, Foreign, FreeSock, IInv, TypeOK
  <2>. QED  BY <1>1, <2>2, <2>3, <2>4, OwnersOrderly
<1>4. CASE Drain(s)
  BY <1>4 DEF Drain, OInv, Holders
<1>. QED  BY <1>2, <1>3, <1>4

LEMMA EnvironmentOrderly ==
  ASSUME Orderly, IInv, OInv, Environment
  PROVE  OInv'
<1>1. ~(\E n \in Names : TunnelHost(n) \/ ReaderEnd(n)) /\ ~(\E r \in Reqs : HangUp(r))
  BY DEF TunnelHost, ReaderEnd, HangUp, OInv, Holders, Orderly, Serial
<1>. QED  BY <1>1, SocketOrderly DEF Environment

LEMMA BootOrderly ==
  ASSUME IInv, SInv, OInv, Boot
  PROVE  OInv'
<1>1. Main \in Procs /\ \A p \in Procs : ~Active(p) /\ pc[p] \notin {"probing", "register"}
  BY ProcsApart DEF Boot, SInv, Alone, Active
<1>2. /\ pc'[Main] = "spawn" /\ \A q \in Procs \ {Main} : pc'[q] = pc[q]
      /\ UNCHANGED <<promised, owner, readers, op, answer, fin>>
  BY <1>1 DEF Boot, IInv, TypeOK
<1>3. config' = disk /\ disk' = disk
  <2>1. disk.inbounds \in InboundList /\ Missing(disk.inbounds) = {}
    BY ValidComplete DEF OInv, Committed, IInv, TypeOK, Config
  <2>2. PICK s \in Assignments(disk.inbounds, Free) : config' = [disk EXCEPT !.inbounds = s] /\ disk' = config'
    BY DEF Boot
  <2>3. s = disk.inbounds
    BY <2>1, AssignNone
  <2>. QED  BY <2>2, <2>3 DEF IInv, TypeOK, Config
<1>4. Taken' = {} /\ Committed' /\ Holders'
  BY <1>1, <1>2, <1>3, NoneTaken, CommittedSame, HoldersSame DEF Taken, OInv, Holders
<1>5. fin'[Main] = "boot"
  BY <1>1, <1>2 DEF OInv, Orders, Called
<1>6. Active(Main)' /\ ~Trial(Main)' /\ Called(Main)' /\ Unhindered(Main)'
  BY <1>2, <1>5 DEF Active, Trial, Called, Unhindered, Restart, Looping
<1>7. Orders(Main)'
  BY <1>2, <1>3, <1>6 DEF Orders, Early
<1>. QED  BY <1>1, <1>2, <1>4, <1>6, <1>7, StepOn

LEMMA ReturnBootOrderly ==
  ASSUME IInv, SInv, OInv, ReturnBoot
  PROVE  OInv'
<1>1. Main \in Procs /\ pc[Main] = "return" /\ fin[Main] = "boot" /\ Active(Main) /\ ~Trial(Main)
  BY ProcsApart DEF ReturnBoot, OInv, Orders, Called, Active, Trial
<1>2. config = disk /\ loop[Main].up
  BY <1>1 DEF OInv, Orders, Unhindered
<1>3. ServesExactly(config.inbounds)
  BY <1>1, <1>2 DEF SInv, Knows
<1>4. pc'[Main] = "done" /\ \A q \in Procs \ {Main} : pc'[q] = pc[q]
  BY <1>1 DEF ReturnBoot, IInv, TypeOK
<1>5. UNCHANGED <<config, disk, promised, owner, handles, runtime, readers, op, answer, fin>>
  BY DEF ReturnBoot
<1>6. Taken' = {} /\ Committed' /\ Holders' /\ ServesExactly(config.inbounds)'
  BY <1>1, <1>3, <1>5, NoneTaken, OthersAway, CommittedSame, HoldersSame, ServesSame DEF Taken,
     OInv, Holders
<1>. QED  BY <1>1, <1>2, <1>4, <1>5, <1>6, StepEnd, OthersAway

LEMMA ShutdownOrderly ==
  ASSUME IInv, SInv, OInv, Shutdown
  PROVE  OInv'
<1>1. Main \in Procs /\ \A p \in Procs : ~Active(p) /\ pc[p] \notin {"probing", "register"}
  BY ProcsApart DEF Shutdown, InFlight, SInv, Alone, Active
<1>2. /\ pc'[Main] = "stop" /\ \A q \in Procs \ {Main} : pc'[q] = pc[q]
      /\ UNCHANGED <<config, disk, promised, owner, readers, op, answer, fin>>
  BY <1>1 DEF Shutdown, IInv, TypeOK
<1>3. config = disk
  BY <1>1 DEF Shutdown, OInv, AtRest
<1>4. Taken' = {} /\ Committed' /\ Holders'
  BY <1>1, <1>2, NoneTaken, CommittedSame, HoldersSame DEF Taken, OInv, Holders
<1>5. fin'[Main] = "boot"
  BY <1>1, <1>2 DEF OInv, Orders, Called
<1>6. Active(Main)' /\ ~Trial(Main)' /\ Called(Main)' /\ Unhindered(Main)'
  BY <1>2, <1>5 DEF Active, Trial, Called, Unhindered, Restart, Looping
<1>7. Orders(Main)'
  BY <1>2, <1>3, <1>6 DEF Orders, Early
<1>. QED  BY <1>1, <1>2, <1>4, <1>6, <1>7, StepOn

LEMMA GoneOrderly ==
  ASSUME IInv, OInv, Gone
  PROVE  OInv'
<1>1. \A s \in Sockets : owner'[s] = FreeSock \/ (owner'[s] = Foreign /\ owner[s] = Foreign)
  BY DEF Gone
<1>2. Taken' = {} /\ Committed' /\ Holders' /\ AtRest'
  BY <1>1 DEF Gone, Taken, OInv, Committed, Holders, AtRest, FreeSock, Foreign, Closing
<1>3. ASSUME NEW p \in Procs PROVE Orders(p)'
  <2>1. pc'[p] \in {"idle", "done"} /\ fin'[p] = "boot" /\ op'[p] = op[p]
    BY DEF Gone, InFlight, Procs
  <2>2. ~Active(p)' /\ ~Trial(p)' /\ Called(p)' /\ Unhindered(p)'
    BY <2>1 DEF Active, Trial, Called, Unhindered, Late, Restart, Looping
  <2>3. ASSUME p # Main PROVE Asked(p)'
    <3>1. Asked(p) /\ p \in Reqs
      BY <2>3, ProcsApart DEF OInv, Orders
    <3>2. CASE p \in InFlight
      BY <2>1, <2>3, <3>1, <3>2 DEF Gone, Asked, InFlight
    <3>3. CASE p \notin InFlight
      BY <2>1, <2>3, <3>1, <3>3 DEF Gone, Asked, InFlight
    <3>. QED  BY <3>2, <3>3
  <2>. QED  BY <2>1, <2>2, <2>3 DEF Orders, Early
<1>. QED  BY <1>2, <1>3 DEF OInv

LEMMA InitOInv == Orderly /\ Init => OInv
<1>. SUFFICES ASSUME Orderly, Init PROVE OInv
  OBVIOUS
<1>1. Committed
  BY InitAssumption DEF Init, Committed, Orderly
<1>2. \A s \in Sockets : owner[s] = FreeSock
  BY DEF Init
<1>3. Holders /\ Taken = {}
  BY <1>2 DEF Init, Holders, Taken, FreeSock, Foreign, Closing
<1>4. AtRest
  BY DEF Init, AtRest
<1>5. ASSUME NEW p \in Procs PROVE Orders(p)
  <2>1. pc[p] = "idle" /\ fin[p] = "boot" /\ op[p] = NoOp
    BY DEF Init
  <2>2. ~Active(p) /\ ~Trial(p) /\ Called(p) /\ Unhindered(p) /\ Asked(p)
    BY <2>1 DEF Active, Trial, Called, Unhindered, Late, Restart, Looping, Asked
  <2>. QED  BY <2>1, <2>2 DEF Orders, Early
<1>. QED  BY <1>1, <1>3, <1>4, <1>5 DEF OInv

LEMMA NextOInv ==
  ASSUME Orderly, IInv, SInv, OInv, [Next]_vars
  PROVE  OInv'
<1>1. CASE UNCHANGED vars
  <2>1. ListenersKept /\ Holders' /\ Taken' = Taken
    BY <1>1, HoldersSame DEF vars, ListenersKept, OInv, Holders, Taken
  <2>. QED  BY <1>1, <2>1, OwnersOrderly DEF vars
<1>2. CASE \E r \in Reqs : Arrive(r) \/ Handling(r)
  BY <1>2, ArriveOrderly, HandlingOrderly DEF Orderly
<1>3. CASE \E p \in Procs : Restarting(p)
  BY <1>3, RestartingOrderly
<1>4. CASE ReturnBoot \/ Boot \/ Shutdown
  BY <1>4, ReturnBootOrderly, BootOrderly, ShutdownOrderly
<1>5. CASE Exit \/ Crash
  BY <1>5, GoneOrderly DEF Exit, Crash
<1>6. CASE Environment
  BY <1>6, EnvironmentOrderly
<1>. QED  BY <1>1, <1>2, <1>3, <1>4, <1>5, <1>6 DEF Next

LEMMA OrderlyInvariance == Orderly => (Spec => [](IInv /\ SInv /\ OInv))
<1>. SUFFICES ASSUME Orderly PROVE Spec => [](IInv /\ SInv /\ OInv)
  OBVIOUS
<1>1. Serial /\ (Init => OInv)
  BY InitOInv DEF Orderly
<1>2. Spec => [](IInv /\ SInv)
  BY <1>1, Invariance, SerialInvariance, PTL
<1>3. IInv /\ SInv /\ OInv /\ [Next]_vars => OInv'
  BY NextOInv
<1>. QED  BY <1>1, <1>2, <1>3, PTL DEF Spec

\* Between requests exactly the configured inbounds are served: a change that has been
\* refused, at whatever step, has brought all the previous listeners back (web/mod.rs
\* commit_config, spawn_all), where the world is as Orderly says.
THEOREM QuiescentServesHolds == Orderly => (Spec => []QuiescentServes)
<1>. SUFFICES ASSUME Orderly PROVE Spec => []QuiescentServes
  OBVIOUS
<1>1. SInv /\ OInv => QuiescentServes
  BY ProcsApart DEF QuiescentServes, Quiescent, InFlight, SInv, Alone, Active, OInv, AtRest
<1>. QED  BY <1>1, OrderlyInvariance, PTL

-----------------------------------------------------------------------------
(* Every step is one of AdminApi's, or a stutter *)

SimStep == [Api!Next]_(Api!vars)

LEMMA InUseIs ==
  ASSUME SInv, OInv
  PROVE  InUse = IF Quiescent THEN <<disk>> ELSE <<>>
<1>1. Quiescent => config = disk /\ ServesExactly(config.inbounds)
  BY ProcsApart DEF Quiescent, InFlight, SInv, Alone, Active, OInv, AtRest
<1>. QED  BY <1>1 DEF InUse

LEMMA InUseThen ==
  ASSUME SInv', OInv'
  PROVE  InUse' = IF Quiescent' THEN <<disk'>> ELSE <<>>
<1>1. Quiescent' => config' = disk' /\ ServesExactly(config.inbounds)'
  BY ProcsApart DEF Quiescent, InFlight, SInv, Alone, Active, OInv, AtRest
<1>. QED  BY <1>1 DEF InUse

LEMMA PendingIs ==
  ASSUME SInv, OInv, NEW r \in Reqs
  PROVE  Api!Pending(r) <=> r \in InFlight
<1>1. Asked(r) /\ (pc[r] # "done" => answer[r] = "none")
  BY ProcsApart DEF OInv, Orders, SInv, Unanswered
<1>. QED  BY <1>1 DEF Api!Pending, Api!NotAsked, NoOp, Asked, InFlight

LEMMA Busied ==
  ASSUME SInv, NEW p \in Procs, Active(p)
  PROVE  ~Quiescent /\ (p \in Reqs => phase = "up" \/ phase \notin {"down", "boot", "stopping"})
BY ProcsApart DEF SInv, Alone, Quiescent, InFlight, Active

LEMMA BusiedThen ==
  ASSUME SInv', NEW p \in Procs, Active(p)'
  PROVE  ~Quiescent'
BY ProcsApart DEF SInv, Alone, Quiescent, InFlight, Active

LEMMA Stutter ==
  ASSUME UNCHANGED <<disk, op, answer>>, InUse' = InUse
  PROVE  SimStep
BY DEF SimStep, Api!vars

\* A task goes on.
LEMMA GoesOn ==
  ASSUME SInv, OInv, SInv', OInv', NEW p \in Procs, Active(p), Active(p)',
         UNCHANGED <<disk, op, answer>>
  PROVE  SimStep
BY InUseIs, InUseThen, Busied, BusiedThen, Stutter

\* What a handler's answer does to the abstract state.
LEMMA AnswerSeen ==
  ASSUME IInv, SInv, OInv, SInv', OInv', NEW r \in Reqs, NEW a, Reply(r, a), Active(r),
         UNCHANGED <<phase, op>>
  PROVE  /\ Api!Pending(r) /\ InUse' = <<disk'>>
         /\ [x \in Reqs |-> answer'[x]] = [[x \in Reqs |-> answer[x]] EXCEPT ![r] = a]
<1>1. r \in Procs /\ r # Main /\ phase = "up" /\ r \in InFlight
  BY ProcsApart, Busied DEF InFlight, Active, IInv, TypeOK
<1>2. /\ pc'[r] = "done" /\ answer' = [answer EXCEPT ![r] = a]
      /\ \A q \in Procs \ {r} : pc'[q] = pc[q]
  BY <1>1 DEF Reply, IInv, TypeOK
<1>3. Quiescent'
  BY <1>1, <1>2, OthersAway, ProcsApart DEF Quiescent, InFlight, Active
<1>4. [x \in Reqs |-> answer'[x]] = [[x \in Reqs |-> answer[x]] EXCEPT ![r] = a]
  BY <1>1, <1>2, ProcsApart DEF IInv, TypeOK
<1>. QED  BY <1>1, <1>3, <1>4, PendingIs, InUseThen

LEMMA Refused ==
  ASSUME IInv, SInv, OInv, SInv', OInv', NEW r \in Reqs, NEW a \in {"401", "404", "409", "422", "500"},
         Reply(r, a), Active(r), UNCHANGED <<phase, disk, op>>,
         a = "401" => op[r].kind = "account" /\ ~Api!Meaningful(r),
         a = "404" => op[r].kind \in {"update", "delete"} /\ ~Api!Meaningful(r)
  PROVE  SimStep
<1>1. /\ Api!Pending(r) /\ InUse' = <<disk'>>
      /\ [x \in Reqs |-> answer'[x]] = [[x \in Reqs |-> answer[x]] EXCEPT ![r] = a]
  BY AnswerSeen
<1>2. Api!Refuse(r)
  BY <1>1 DEF Api!Refuse, Api!Ready
<1>. QED  BY <1>2 DEF SimStep, Api!Next

LEMMA CommittedSeen ==
  ASSUME IInv, SInv, OInv, SInv', OInv', NEW r \in Reqs, Reply(r, "200"), Active(r),
         UNCHANGED <<phase, op>>, Api!Meaningful(r), disk' \in Api!Outcomes(r), Valid(disk'.inbounds)
  PROVE  SimStep
<1>1. /\ Api!Pending(r) /\ InUse' = <<disk'>>
      /\ [x \in Reqs |-> answer'[x]] = [[x \in Reqs |-> answer[x]] EXCEPT ![r] = "200"]
  BY AnswerSeen
<1>2. Api!Valid(disk'.inbounds)
  BY SameOperators
<1>3. Api!Commit(r)
  BY <1>1, <1>2 DEF Api!Commit, Api!Ready
<1>. QED  BY <1>3 DEF SimStep, Api!Next

LEMMA ArriveSim ==
  ASSUME IInv, SInv, OInv, SInv', OInv', Serial, NEW r \in Reqs, Arrive(r)
  PROVE  SimStep
<1>1. r \in Procs /\ \A p \in Procs : ~Active(p)
  BY ProcsApart, ArriveAlone DEF SInv
<1>2. Quiescent
  BY <1>1, ProcsApart DEF Arrive, Quiescent, InFlight, Active
<1>3. PICK o \in Ops : op' = [op EXCEPT ![r] = o] /\ pc' = [pc EXCEPT ![r] = o.kind]
  BY DEF Arrive
<1>4. o.kind \notin {"idle", "done"}
  BY OpsAssumption DEF Operations
<1>5. Active(r)'
  BY <1>1, <1>3, <1>4 DEF Active, IInv, TypeOK
<1>6. InUse = <<disk>> /\ InUse' = <<>>
  BY <1>1, <1>2, <1>5, InUseIs, InUseThen, BusiedThen
<1>7. op[r] = Api!NotAsked
  BY ProcsApart DEF Arrive, OInv, Orders, Asked, NoOp, Api!NotAsked
<1>8. [x \in Reqs |-> op'[x]] = [[x \in Reqs |-> op[x]] EXCEPT ![r] = o]
  BY <1>1, <1>3, ProcsApart DEF IInv, TypeOK
<1>9. UNCHANGED <<disk, answer>>
  BY DEF Arrive
<1>10. Api!Ask(r)
  BY <1>6, <1>7, <1>8, <1>9 DEF Api!Ask
<1>. QED  BY <1>10 DEF SimStep, Api!Next

\* The end of the process.
LEMMA StoppedSeen ==
  ASSUME SInv, OInv, SInv', OInv', UNCHANGED <<disk, op>>, phase' # "up",
         \A r \in Reqs : answer'[r] = IF r \in InFlight THEN "lost" ELSE answer[r]
  PROVE  SimStep
<1>1. InUse' = <<>>
  BY InUseThen DEF Quiescent
<1>2. \A r \in Reqs : Api!Pending(r) <=> r \in InFlight
  BY PendingIs
<1>3. CASE Quiescent \/ InFlight # {}
  <2>1. InUse # <<>> \/ \E r \in Reqs : Api!Pending(r)
    BY <1>2, <1>3, InUseIs DEF InFlight
  <2>2. [r \in Reqs |-> answer'[r]] =
          [r \in Reqs |-> IF Api!Pending(r) THEN "lost" ELSE [x \in Reqs |-> answer[x]][r]]
    BY <1>2
  <2>3. Api!Stop
    BY <1>1, <2>1, <2>2 DEF Api!Stop
  <2>. QED  BY <2>3 DEF SimStep, Api!Next
<1>4. CASE ~Quiescent /\ InFlight = {}
  <2>1. InUse = <<>> /\ [r \in Reqs |-> answer'[r]] = [r \in Reqs |-> answer[r]]
    BY <1>4, InUseIs
  <2>. QED  BY <1>1, <2>1 DEF SimStep, Api!vars
<1>. QED  BY <1>3, <1>4

LEMMA LifeSim ==
  ASSUME IInv, SInv, OInv, SInv', OInv', ReturnBoot \/ Boot \/ Shutdown \/ Exit \/ Crash
  PROVE  SimStep
<1>1. CASE ReturnBoot
  <2>1. Active(Main) /\ Main \in Procs
    BY <1>1, ProcsApart DEF ReturnBoot, Active
  <2>2. \A q \in Procs \ {Main} : ~Active(q)
    BY <2>1, OthersAway
  <2>3. pc'[Main] = "done" /\ \A q \in Procs \ {Main} : pc'[q] = pc[q]
    BY <1>1, <2>1 DEF ReturnBoot, IInv, TypeOK
  <2>4. Quiescent' /\ ~Quiescent /\ InFlight = {}
    BY <1>1, <2>1, <2>2, <2>3, ProcsApart, Busied DEF ReturnBoot, Quiescent, InFlight, Active
  <2>5. InUse = <<>> /\ InUse' = <<disk'>>
    BY <2>4, InUseIs, InUseThen
  <2>6. \A r \in Reqs : ~Api!Pending(r)
    BY <2>4, PendingIs
  <2>7. UNCHANGED <<disk, op, answer>>
    BY <1>1 DEF ReturnBoot
  <2>8. Api!Recover
    BY <2>5, <2>6, <2>7 DEF Api!Recover, Api!Ready
  <2>. QED  BY <2>8 DEF SimStep, Api!Next
<1>2. CASE Boot
  <2>1. disk.inbounds \in InboundList /\ Missing(disk.inbounds) = {}
    BY ValidComplete DEF OInv, Committed, IInv, TypeOK, Config
  <2>2. PICK s \in Assignments(disk.inbounds, Free) : config' = [disk EXCEPT !.inbounds = s] /\ disk' = config'
    BY <1>2 DEF Boot
  <2>3. s = disk.inbounds
    BY <2>1, AssignNone
  <2>4. UNCHANGED <<disk, op, answer>>
    BY <1>2, <2>2, <2>3 DEF Boot, IInv, TypeOK, Config
  <2>5. ~Quiescent /\ ~Quiescent'
    BY <1>2 DEF Boot, Quiescent
  <2>. QED  BY <2>4, <2>5, InUseIs, InUseThen, Stutter
<1>3. CASE Shutdown
  <2>1. UNCHANGED <<disk, op, answer>> /\ phase' = "stopping" /\ InFlight = {}
    BY <1>3 DEF Shutdown
  <2>. QED  BY <2>1, StoppedSeen
<1>4. CASE Exit \/ Crash
  <2>1. UNCHANGED <<disk, op>> /\ phase' = "down"
        /\ \A r \in Reqs : answer'[r] = IF r \in InFlight THEN "lost" ELSE answer[r]
    BY <1>4, ProcsApart DEF Exit, Crash, Gone
  <2>. QED  BY <2>1, StoppedSeen
<1>. QED  BY <1>1, <1>2, <1>3, <1>4

LEMMA RestartSim ==
  ASSUME Orderly, IInv, SInv, OInv, SInv', OInv', NEW p \in Procs, Restarting(p)
  PROVE  SimStep
<1>1. ~MergeMovedPorts(p)
  BY DEF MergeMovedPorts, OInv, Orders, Unhindered
<1>2. UNCHANGED <<disk, op, answer>> /\ Active(p)
  BY <1>1 DEF Restarting, Stop, Clear, SpawnClone, Begin, Bind, BindRetry, BindFail, Register,
     Listening,
              SpawnEnd, Active
<1>3. CASE BindRetry(p)
  BY <1>3, NeverRetried
<1>4. CASE ~BindRetry(p)
  <2>1. PICK l \in Restart \cup {"dropclear", "exit", "merge", "drop"} : pc' = [pc EXCEPT ![p] = l]
    BY <1>1, <1>4 DEF Restarting, Stop, Clear, SpawnClone, Begin, Bind, BindFail, Register,
       Listening,
                      SpawnEnd, Restart, Looping
  <2>2. Active(p)'
    BY <2>1 DEF Active, IInv, TypeOK, Restart, Looping
  <2>. QED  BY <1>2, <2>2, GoesOn
<1>. QED  BY <1>3, <1>4

LEMMA EnvironmentSim ==
  ASSUME Orderly, IInv, SInv, OInv, SInv', OInv', Environment
  PROVE  SimStep
<1>1. ~(\E n \in Names : TunnelHost(n) \/ ReaderEnd(n)) /\ ~(\E r \in Reqs : HangUp(r))
  BY DEF TunnelHost, ReaderEnd, HangUp, OInv, Holders, Orderly, Serial
<1>2. UNCHANGED <<phase, pc, disk, op, answer>>
  BY <1>1 DEF Environment, ForeignGrab, ForeignFree, Drain
<1>3. Quiescent' = Quiescent
  BY <1>2 DEF Quiescent, InFlight
<1>. QED  BY <1>2, <1>3, InUseIs, InUseThen, Stutter

\* A handler goes on.
LEMMA HandlerGoesOn ==
  ASSUME IInv, SInv, OInv, SInv', OInv', NEW r \in Reqs, Active(r),
         NEW l \in (Early \cup Late), pc' = [pc EXCEPT ![r] = l], UNCHANGED <<disk, op, answer>>
  PROVE  SimStep
<1>1. r \in Procs /\ Active(r)'
  BY ProcsApart DEF Active, IInv, TypeOK, Early, Late, Restart, Looping
<1>. QED  BY <1>1, GoesOn

\* A candidate is refused or handed on.
LEMMA SubmitSim ==
  ASSUME IInv, SInv, OInv, SInv', OInv', NEW r \in Reqs, Active(r), NEW s, Submit(r, s),
         UNCHANGED <<program, store, owner, live, op>>
  PROVE  SimStep
<1>1. CASE Reply(r, "422")
  BY <1>1, Refused
<1>2. CASE pc' = [pc EXCEPT ![r] = "previous"] /\ UNCHANGED answer
  BY <1>2, HandlerGoesOn DEF Early
<1>. QED  BY <1>1, <1>2 DEF Submit

LEMMA EditSim ==
  ASSUME IInv, SInv, OInv, SInv', OInv', NEW r \in Reqs,
         AddCheck(r) \/ AddClone(r) \/ UpdateClone(r) \/ DeleteClone(r)
  PROVE  SimStep
<1> DEFINE d == disk.inbounds
           n == op[r].name
<1>1. pc[r] \in Early /\ Active(r) /\ config = disk
  BY EarlyKnows DEF AddCheck, AddClone, UpdateClone, DeleteClone, Early
<1>2. UNCHANGED <<program, store, owner, live, op>>
  BY DEF AddCheck, AddClone, UpdateClone, DeleteClone
<1>3. ASSUME NEW s, AssignAndSubmit(r, s) PROVE SimStep
  BY <1>1, <1>2, <1>3, SubmitSim, Refused DEF AssignAndSubmit
<1>4. ASSUME Reply(r, "404"), ~HasName(d, n), pc[r] \in {"update", "delete"} PROVE SimStep
  <2>1. op[r].kind \in {"update", "delete"} /\ ~Api!Meaningful(r)
    BY <1>4, EarlyKnows, SameOperators DEF Api!Meaningful, Early
  <2>. QED  BY <1>1, <1>2, <1>4, <2>1, Refused
<1>5. CASE AddCheck(r)
  <2>1. CASE Reply(r, "409")
    BY <1>1, <1>2, <2>1, Refused
  <2>2. CASE pc' = [pc EXCEPT ![r] = "clone"] /\ UNCHANGED answer
    BY <1>1, <1>2, <2>2, HandlerGoesOn DEF Early
  <2>. QED  BY <1>5, <2>1, <2>2 DEF AddCheck
<1>6. CASE AddClone(r)
  BY <1>3, <1>6 DEF AddClone
<1>7. CASE UpdateClone(r)
  BY <1>1, <1>3, <1>4, <1>7 DEF UpdateClone
<1>8. CASE DeleteClone(r)
  BY <1>1, <1>2, <1>4, <1>8, SubmitSim DEF DeleteClone
<1>. QED  BY <1>5, <1>6, <1>7, <1>8

LEMMA PreflightSim ==
  ASSUME Linger = {}, IInv, SInv, OInv, SInv', OInv', NEW r \in Reqs,
         ReadPrevious(r) \/ PreflightPass(r) \/ PreflightFail(r) \/ ProbeStart(r) \/ ProbeStop(r)
  PROVE  SimStep
<1>1. pc[r] \in Early /\ Active(r) /\ r \in Procs
  BY EarlyKnows DEF ReadPrevious, PreflightPass, PreflightFail, ProbeStart, ProbeStop,
     Preflighting, Early
<1>2. UNCHANGED <<program, store, live, op>>
  BY DEF ReadPrevious, PreflightPass, PreflightFail, ProbeStart, ProbeStop
<1>3. CASE PreflightFail(r)
  BY <1>1, <1>2, <1>3, Refused DEF PreflightFail
<1>4. CASE ReadPrevious(r) \/ ProbeStart(r)
  BY <1>1, <1>4, HandlerGoesOn DEF ReadPrevious, ProbeStart, Early
<1>5. CASE PreflightPass(r)
  <2>1. Active(r)' /\ UNCHANGED <<disk, op, answer>>
    BY <1>1, <1>5 DEF PreflightPass, Active
  <2>. QED  BY <1>1, <2>1, GoesOn
<1>6. CASE ProbeStop(r)
  <2>1. Released(Socket(Candidate(r))) = {FreeSock} /\ FreeSock # Closing
    BY DEF Released, FreeSock, Closing
  <2>2. pc' = [pc EXCEPT ![r] = "preflight"] /\ UNCHANGED answer
    BY <1>6, <2>1 DEF ProbeStop
  <2>. QED  BY <1>1, <1>2, <2>2, HandlerGoesOn DEF Early
<1>. QED  BY <1>3, <1>4, <1>5, <1>6

LEMMA TrialSim ==
  ASSUME "late" \notin SaveOutcomes, IInv, SInv, OInv, SInv', OInv', NEW r \in Reqs,
         Install(r) \/ Save(r) \/ Undo(r) \/ ReturnCommit(r) \/ ReturnUndo(r)
  PROVE  SimStep
<1>1. Active(r) /\ r \in Procs /\ r # Main
  BY ProcsApart DEF Install, Save, Undo, ReturnCommit, ReturnUndo, Active
<1>2. CASE Install(r) \/ Undo(r)
  BY <1>1, <1>2, HandlerGoesOn DEF Install, Undo, Late, Restart
<1>3. CASE ReturnCommit(r)
  <2>1. PICK l \in {"save", "undo"} : pc' = [pc EXCEPT ![r] = l]
    BY <1>3 DEF ReturnCommit
  <2>. QED  BY <1>1, <1>3, <2>1, HandlerGoesOn DEF ReturnCommit, Late
<1>4. CASE ReturnUndo(r)
  <2>1. code[r] \in {"409", "500"}
    BY <1>1, <1>4 DEF ReturnUndo, OInv, Orders, Called, Restart, IInv, TypeOK
  <2>. QED  BY <1>1, <1>4, <2>1, Refused DEF ReturnUndo
<1>5. CASE Save(r)
  <2>1. PICK o \in SaveOutcomes :
          /\ disk' = IF o = "fail" THEN disk ELSE config
          /\ \/ o = "ok" /\ promised' = config /\ Reply(r, "200")
             \/ o # "ok" /\ pc' = [pc EXCEPT ![r] = "undo"] /\ UNCHANGED answer
    BY <1>5 DEF Save
  <2>2. UNCHANGED <<phase, op>>
    BY <1>5 DEF Save
  <2>3. CASE o = "ok"
    <3>1. Fits(r) /\ config = next[r] /\ disk' = config /\ Reply(r, "200")
      BY <1>1, <1>5, <2>1, <2>3 DEF Save, OInv, Orders, Called, Trial, Late
    <3>2. disk' \in Api!Outcomes(r)
      BY <3>1 DEF Fits, Api!Outcomes
    <3>. QED  BY <1>1, <2>2, <3>1, <3>2, CommittedSeen DEF Fits
  <2>4. CASE o # "ok"
    <3>1. disk' = disk
      BY <2>1, <2>4, SaveAssumption
    <3>. QED  BY <1>1, <2>1, <2>2, <2>4, <3>1, HandlerGoesOn DEF Late
  <2>. QED  BY <2>3, <2>4
<1>. QED  BY <1>2, <1>3, <1>4, <1>5

LEMMA StoreSim ==
  ASSUME "late" \notin SaveOutcomes, IInv, SInv, OInv, SInv', OInv', NEW r \in Reqs,
         Regenerate(r) \/ UpdateAccount(r)
  PROVE  SimStep
<1>1. pc[r] \in {"regenerate", "account"} /\ Active(r) /\ config = disk
  BY EarlyKnows DEF Regenerate, UpdateAccount, Early
<1>2. pc[r] = "account" => op[r].kind = "account"
  BY EarlyKnows DEF Early
<1>3. pc[r] = "regenerate" => op[r].kind = "regenerate"
  BY <1>1, ProcsApart DEF IInv, OpMatches, OInv, Orders, Asked, TypeOK
<1>4. UNCHANGED <<phase, op>> /\ Valid(disk.inbounds) /\ disk \in Config
  BY DEF Regenerate, UpdateAccount, OInv, Committed, IInv, TypeOK
<1>5. ASSUME NEW new, disk' = new, Reply(r, "200"), Api!Meaningful(r), new \in Api!Outcomes(r),
             new.inbounds = disk.inbounds
      PROVE  SimStep
  BY <1>1, <1>4, <1>5, CommittedSeen
<1>6. CASE Regenerate(r)
  <2>1. pc[r] = "regenerate" /\ op[r].kind = "regenerate"
    BY <1>3, <1>6 DEF Regenerate
  <2>2. CASE disk' = [disk EXCEPT !.sub = r] /\ Reply(r, "200")
    <3>1. Api!Meaningful(r) /\ disk' \in Api!Outcomes(r) /\ disk'.inbounds = disk.inbounds
      BY <1>4, <2>1, <2>2 DEF Api!Meaningful, Api!Outcomes, Config
    <3>. QED  BY <1>5, <2>2, <3>1
  <2>3. CASE disk' = disk /\ Reply(r, "500")
    BY <1>1, <1>4, <2>3, Refused
  <2>. QED  BY <1>1, <1>6, <2>2, <2>3, SaveAssumption DEF Regenerate
<1>7. CASE UpdateAccount(r)
  <2>1. pc[r] = "account" /\ op[r].kind = "account"
    BY <1>2, <1>7 DEF UpdateAccount
  <2>2. CASE config.acct = op[r].old /\ disk' = [disk EXCEPT !.acct = r] /\ Reply(r, "200")
    <3>1. Api!Meaningful(r) /\ disk' \in Api!Outcomes(r) /\ disk'.inbounds = disk.inbounds
      BY <1>1, <1>4, <2>1, <2>2 DEF Api!Meaningful, Api!Outcomes, Config
    <3>. QED  BY <1>5, <2>2, <3>1
  <2>3. CASE disk' = disk /\ Reply(r, "500")
    BY <1>1, <1>4, <2>3, Refused
  <2>4. CASE config.acct # op[r].old /\ disk' = disk /\ Reply(r, "401")
    <3>1. ~Api!Meaningful(r)
      BY <1>1, <2>1, <2>4 DEF Api!Meaningful
    <3>. QED  BY <1>1, <1>4, <2>1, <2>4, <3>1, Refused
  <2>. QED  BY <1>1, <1>7, <2>2, <2>3, <2>4, SaveAssumption DEF UpdateAccount
<1>. QED  BY <1>6, <1>7

LEMMA InitSim ==
  ASSUME Init
  PROVE  Api!Init
<1>1. InUse = <<>>
  BY DEF Init, InUse, Quiescent
<1>2. [r \in Reqs |-> op[r]] = [r \in Reqs |-> Api!NotAsked]
      /\ [r \in Reqs |-> answer[r]] = [r \in Reqs |-> "none"]
  BY ProcsApart DEF Init, NoOp, Api!NotAsked
<1>. QED  BY <1>1, <1>2 DEF Init, Api!Init

LEMMA NextSim ==
  ASSUME Orderly, IInv, SInv, OInv, SInv', OInv', [Next]_vars
  PROVE  SimStep
<1>1. CASE UNCHANGED vars
  <2>1. UNCHANGED <<disk, op, answer>> /\ Quiescent' = Quiescent
    BY <1>1 DEF vars, Quiescent, InFlight
  <2>. QED  BY <2>1, InUseIs, InUseThen, Stutter
<1>2. CASE \E r \in Reqs : Arrive(r)
  BY <1>2, ArriveSim DEF Orderly
<1>3. CASE \E r \in Reqs : Handling(r)
  BY <1>3, EditSim, PreflightSim, TrialSim, StoreSim DEF Handling, Orderly
<1>4. CASE \E p \in Procs : Restarting(p)
  BY <1>4, RestartSim
<1>5. CASE ReturnBoot \/ Boot \/ Shutdown \/ Exit \/ Crash
  BY <1>5, LifeSim
<1>6. CASE Environment
  BY <1>6, EnvironmentSim
<1>. QED  BY <1>1, <1>2, <1>3, <1>4, <1>5, <1>6 DEF Next

\* Where the world is as Orderly says, NodeCommit implements AdminApi step by step: seen
\* from the file, the listeners and the answers, a change with its preflight, its two
\* restarts and its saves is one step, and a refused or lost one has never been
\* (web/mod.rs commit_config: "A failed listener or failed atomic save restores the
\* previous working configuration and listeners").
THEOREM ImplementsApiSteps == Orderly => (Spec => Api!Init /\ [][Api!Next]_(Api!vars))
<1>. SUFFICES ASSUME Orderly PROVE Spec => Api!Init /\ [][Api!Next]_(Api!vars)
  OBVIOUS
<1>1. Serial /\ (Init => OInv /\ Api!Init)
  BY InitOInv, InitSim DEF Orderly
<1>2. Spec => [](IInv /\ SInv /\ OInv)
  BY OrderlyInvariance
<1>3. (IInv /\ SInv /\ OInv) /\ (IInv /\ SInv /\ OInv)' /\ [Next]_vars => [Api!Next]_(Api!vars)
  BY NextSim DEF SimStep
<1>. QED  BY <1>1, <1>2, <1>3, PTL DEF Spec
=============================================================================
