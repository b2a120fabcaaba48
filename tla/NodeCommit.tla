----------------------------- MODULE NodeCommit -----------------------------
(***************************************************************************)
(* The admin API's writers of the node configuration (web/mod.rs): adding, *)
(* updating and deleting a node, regenerating the subscription, changing   *)
(* the account, the readers of cloudflared's output, the start and the end *)
(* of the program, and crashes.                                            *)
(*                                                                         *)
(* One action is what a task does under one lock of AppState, or between   *)
(* two awaits when it touches no shared state, so handlers interleave as   *)
(* the multi-threaded runtime interleaves them.                            *)
(***************************************************************************)
EXTENDS Inbounds, FiniteSets

CONSTANTS Reqs,         \* admin requests, each made at most once
          Main,         \* the task that boots and stops the program
          Ops,          \* what the requests ask for
          InitConfig,   \* the configuration on disk to begin with
          Retries,      \* PORT_BIND_RETRIES
          SaveOutcomes, \* how Config::save may end: "ok", "fail", or "late",
                        \* an error after the file has been replaced
          MaxInFlight,  \* bound: requests handled at the same time
          ForeignSocks, \* sockets other programs may take
          Polite,       \* whether they leave alone those of the acknowledged configuration
          Linger,       \* sockets that may stay bound after their task ended
          Impatient,    \* requests whose client may hang up before the answer
          MaxStops      \* bound: crashes and shutdowns

Procs  == Reqs \cup {Main}
Tokens == Procs         \* a secret is named by the request that made it

Config == [inbounds : InboundList, sub : Tokens, acct : Tokens]

Operations ==
       [kind : {"add"}, node : Inbound]
  \cup [kind : {"update"}, name : Names, node : Inbound]
  \cup [kind : {"delete"}, name : Names]
  \cup [kind : {"regenerate"}]
  \cup [kind : {"account"}, old : Tokens]

NoOp == [kind |-> "none"]

ASSUME MainAssumption    == Main \notin Reqs /\ None \notin Procs
ASSUME OpsAssumption     == Ops \subseteq Operations
ASSUME InitAssumption    == /\ InitConfig \in Config
                            /\ Valid(InitConfig.inbounds)
                            /\ Missing(InitConfig.inbounds) = {}
ASSUME RetriesAssumption == Retries \in Nat
ASSUME SaveAssumption    == SaveOutcomes \subseteq {"ok", "fail", "late"}
ASSUME ClientAssumption  == Impatient \subseteq Reqs
ASSUME PoliteAssumption  == Polite \in BOOLEAN
ASSUME BoundsAssumption  == MaxInFlight \in Nat /\ MaxStops \in Nat

VARIABLES
  phase,     \* of the program: "down", "boot", "up" or "stopping"
  stops,     \* crashes and shutdowns so far
  config,    \* AppState.config
  disk,      \* the configuration file
  owner,     \* who holds each socket
  handles,   \* AppState.handles: the socket of the listener a handle is for
  runtime,   \* AppState.runtime: the displayed state of each inbound
  readers,   \* inbounds whose cloudflared output is still being read
  pc,        \* where each task is
  op,        \* the operation a request asks for
  next,      \* commit_config's next
  prev,      \* commit_config's previous
  work,      \* spawn_all's working
  loop,      \* the other locals of spawn_all (and the index of preflight)
  fin,       \* who called spawn_all: "boot", "commit" or "undo"
  code,      \* the error a rolled back commit answers with
  answer,    \* the answer to each request
  promised   \* history: the configuration last acknowledged to a client

program == <<phase, stops>>
store   == <<config, disk, promised>>
live    == <<handles, runtime, readers>>
local   == <<next, prev, work, loop, fin, code>>
vars    == <<program, store, owner, live, pc, op, local, answer>>

-----------------------------------------------------------------------------
(* Sockets *)

Holder == [kind : {"free", "foreign", "closing"}]
     \cup [kind : {"probe", "bound"}, by : Procs]
     \cup [kind : {"listen"}, name : Names, tag : Tags]

FreeSock     == [kind |-> "free"]
Foreign      == [kind |-> "foreign"]
Closing      == [kind |-> "closing"]     \* its task has ended, the OS still holds it
Probe(r)     == [kind |-> "probe", by |-> r]
BoundBy(r)   == [kind |-> "bound", by |-> r]         \* not yet in handles
Listener(inb) == [kind |-> "listen", name |-> inb.name, tag |-> inb.tag]

Free == {s \in Sockets : owner[s] = FreeSock}

\* What the OS may do with a socket whose task has been aborted and joined.
Released(s) == IF s \in Linger THEN {FreeSock, Closing} ELSE {FreeSock}

NoLoop == [at |-> 1, tries |-> 0, first |-> 0, up |-> TRUE, moved |-> FALSE]

Init ==
  /\ phase = "down" /\ stops = 0
  /\ config = InitConfig /\ disk = InitConfig /\ promised = InitConfig
  /\ owner = [s \in Sockets |-> FreeSock]
  /\ handles = [n \in Names |-> None]
  /\ runtime = [n \in Names |-> "none"]
  /\ readers = {}
  /\ pc = [p \in Procs |-> "idle"]
  /\ op = [p \in Procs |-> NoOp]
  /\ next = [p \in Procs |-> InitConfig]
  /\ prev = [p \in Procs |-> InitConfig]
  /\ work = [p \in Procs |-> <<>>]
  /\ loop = [p \in Procs |-> NoLoop]
  /\ fin = [p \in Procs |-> "boot"]
  /\ code = [p \in Procs |-> "none"]
  /\ answer = [p \in Procs |-> "none"]

Goto(p, label) == pc' = [pc EXCEPT ![p] = label]

\* A handler answers, and its locals go out of scope.
Reply(r, a) ==
  /\ Goto(r, "done") /\ answer' = [answer EXCEPT ![r] = a]
  /\ next' = [next EXCEPT ![r] = InitConfig] /\ prev' = [prev EXCEPT ![r] = InitConfig]
  /\ work' = [work EXCEPT ![r] = <<>>] /\ loop' = [loop EXCEPT ![r] = NoLoop]
  /\ fin' = [fin EXCEPT ![r] = "boot"] /\ code' = [code EXCEPT ![r] = "none"]

InFlight == {r \in Reqs : pc[r] \notin {"idle", "done"}}

-----------------------------------------------------------------------------
(* Handlers up to the call of commit_config *)

\* A request passes require_admin and reaches its handler.
Arrive(r) ==
  /\ phase = "up" /\ pc[r] = "idle"
  /\ Cardinality(InFlight) < MaxInFlight
  /\ \E o \in Ops : op' = [op EXCEPT ![r] = o] /\ Goto(r, o.kind)
  /\ UNCHANGED <<program, store, owner, live, local, answer>>

\* add_node, the check under the first read lock.
AddCheck(r) ==
  /\ pc[r] = "add"
  /\ \/ HasName(config.inbounds, op[r].node.name) /\ Reply(r, "409")
     \/ ~HasName(config.inbounds, op[r].node.name) /\ Goto(r, "clone")
        /\ UNCHANGED <<local, answer>>
  /\ UNCHANGED <<program, store, owner, live, op>>

\* Mutant: the candidate is not validated.
SubmitUnchecked(r, s) ==
  /\ next' = [next EXCEPT ![r] = [config EXCEPT !.inbounds = s]]
  /\ Goto(r, "previous")
  /\ UNCHANGED <<prev, work, loop, fin, code, answer>>

\* validate, the first thing commit_config does with the candidate.
Submit(r, s) ==
  \/ Valid(s) /\ next' = [next EXCEPT ![r] = [config EXCEPT !.inbounds = s]]
              /\ Goto(r, "previous")
              /\ UNCHANGED <<prev, work, loop, fin, code, answer>>
  \/ ~Valid(s) /\ Reply(r, "422")

\* assign_missing_ports.  Its 256 random draws find a port if there is one.
AssignAndSubmit(r, s) ==
  \/ \E a \in Assignments(s, Free) : Submit(r, a)
  \/ Assignments(s, Free) = {} /\ Reply(r, "422")

\* add_node, the clone under the second read lock and the push.
AddClone(r) ==
  /\ pc[r] = "clone"
  /\ AssignAndSubmit(r, Append(config.inbounds, op[r].node))
  /\ UNCHANGED <<program, store, owner, live, op>>

\* Mutant: the name in the body wins.
UpdateRenames(r) ==
  LET n == op[r].name
      s == config.inbounds
  IN  /\ pc[r] = "update"
      /\ \/ ~HasName(s, n) /\ Reply(r, "404")
         \/ /\ HasName(s, n)
            /\ AssignAndSubmit(r, [s EXCEPT ![InboundIndex(s, n)] = op[r].node])
      /\ UNCHANGED <<program, store, owner, live, op>>

\* update_node: the name in the path wins over the name in the body.
UpdateClone(r) ==
  LET n == op[r].name
      s == config.inbounds
  IN  /\ pc[r] = "update"
      /\ \/ ~HasName(s, n) /\ Reply(r, "404")
         \/ /\ HasName(s, n)
            /\ AssignAndSubmit(r, [s EXCEPT ![InboundIndex(s, n)] =
                                          [op[r].node EXCEPT !.name = n]])
      /\ UNCHANGED <<program, store, owner, live, op>>

DeleteClone(r) ==
  LET n == op[r].name
      s == config.inbounds
  IN  /\ pc[r] = "delete"
      /\ \/ ~HasName(s, n) /\ Reply(r, "404")
         \/ HasName(s, n) /\ Submit(r, RemoveAt(s, InboundIndex(s, n)))
      /\ UNCHANGED <<program, store, owner, live, op>>

-----------------------------------------------------------------------------
(* commit_config *)

ReadPrevious(r) ==
  /\ pc[r] = "previous"
  /\ prev' = [prev EXCEPT ![r] = config]
  /\ loop' = [loop EXCEPT ![r] = NoLoop]
  /\ Goto(r, "preflight")
  /\ UNCHANGED <<program, store, owner, live, op, next, work, fin, code, answer>>

Candidate(r) == next[r].inbounds[loop[r].at]
Old(r)       == {i \in DOMAIN prev[r].inbounds :
                   prev[r].inbounds[i].name = Candidate(r).name}

Unchanged(r) == \E i \in Old(r) : prev[r].inbounds[i] = Candidate(r)

\* A candidate that keeps its socket is probed on an ephemeral port, which is
\* none of Ports.
Ephemeral(r) == \E i \in Old(r) : SameSocket(prev[r].inbounds[i], Candidate(r))

Advance(r) == loop' = [loop EXCEPT ![r].at = @ + 1]

Preflighting(r) == pc[r] = "preflight" /\ loop[r].at \in DOMAIN next[r].inbounds

\* Nothing to prove, or proved on an ephemeral port.
PreflightPass(r) ==
  /\ Preflighting(r)
  /\ Unchanged(r) \/ (Ephemeral(r) /\ Candidate(r).tag \notin DeafTags)
  /\ Advance(r)
  /\ UNCHANGED <<program, store, owner, live, pc, op, next, prev, work, fin, code, answer>>

PreflightFail(r) ==
  /\ Preflighting(r) /\ ~Unchanged(r)
  /\ \/ Candidate(r).tag \in DeafTags
     \/ ~Ephemeral(r) /\ Socket(Candidate(r)) \notin Free
  /\ Reply(r, "409")
  /\ UNCHANGED <<program, store, owner, live, op>>

ProbeStart(r) ==
  /\ Preflighting(r) /\ ~Unchanged(r) /\ ~Ephemeral(r)
  /\ Candidate(r).tag \notin DeafTags
  /\ Socket(Candidate(r)) \in Free
  /\ owner' = [owner EXCEPT ![Socket(Candidate(r))] = Probe(r)]
  /\ Goto(r, "probing")
  /\ UNCHANGED <<program, store, live, op, local, answer>>

\* The probe is aborted and joined; a join that times out is a conflict.
ProbeStop(r) ==
  LET s == Socket(Candidate(r))
  IN  /\ pc[r] = "probing"
      /\ \E h \in Released(s) : 
           /\ owner' = [owner EXCEPT ![s] = h]
           /\ \/ /\ Goto(r, "preflight") /\ Advance(r)
                 /\ UNCHANGED <<next, prev, work, fin, code, answer>>
              \/ h = Closing /\ Reply(r, "409")
      /\ UNCHANGED <<program, store, live, op>>

Install(r) ==
  /\ pc[r] = "preflight" /\ loop[r].at \notin DOMAIN next[r].inbounds
  /\ config' = next[r]
  /\ fin' = [fin EXCEPT ![r] = "commit"]
  /\ Goto(r, "stop")
  /\ UNCHANGED <<program, disk, promised, owner, live, op, next, prev, work, loop, code, answer>>

\* The final save, under the read lock.
Save(r) ==
  /\ pc[r] = "save"
  /\ \E o \in SaveOutcomes :
       /\ disk' = IF o = "fail" THEN disk ELSE config
       /\ \/ o = "ok" /\ promised' = config /\ Reply(r, "200")
          \/ /\ o # "ok" /\ Goto(r, "undo") /\ code' = [code EXCEPT ![r] = "500"]
             /\ UNCHANGED <<promised, next, prev, work, loop, fin, answer>>
  /\ UNCHANGED <<program, config, owner, live, op>>

\* Mutant: the configuration is rolled back, the listeners are not.
UndoKeepsListeners(r) ==
  /\ pc[r] = "undo"
  /\ config' = prev[r]
  /\ Reply(r, code[r])
  /\ UNCHANGED <<program, disk, promised, owner, live, op>>

\* The rollback: the previous configuration and a second restart.
Undo(r) ==
  /\ pc[r] = "undo"
  /\ config' = prev[r]
  /\ fin' = [fin EXCEPT ![r] = "undo"]
  /\ Goto(r, "stop")
  /\ UNCHANGED <<program, disk, promised, owner, live, op, next, prev, work, loop, code, answer>>

-----------------------------------------------------------------------------
(* stop_all: from a restart ("stop"), or because spawn_all gives up ("drop") *)

\* Mutant: the handles are taken and dropped, their tasks go on.
StopDetaches(p) ==
  /\ pc[p] \in {"stop", "drop"}
  /\ handles' = [n \in Names |-> None]
  /\ Goto(p, IF pc[p] = "stop" THEN "clear" ELSE "dropclear")
  /\ UNCHANGED <<program, store, owner, runtime, readers, op, local, answer>>

\* Mutant: the tasks are aborted, their handles stay in the map.
StopKeepsHandles(p) ==
  LET mine == {handles[n] : n \in Names} \ {None}
  IN  /\ pc[p] \in {"stop", "drop"}
      /\ owner' = [s \in Sockets |-> IF s \in mine THEN FreeSock ELSE owner[s]]
      /\ Goto(p, IF pc[p] = "stop" THEN "clear" ELSE "dropclear")
      /\ UNCHANGED <<program, store, live, op, local, answer>>

\* Take every handle, abort the tasks and join them, kill the tunnels.
Stop(p) ==
  LET mine == {handles[n] : n \in Names} \ {None}
  IN  /\ pc[p] \in {"stop", "drop"}
      /\ handles' = [n \in Names |-> None]
      /\ \E left \in SUBSET (mine \cap Linger) :
           owner' = [s \in Sockets |-> IF s \in left THEN Closing
                                       ELSE IF s \in mine THEN FreeSock ELSE owner[s]]
      /\ Goto(p, IF pc[p] = "stop" THEN "clear" ELSE "dropclear")
      /\ UNCHANGED <<program, store, runtime, readers, op, local, answer>>

\* Mutant: the statuses of the listeners that were stopped stay.
ClearKeepsStatus(p) ==
  /\ pc[p] \in {"clear", "dropclear"}
  /\ Goto(p, IF pc[p] = "dropclear" THEN "return"
             ELSE IF phase = "stopping" THEN "exit" ELSE "spawn")
  /\ UNCHANGED <<program, store, owner, live, op, local, answer>>

Clear(p) ==
  /\ pc[p] \in {"clear", "dropclear"}
  /\ runtime' = [n \in Names |-> "none"]
  /\ Goto(p, IF pc[p] = "dropclear" THEN "return"
             ELSE IF phase = "stopping" THEN "exit" ELSE "spawn")
  /\ UNCHANGED <<program, store, owner, handles, readers, op, local, answer>>

-----------------------------------------------------------------------------
(* spawn_all *)

SpawnClone(p) ==
  /\ pc[p] = "spawn"
  /\ work' = [work EXCEPT ![p] = config.inbounds]
  /\ loop' = [loop EXCEPT ![p] = NoLoop]
  /\ Goto(p, "begin")
  /\ UNCHANGED <<program, store, owner, live, op, next, prev, fin, code, answer>>

Inb(p) == work[p][loop[p].at]

Begin(p) ==
  /\ pc[p] = "begin" /\ loop[p].at \in DOMAIN work[p]
  /\ runtime' = [runtime EXCEPT ![Inb(p).name] = "starting"]
  /\ loop' = [loop EXCEPT ![p].first = EffectivePort(Inb(p)), ![p].tries = 0]
  /\ Goto(p, "bind")
  /\ UNCHANGED <<program, store, owner, handles, readers, op, next, prev, work, fin, code, answer>>

\* ports_changed after the bind of an inbound has been decided.
Moved(p) == loop[p].moved \/ EffectivePort(Inb(p)) # loop[p].first

Busy(p) == Inb(p).tag \notin DeafTags /\ Socket(Inb(p)) \notin Free

\* Mutant: retries are not counted against PORT_BIND_RETRIES.
RetryUnbounded(p) ==
  IF Busy(p) /\ Inb(p).port = 0
  THEN Reassignments(work[p], InboundIndex(work[p], Inb(p).name), Free)
  ELSE {}

\* What reassign_auto_port may turn the list into, when it is called.
Retryable(p) ==
  IF Busy(p) /\ Inb(p).port = 0 /\ loop[p].tries < Retries
  THEN Reassignments(work[p], InboundIndex(work[p], Inb(p).name), Free)
  ELSE {}

Bind(p) ==
  /\ pc[p] = "bind"
  /\ Inb(p).tag \notin DeafTags /\ Socket(Inb(p)) \in Free
  /\ owner' = [owner EXCEPT ![Socket(Inb(p))] = BoundBy(p)]
  /\ Goto(p, "register")
  /\ UNCHANGED <<program, store, live, op, local, answer>>

\* The address is in use and the port automatic: draw another one.
BindRetry(p) ==
  /\ pc[p] = "bind"
  /\ \E w \in Retryable(p) : work' = [work EXCEPT ![p] = w]
  /\ loop' = [loop EXCEPT ![p].tries = @ + 1]
  /\ UNCHANGED <<program, store, owner, live, pc, op, next, prev, fin, code, answer>>

\* Any other error, no retry left, or no port found for one.
BindFail(p) ==
  /\ pc[p] = "bind"
  /\ Inb(p).tag \in DeafTags \/ Busy(p)
  /\ Retryable(p) = {}
  /\ runtime' = [runtime EXCEPT ![Inb(p).name] = "failed"]
  /\ loop' = [loop EXCEPT ![p].up = FALSE, ![p].moved = Moved(p), ![p].at = @ + 1]
  /\ Goto(p, "begin")
  /\ UNCHANGED <<program, store, owner, handles, readers, op, next, prev, work, fin, code, answer>>

\* handles.insert: a handle already there is dropped, its task is not aborted.
Register(p) ==
  /\ pc[p] = "register"
  /\ handles' = [handles EXCEPT ![Inb(p).name] = Socket(Inb(p))]
  /\ owner' = [owner EXCEPT ![Socket(Inb(p))] = Listener(Inb(p))]
  /\ Goto(p, "listening")
  /\ UNCHANGED <<program, store, runtime, readers, op, local, answer>>

\* Report the listener; start_cloudflared for an inbound behind a tunnel.
Listening(p) ==
  /\ pc[p] = "listening"
  /\ runtime' = [runtime EXCEPT ![Inb(p).name] = "listening"]
  /\ readers' = IF Inb(p).tag \in TunnelTags THEN readers \cup {Inb(p).name} ELSE readers
  /\ loop' = [loop EXCEPT ![p].moved = Moved(p), ![p].at = @ + 1]
  /\ Goto(p, "begin")
  /\ UNCHANGED <<program, store, owner, handles, op, next, prev, work, fin, code, answer>>

\* The loop is over: ports that moved are persisted if every inbound started,
\* and everything is stopped otherwise.
SpawnEnd(p) ==
  /\ pc[p] = "begin" /\ loop[p].at \notin DOMAIN work[p]
  /\ Goto(p, IF ~loop[p].moved THEN "return" ELSE IF loop[p].up THEN "merge" ELSE "drop")
  /\ UNCHANGED <<program, store, owner, live, op, local, answer>>

\* Under the write lock: the moved ports into the current configuration.
MergeMovedPorts(p) ==
  LET merged == [config EXCEPT !.inbounds = MergePorts(@, work[p])]
  IN  /\ pc[p] = "merge"
      /\ \E o \in SaveOutcomes :
           /\ disk' = IF o = "fail" THEN disk ELSE merged
           /\ \/ o = "ok" /\ config' = merged /\ Goto(p, "return") /\ UNCHANGED loop
              \/ /\ o # "ok" /\ Goto(p, "drop") /\ UNCHANGED config
                 /\ loop' = [loop EXCEPT ![p].up = FALSE]
      /\ UNCHANGED <<program, promised, owner, live, op, next, prev, work, fin, code, answer>>

\* Back in the caller: main serves whatever the result, commit_config saves or
\* rolls back, and the rollback answers whatever the result.
ReturnBoot ==
  /\ pc[Main] = "return"
  /\ phase' = "up"
  /\ Goto(Main, "done")
  /\ UNCHANGED <<stops, store, owner, live, op, local, answer>>

\* Mutant: the result of the restart is ignored.
ReturnRegardless(r) ==
  /\ pc[r] = "return" /\ fin[r] = "commit"
  /\ Goto(r, "save")
  /\ UNCHANGED <<program, store, owner, live, op, local, answer>>

ReturnCommit(r) ==
  /\ pc[r] = "return" /\ fin[r] = "commit"
  /\ \/ loop[r].up /\ Goto(r, "save") /\ UNCHANGED code
     \/ ~loop[r].up /\ Goto(r, "undo") /\ code' = [code EXCEPT ![r] = "409"]
  /\ UNCHANGED <<program, store, owner, live, op, next, prev, work, loop, fin, answer>>

ReturnUndo(r) ==
  /\ pc[r] = "return" /\ fin[r] = "undo"
  /\ Reply(r, code[r])
  /\ UNCHANGED <<program, store, owner, live, op>>

-----------------------------------------------------------------------------
(* The writers that hold the write lock from the clone to the assignment *)

\* regenerate_subscription
Regenerate(r) ==
  LET new == [config EXCEPT !.sub = r]
  IN  /\ pc[r] = "regenerate"
      /\ \E o \in SaveOutcomes :
           /\ disk' = IF o = "fail" THEN disk ELSE new
           /\ \/ o = "ok" /\ config' = new /\ promised' = new /\ Reply(r, "200")
              \/ o # "ok" /\ Reply(r, "500") /\ UNCHANGED <<config, promised>>
      /\ UNCHANGED <<program, owner, live, op>>

\* update_account, with the password the request believes to be current.
UpdateAccount(r) ==
  LET new == [config EXCEPT !.acct = r]
  IN  /\ pc[r] = "account"
      /\ \/ config.acct # op[r].old /\ Reply(r, "401") /\ UNCHANGED store
         \/ /\ config.acct = op[r].old
            /\ \E o \in SaveOutcomes :
                 /\ disk' = IF o = "fail" THEN disk ELSE new
                 /\ \/ o = "ok" /\ config' = new /\ promised' = new /\ Reply(r, "200")
                    \/ o # "ok" /\ Reply(r, "500") /\ UNCHANGED <<config, promised>>
      /\ UNCHANGED <<program, owner, live, op>>

\* The task reading cloudflared's output meets the tunnel's host name.
TunnelHost(n) ==
  /\ n \in readers
  /\ \E h \in Hosts :
       LET s   == config.inbounds
           new == [config EXCEPT !.inbounds[InboundIndex(s, n)].host = h]
       IN  IF HasName(s, n) /\ s[InboundIndex(s, n)].host # h
           THEN \E o \in SaveOutcomes :
                  /\ disk' = IF o = "fail" THEN disk ELSE new
                  /\ config' = IF o = "ok" THEN new ELSE config
           ELSE UNCHANGED <<config, disk>>
  /\ readers' = readers \ {n}
  /\ UNCHANGED <<program, promised, owner, handles, runtime, pc, op, local, answer>>

\* The output ends without one.
ReaderEnd(n) ==
  /\ n \in readers
  /\ readers' = readers \ {n}
  /\ UNCHANGED <<program, store, owner, handles, runtime, pc, op, local, answer>>

-----------------------------------------------------------------------------
(* The program's life and its environment *)

\* main: load_or_create (missing ports are assigned and saved, the configuration
\* must be valid and its sockets available, or the program exits), then spawn_all.
Boot ==
  /\ phase = "down"
  /\ \E s \in Assignments(disk.inbounds, Free) :
       /\ Valid(s)
       /\ \A i \in DOMAIN s : Socket(s[i]) \in Free
       /\ config' = [disk EXCEPT !.inbounds = s]
  /\ disk' = config'
  /\ phase' = "boot"
  /\ Goto(Main, "spawn")
  /\ UNCHANGED <<stops, promised, owner, live, op, local, answer>>

\* The graceful shutdown waits for the requests in flight, then calls stop_all.
Shutdown ==
  /\ phase = "up" /\ InFlight = {} /\ stops < MaxStops
  /\ phase' = "stopping" /\ stops' = stops + 1
  /\ Goto(Main, "stop")
  /\ UNCHANGED <<store, owner, live, op, local, answer>>

\* The process is gone: the OS closes its sockets, its memory is lost, and so are
\* the requests in flight.
Gone ==
  /\ phase' = "down"
  /\ owner' = [s \in Sockets |-> IF owner[s] = Foreign THEN Foreign ELSE FreeSock]
  /\ handles' = [n \in Names |-> None]
  /\ runtime' = [n \in Names |-> "none"]
  /\ readers' = {}
  /\ pc' = [p \in Procs |-> IF p = Main THEN "idle"
                            ELSE IF p \in InFlight THEN "done" ELSE pc[p]]
  /\ answer' = [p \in Procs |-> IF p \in InFlight THEN "lost" ELSE answer[p]]
  /\ next' = [p \in Procs |-> InitConfig] /\ prev' = [p \in Procs |-> InitConfig]
  /\ work' = [p \in Procs |-> <<>>] /\ loop' = [p \in Procs |-> NoLoop]
  /\ fin' = [p \in Procs |-> "boot"] /\ code' = [p \in Procs |-> "none"]
  /\ UNCHANGED <<store, op>>

Exit == pc[Main] = "exit" /\ Gone /\ UNCHANGED stops

Crash == phase # "down" /\ stops < MaxStops /\ stops' = stops + 1 /\ Gone

\* The client closes its connection: hyper drops the handler at the await it has
\* reached.  A probe has been aborted by then; a listener not yet in handles runs on.
HangUp(r) ==
  /\ r \in Impatient \cap InFlight /\ pc[r] # "return"
  /\ \/ /\ pc[r] = "probing"
        /\ \E h \in Released(Socket(Candidate(r))) :
             owner' = [owner EXCEPT ![Socket(Candidate(r))] = h]
     \/ /\ pc[r] = "register"
        /\ owner' = [owner EXCEPT ![Socket(Inb(r))] = Listener(Inb(r))]
     \/ pc[r] \notin {"probing", "register"} /\ UNCHANGED owner
  /\ Reply(r, "lost")
  /\ UNCHANGED <<program, store, live, op>>

ForeignGrab(s) ==
  /\ s \in ForeignSocks \cap Free
  /\ Polite => s \notin Claimed(promised.inbounds, DOMAIN promised.inbounds)
  /\ owner' = [owner EXCEPT ![s] = Foreign]
  /\ UNCHANGED <<program, store, live, pc, op, local, answer>>

ForeignFree(s) ==
  /\ owner[s] = Foreign
  /\ owner' = [owner EXCEPT ![s] = FreeSock]
  /\ UNCHANGED <<program, store, live, pc, op, local, answer>>

\* The OS lets go of a socket whose task ended earlier.
Drain(s) ==
  /\ owner[s] = Closing
  /\ owner' = [owner EXCEPT ![s] = FreeSock]
  /\ UNCHANGED <<program, store, live, pc, op, local, answer>>

-----------------------------------------------------------------------------

Restarting(p) ==
  \/ Stop(p) \/ Clear(p) \/ SpawnClone(p) \/ Begin(p)
  \/ Bind(p) \/ BindRetry(p) \/ BindFail(p) \/ Register(p) \/ Listening(p)
  \/ SpawnEnd(p) \/ MergeMovedPorts(p)

Handling(r) ==
  \/ AddCheck(r) \/ AddClone(r) \/ UpdateClone(r) \/ DeleteClone(r)
  \/ ReadPrevious(r) \/ PreflightPass(r) \/ PreflightFail(r)
  \/ ProbeStart(r) \/ ProbeStop(r) \/ Install(r) \/ Save(r) \/ Undo(r)
  \/ ReturnCommit(r) \/ ReturnUndo(r) \/ Regenerate(r) \/ UpdateAccount(r)

Environment ==
  \/ \E s \in Sockets : ForeignGrab(s) \/ ForeignFree(s) \/ Drain(s)
  \/ \E n \in Names : TunnelHost(n) \/ ReaderEnd(n)
  \/ \E r \in Reqs : HangUp(r)

Next ==
  \/ \E r \in Reqs : Arrive(r) \/ Handling(r)
  \/ \E p \in Procs : Restarting(p)
  \/ ReturnBoot \/ Boot \/ Shutdown \/ Exit \/ Crash
  \/ Environment

\* Tokio polls every ready task, and every await of a handler is on a lock that
\* is released, on a bounded wait, or on the file system.
Fairness ==
  /\ \A r \in Reqs : WF_vars(Handling(r))
  /\ \A p \in Procs : WF_vars(Restarting(p))
  /\ WF_vars(ReturnBoot) /\ WF_vars(Exit)

Spec     == Init /\ [][Next]_vars
FairSpec == Spec /\ Fairness

-----------------------------------------------------------------------------
(* What is expected of it *)

Labels == {"idle", "add", "clone", "update", "delete", "regenerate", "account",
           "previous", "preflight", "probing", "save", "undo", "stop", "clear",
           "drop", "dropclear", "spawn", "begin", "bind", "register",
           "listening", "merge", "return", "exit", "done"}

Answers == {"none", "200", "401", "404", "409", "422", "500", "lost"}

Loops == [at : Nat \ {0}, tries : 0 .. Retries, first : Ports \cup {0},
          up : BOOLEAN, moved : BOOLEAN]

\* The type of every variable; the statuses are those of runtime's "state" field.
TypeOK ==
  /\ phase \in {"down", "boot", "up", "stopping"} /\ stops \in Nat
  /\ config \in Config /\ disk \in Config /\ promised \in Config
  /\ owner \in [Sockets -> Holder]
  /\ handles \in [Names -> Sockets \cup {None}]
  /\ runtime \in [Names -> {"none", "starting", "listening", "failed"}]
  /\ readers \subseteq Names
  /\ pc \in [Procs -> Labels]
  /\ op \in [Procs -> Operations \cup {NoOp}]
  /\ next \in [Procs -> Config] /\ prev \in [Procs -> Config]
  /\ work \in [Procs -> InboundList]
  /\ loop \in [Procs -> Loops]
  /\ fin \in [Procs -> {"boot", "commit", "undo"}]
  /\ code \in [Procs -> {"none", "409", "500"}]
  /\ answer \in [Procs -> Answers]

\* Every handle in AppState.handles is for a listener that is still running and
\* is that of the inbound it is filed under: stop_all never aborts a listener of
\* another inbound and never keeps a handle it has aborted, whatever requests
\* overlap (web/mod.rs stop_all, spawn_all).
HandlesLive ==
  \A n \in Names : handles[n] # None =>
    owner[handles[n]].kind = "listen" /\ owner[handles[n]].name = n

\* The check add_node makes under one lock is stale when it clones under the
\* next, and port merges and rollbacks write copies made earlier; still no
\* configuration in memory or on disk ever has two inbounds of one name, or
\* contents validate refuses (web/mod.rs commit_config, spawn_all).
StoredChecked ==
  \A c \in {config, disk} :
    /\ DistinctNames(c.inbounds)
    /\ \A i \in DOMAIN c.inbounds : c.inbounds[i].tag \notin InvalidTags

\* "Abort all running inbounds and start them again": no listener runs whose
\* handle has been lost, out of reach of every later stop_all.
NoOrphans ==
  \A s \in Sockets : owner[s].kind = "listen" => handles[owner[s].name] = s

Quiescent == phase = "up" /\ InFlight = {}

Serving(inb) ==
  /\ handles[inb.name] = Socket(inb)
  /\ owner[Socket(inb)] = Listener(inb)
  /\ runtime[inb.name] = "listening"

\* Exactly the inbounds of the list are served, with their current contents.
ServesExactly(s) ==
  /\ \A i \in DOMAIN s : Serving(s[i])
  /\ \A n \in Names : handles[n] # None => HasName(s, n)

\* Between requests every configured inbound is served and nothing else is: a
\* rejected change has brought all the previous listeners back.
QuiescentServes == Quiescent => ServesExactly(config.inbounds)

\* The status page: between requests an inbound is reported as listening exactly
\* when it has a listener, and never as still starting.
StatusTruthful ==
  Quiescent => \A n \in Names :
                 /\ runtime[n] # "starting"
                 /\ runtime[n] = "listening" <=> handles[n] # None

\* A node change is acknowledged only when the whole new configuration is
\* being served and is on disk, whatever other programs do to the ports.
AckedIsServed ==
  [][\A r \in Reqs : pc[r] = "save" /\ answer'[r] = "200" =>
        ServesExactly(config.inbounds)' /\ disk'.inbounds = config'.inbounds]_vars

\* Once a new subscription URL or a new password is acknowledged, the one of
\* the initial configuration never works again.
RevokedStaysRevoked ==
  \A r \in Reqs : answer[r] = "200" =>
    /\ op[r].kind = "regenerate" => config.sub # InitConfig.sub
    /\ op[r].kind = "account"    => config.acct # InitConfig.acct
=============================================================================
