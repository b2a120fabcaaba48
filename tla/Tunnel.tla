------------------------------- MODULE Tunnel -------------------------------
(***************************************************************************)
(* The cloudflared quick tunnel of one VLESS inbound: the child processes  *)
(* that restarts start, kill and lose, the task that reads each child's    *)
(* output, the timer that waits for it to become ready, the status probes, *)
(* and what the health endpoint and the subscription say in the end.       *)
(*                                                                         *)
(* Everything a child's tasks write is keyed by the inbound's name, not by *)
(* the child: tasks of an earlier generation write to the entry of a later *)
(* one.  A generation is a number; it is also the random host name that    *)
(* its cloudflared prints.                                                 *)
(***************************************************************************)
EXTENDS Naturals, TLC

CONSTANTS Requests,  \* admin requests that change a node and restart everything
          Boot,      \* the start of the program, which restarts everything too
          MaxGen     \* bound: children started

ASSUME BootAssumption   == Boot \notin Requests
ASSUME MaxGenAssumption == MaxGen \in Nat

Gens       == 1 .. MaxGen
Restarters == Requests \cup {Boot}

VARIABLES
  config,   \* the inbound in memory: is it there, and its `server` (0: none)
  runtime,  \* its entry in the runtime map
  tunnels,  \* its entry in the tunnels map: a generation, or 0
  child,    \* the process of each generation: none, run, dying (killed) or dead
  out,      \* its stderr: silent, host (printed and not read) or read
  reader,   \* the task that reads it: none, read, ok, bad, drain or done
  timer,    \* the readiness timeout: none, sleep or done
  rs,       \* each restart: where it is, and what it holds
  probe,    \* a status request has seen the child dead and not yet said so
  trouble   \* history: what disturbed the tunnel: none, hangup or other

tasks == <<out, reader, timer>>
vars  == <<config, runtime, tunnels, child, tasks, rs, probe, trouble>>

Absent      == [state |-> "absent", tunnel |-> "none"]
Entry(s, t) == [state |-> s, tunnel |-> t]

\* runtime.get_mut(name): there may be no entry.
Marked(status) == IF runtime.state = "absent" THEN runtime
                  ELSE [runtime EXCEPT !.tunnel = status]

Gone == [there |-> FALSE, server |-> 0]
Task(pc, prev, undo, gen) == [pc |-> pc, prev |-> prev, undo |-> undo, gen |-> gen]
Idle == Task("idle", Gone, FALSE, 0)
Done == Task("done", Gone, FALSE, 0)

At(r, pc)     == rs[r].pc = pc
Goto(r, pc)   == rs' = [rs EXCEPT ![r].pc = pc]
Active        == {r \in Restarters : ~At(r, "idle") /\ ~At(r, "done")}
Killed(gs)    == [g \in Gens |-> IF g \in gs /\ child[g] = "run" THEN "dying" ELSE child[g]]
Upset(when)   == trouble' = IF when /\ trouble = "none" THEN "other" ELSE trouble

\* The program starts: main calls spawn_all, whose result it ignores like a rollback's.
Init ==
  /\ config = [there |-> TRUE, server |-> 0]
  /\ runtime = Absent /\ tunnels = 0
  /\ child = [g \in Gens |-> "none"] /\ out = [g \in Gens |-> "silent"]
  /\ reader = [g \in Gens |-> "none"] /\ timer = [g \in Gens |-> "none"]
  /\ rs = [r \in Restarters |->
            IF r = Boot THEN Task("clear", Gone, TRUE, 0) ELSE Idle]
  /\ probe = FALSE /\ trouble = "none"

-----------------------------------------------------------------------------
(* A restart: commit_config, stop_all, spawn_all, start_cloudflared *)

\* The handler clones the configuration, with the host name that is in it now (and again
\* as the previous one, at once).  Requests are served when the program has started.
Clone(r) ==
  /\ At(r, "idle") /\ At(Boot, "done")
  /\ rs' = [rs EXCEPT ![r] = Task("install", config, FALSE, 0)]
  /\ Upset(Active # {})
  /\ UNCHANGED <<config, runtime, tunnels, child, tasks, probe>>

\* After preflight it becomes the configuration: with this inbound changed, deleted or
\* added, or as it was when it was cloned (another one was changed).
Install(r) ==
  /\ At(r, "install")
  /\ \E c \in {rs[r].prev, Gone, [there |-> TRUE, server |-> 0]} : config' = c
  /\ Goto(r, "stop")
  /\ UNCHANGED <<runtime, tunnels, child, tasks, probe, trouble>>

\* stop_all takes the map and kills the child; it waits for its end (Die), but for
\* TASK_STOP_TIMEOUT at most.
Stop(r) ==
  /\ At(r, "stop")
  /\ tunnels' = 0 /\ child' = Killed({tunnels})
  /\ Goto(r, "clear")
  /\ UNCHANGED <<config, runtime, tasks, probe, trouble>>

\* The map is cleared and the listener bound again.  What is written to the entry between
\* the two is overwritten, so that one step stands for both.
Relisten(r, status, pc) ==
  /\ At(r, "clear") /\ config.there
  /\ runtime' = status /\ Goto(r, pc)
  /\ UNCHANGED <<config, tunnels, child, tasks, probe, trouble>>

Listen(r)      == Relisten(r, Entry("listening", "starting"), "launch")
ListenFails(r) == Relisten(r, Entry("failed", "unavailable"), "failed")

NotThere(r) ==
  /\ At(r, "clear") /\ ~config.there
  /\ runtime' = Absent /\ Goto(r, "save")
  /\ UNCHANGED <<config, tunnels, child, tasks, probe, trouble>>

\* The command is spawned, and the task that reads its output with it.
Launch(r) ==
  /\ At(r, "launch")
  /\ \E g \in Gens :
       /\ child[g] = "none" /\ \A h \in Gens : h < g => child[h] # "none"
       /\ child'  = [child EXCEPT ![g] = "run"]
       /\ reader' = [reader EXCEPT ![g] = "read"]
       /\ rs' = [rs EXCEPT ![r] = Task("insert", @.prev, @.undo, g)]
  /\ UNCHANGED <<config, runtime, tunnels, out, timer, probe, trouble>>

LaunchFails(r) ==
  /\ At(r, "launch")
  /\ runtime' = Marked("failed") /\ Goto(r, "save")
  /\ UNCHANGED <<config, tunnels, child, tasks, probe, trouble>>

\* Mutant: a child that is replaced in the map is not killed.
InsertDetaches(r) ==
  /\ At(r, "insert")
  /\ tunnels' = rs[r].gen
  /\ timer' = [timer EXCEPT ![rs[r].gen] = "sleep"]
  /\ rs' = [rs EXCEPT ![r] = Task("save", @.prev, @.undo, 0)]
  /\ UNCHANGED <<config, runtime, child, out, reader, probe, trouble>>

\* Mutant: no readiness timeout.
InsertNoTimer(r) ==
  /\ At(r, "insert")
  /\ tunnels' = rs[r].gen /\ child' = Killed({tunnels})
  /\ rs' = [rs EXCEPT ![r] = Task("save", @.prev, @.undo, 0)]
  /\ UNCHANGED <<config, runtime, tasks, probe, trouble>>

\* The child is put into the map (one that was there is dropped, and killed by that),
\* and its readiness timeout starts.
Insert(r) ==
  /\ At(r, "insert")
  /\ tunnels' = rs[r].gen /\ child' = Killed({tunnels})
  /\ timer' = [timer EXCEPT ![rs[r].gen] = "sleep"]
  /\ rs' = [rs EXCEPT ![r] = Task("save", @.prev, @.undo, 0)]
  /\ UNCHANGED <<config, runtime, out, reader, probe, trouble>>

\* The restart succeeded: the configuration is saved (not by a rollback, nor at boot).
SaveOk(r) ==
  /\ At(r, "save")
  /\ rs' = [rs EXCEPT ![r] = Done]
  /\ UNCHANGED <<config, runtime, tunnels, child, tasks, probe, trouble>>

\* spawn_all has drawn a port again and cannot keep it: another inbound has failed, or the
\* ports cannot be saved.  Then it stops everything itself (stop_all again).  In a commit the
\* rollback stops everything at once, and this is no step of its own (Undo, Stop).
SpawnStops(r) ==
  /\ At(r, "failed") \/ At(r, "save")
  /\ rs[r].undo
  /\ tunnels' = 0 /\ child' = Killed({tunnels}) /\ runtime' = Absent
  /\ rs' = [rs EXCEPT ![r] = Done]
  /\ UNCHANGED <<config, tasks, probe, trouble>>

\* The restart or the save failed: the previous configuration is restarted, once.
Undo(r) ==
  /\ At(r, "failed") \/ At(r, "save")
  /\ ~rs[r].undo
  /\ config' = rs[r].prev
  /\ rs' = [rs EXCEPT ![r] = Task("stop", Gone, TRUE, 0)]
  /\ UNCHANGED <<runtime, tunnels, child, tasks, probe, trouble>>

\* The result of the rollback is ignored.
GiveUp(r) ==
  /\ At(r, "failed") /\ rs[r].undo
  /\ rs' = [rs EXCEPT ![r] = Done]
  /\ UNCHANGED <<config, runtime, tunnels, child, tasks, probe, trouble>>

\* The admin's connection is closed and the handler's future dropped, with the child that
\* it holds.
HangUp(r) ==
  /\ r \in Active \ {Boot}
  /\ child' = Killed({rs[r].gen})
  /\ rs' = [rs EXCEPT ![r] = Done]
  /\ trouble' = "hangup"
  /\ UNCHANGED <<config, runtime, tunnels, tasks, probe>>

-----------------------------------------------------------------------------
(* The child, its reader and its timer *)

Announce(g) ==
  /\ child[g] = "run" /\ out[g] = "silent"
  /\ out' = [out EXCEPT ![g] = "host"]
  /\ UNCHANGED <<config, runtime, tunnels, child, reader, timer, rs, probe, trouble>>

Exit(g) ==
  /\ child[g] = "run"
  /\ child' = [child EXCEPT ![g] = "dead"]
  /\ UNCHANGED <<config, runtime, tunnels, tasks, rs, probe, trouble>>

\* A killed child ends.
Die(g) ==
  /\ child[g] = "dying"
  /\ child' = [child EXCEPT ![g] = "dead"]
  /\ UNCHANGED <<config, runtime, tunnels, tasks, rs, probe, trouble>>

\* A later generation has already got its host name.
Overtaken(g) == \E h \in Gens : h > g /\ reader[h] \in {"ok", "bad", "drain", "done"}
Late(g)      == Upset(Overtaken(g))

\* The first line with a host name: it is saved as the inbound's server under the
\* configuration's lock, if there still is such an inbound.
TakeHost(g) ==
  /\ reader[g] = "read" /\ out[g] = "host"
  /\ out' = [out EXCEPT ![g] = "read"]
  /\ \/ /\ config.there
        /\ config' = [config EXCEPT !.server = g]
        /\ reader' = [reader EXCEPT ![g] = "ok"]
        /\ Late(g)
     \/ /\ reader' = [reader EXCEPT ![g] = "bad"]
        /\ Upset(config.there)
        /\ UNCHANGED config
  /\ UNCHANGED <<runtime, tunnels, child, timer, rs, probe>>

\* Mutant: the reader returns when it has the host name.
MarkReturns(g) ==
  /\ reader[g] \in {"ok", "bad"}
  /\ runtime' = Marked(IF reader[g] = "ok" THEN "ready" ELSE "failed")
  /\ reader' = [reader EXCEPT ![g] = "done"]
  /\ Late(g)
  /\ UNCHANGED <<config, tunnels, child, out, timer, rs, probe>>

\* Only then the status is written, under another lock; the task reads on.
Mark(g) ==
  /\ reader[g] \in {"ok", "bad"}
  /\ runtime' = Marked(IF reader[g] = "ok" THEN "ready" ELSE "failed")
  /\ reader' = [reader EXCEPT ![g] = "drain"]
  /\ Late(g)
  /\ UNCHANGED <<config, tunnels, child, out, timer, rs, probe>>

Eof(g) ==
  /\ child[g] = "dead" /\ reader[g] \in {"read", "drain"} /\ out[g] # "host"
  /\ runtime' = Marked("stopped")
  /\ reader' = [reader EXCEPT ![g] = "done"]
  /\ Late(g)
  /\ UNCHANGED <<config, tunnels, child, out, timer, rs, probe>>

\* Mutant: the timeout does not look at the status.
TimeoutUnchecked(g) ==
  /\ timer[g] = "sleep"
  /\ timer' = [timer EXCEPT ![g] = "done"]
  /\ runtime' = Marked("failed")
  /\ UNCHANGED <<config, tunnels, child, out, reader, rs, probe, trouble>>

\* mark_tunnel_readiness_timeout changes a tunnel that is starting, whichever it is.
Timeout(g) ==
  /\ timer[g] = "sleep"
  /\ timer' = [timer EXCEPT ![g] = "done"]
  /\ runtime' = IF runtime.tunnel = "starting" THEN Marked("failed") ELSE runtime
  /\ UNCHANGED <<config, tunnels, child, out, reader, rs, probe, trouble>>

-----------------------------------------------------------------------------
(* A status request: refresh_runtime asks the children under one lock and    *)
(* writes the runtime map under another.                                     *)

ProbeChild ==
  /\ ~probe /\ tunnels # 0 /\ child[tunnels] = "dead"
  /\ probe' = TRUE
  /\ UNCHANGED <<config, runtime, tunnels, child, tasks, rs, trouble>>

ProbeMark ==
  /\ probe
  /\ probe' = FALSE /\ runtime' = Marked("stopped")
  /\ Upset(tunnels = 0 \/ child[tunnels] # "dead")
  /\ UNCHANGED <<config, tunnels, child, tasks, rs>>

Next ==
  \/ \E r \in Restarters :
       \/ Clone(r) \/ Install(r) \/ Stop(r)
       \/ Listen(r) \/ ListenFails(r) \/ NotThere(r) \/ Launch(r) \/ LaunchFails(r) \/ Insert(r)
       \/ SaveOk(r) \/ SpawnStops(r) \/ Undo(r) \/ GiveUp(r) \/ HangUp(r)
  \/ \E g \in Gens :
       \/ Announce(g) \/ Exit(g) \/ Die(g)
       \/ TakeHost(g) \/ Mark(g) \/ Eof(g) \/ Timeout(g)
  \/ ProbeChild \/ ProbeMark

Spec == Init /\ [][Next]_vars
Symmetry == Permutations(Requests)
-----------------------------------------------------------------------------
(* What the health endpoint and the subscription make of it *)

\* public_node_state of an inbound behind a quick tunnel.
PublicState ==
  IF runtime.state = "listening"
  THEN CASE runtime.tunnel = "ready"    -> "listening"
         [] runtime.tunnel = "starting" -> "starting"
         [] OTHER                       -> "failed"
  ELSE IF runtime.state = "absent" THEN "configured" ELSE runtime.state

\* public_host and build_uri: the edge's port and TLS, and the tunnel's host name for
\* address and Host header; without a server the local address.
SubscriptionUri(c) ==
  LET host == IF c.server # 0 THEN c.server ELSE "listen"
  IN  [host |-> host, port |-> 443, security |-> "tls", wsHost |-> host]

\* No cloudflared process is lost: one that runs is in the map, where stop_all finds it,
\* or held by the restart that has just started it (kill_on_drop),
\* however restarts overlap and clients hang up.
ChildOwned ==
  \A g \in Gens : child[g] = "run" => tunnels = g \/ \E r \in Restarters : rs[r].gen = g

\* A tunnel that is shown as ready is watched: the task that will notice the end of some
\* child's output, and take the status back, has not returned.
ReadyIsWatched ==
  runtime.tunnel = "ready" => \E g \in Gens : reader[g] \in {"read", "ok", "drain"}

\* When a tunnel is up and nothing is under way, the health endpoint says so and the
\* subscription leads to this tunnel ("persist the random hostname
\* as the public server"), through failed restarts and rollbacks, unless restarts have
\* overlapped, a client has hung up, a save has failed, or a task of an earlier child
\* was still at work.
SettledIsTrue ==
  /\ trouble = "none" /\ Active = {} /\ tunnels # 0
  /\ child[tunnels] = "run" /\ reader[tunnels] = "drain"
  => PublicState = "listening" /\ SubscriptionUri(config).host = tunnels

\* A tunnel does not stay "starting": while it is shown as such, a restart is about to
\* start its child or a readiness timeout is running, although the timeouts of other
\* generations change it too, unless a client hung up between the two.
StartingIsWatched ==
  runtime.tunnel = "starting" =>
    \/ \E g \in Gens : timer[g] = "sleep"
    \/ \E r \in Restarters : rs[r].pc \in {"launch", "insert"}
    \/ trouble = "hangup"
=============================================================================
