---------------------------- MODULE Tunnel_proofs ----------------------------
(***************************************************************************)
(* However many restarts overlap, fail, roll back and are dropped, and      *)
(* however many children they start: no cloudflared process is lost, and    *)
(* neither "ready" nor "starting" is left without a task that ends it.  And *)
(* as long as restarts do not overlap, what a tunnel settles on is true.    *)
(***************************************************************************)
EXTENDS Tunnel, TLAPS

Labels == {"idle", "install", "stop", "clear", "launch", "insert", "save", "failed", "done"}

Configs == [there : BOOLEAN, server : Nat]

Runtimes == [state : {"absent", "listening", "failed"},
             tunnel : {"none", "starting", "ready", "failed", "stopped", "unavailable"}]

Restarts == [pc : Labels, prev : Configs, undo : BOOLEAN, gen : Gens \cup {0}]

\* The types of what the invariants speak of.
Typed ==
  /\ config \in Configs
  /\ runtime \in Runtimes /\ (runtime.state = "absent" => runtime.tunnel = "none")
  /\ tunnels \in Gens \cup {0}
  /\ child \in [Gens -> {"none", "run", "dying", "dead"}]
  /\ reader \in [Gens -> {"none", "read", "ok", "bad", "drain", "done"}]
  /\ timer \in [Gens -> {"none", "sleep", "done"}]
  /\ rs \in [Restarters -> Restarts]
  /\ trouble \in {"none", "hangup", "other"}

\* A restart holds a child from the spawn to the insertion in the map, and never else.
HoldsWhileInserting ==
  \A r \in Restarters : rs[r].gen # 0 <=> rs[r].pc = "insert"

\* ReadyIsWatched made inductive: the task that wrote "ready" reads on.
ReadyIsRead == runtime.tunnel = "ready" => \E g \in Gens : reader[g] = "drain"

\* A generation that is not started has no reader.
Unborn == \A g \in Gens : child[g] = "none" => reader[g] = "none"

IInv ==
  Typed /\ Unborn /\ HoldsWhileInserting /\ ChildOwned /\ ReadyIsRead /\ StartingIsWatched

-----------------------------------------------------------------------------
LEMMA GensNat == Gens \subseteq Nat /\ 0 \notin Gens
  BY MaxGenAssumption DEF Gens

LEMMA InitHolds == Init => IInv
<1> SUFFICES ASSUME Init PROVE IInv
  OBVIOUS
<1>1. Typed
  BY GensNat DEF Init, Typed, Configs, Runtimes, Restarts, Absent, Idle, Task, Gone, Labels,
     Restarters
<1>2. HoldsWhileInserting
  BY DEF Init, HoldsWhileInserting, Idle, Task
<1>3. Unborn /\ ChildOwned /\ ReadyIsRead /\ StartingIsWatched
  BY DEF Init, Unborn, ChildOwned, ReadyIsRead, StartingIsWatched, Absent
<1> QED
  BY <1>1, <1>2, <1>3 DEF IInv

LEMMA NextHolds == IInv /\ [Next]_vars => IInv'
<1> SUFFICES ASSUME IInv, [Next]_vars PROVE IInv'
  OBVIOUS
<1> USE DEF IInv
<1>1. ASSUME NEW r \in Restarters, Clone(r) PROVE IInv'
  <2>1. Typed'
    BY <1>1, GensNat DEF Clone, Upset, Active, Task, At, tasks, Goto, Typed, Configs, Runtimes,
       Labels, Restarts
  <2>2. HoldsWhileInserting'
    BY <1>1, GensNat DEF Clone, Task, At, Goto, Typed, Labels, Restarts, HoldsWhileInserting
  <2>3. ChildOwned'
    BY <1>1, GensNat DEF Clone, Task, At, Goto, Typed, Restarts, HoldsWhileInserting, ChildOwned
  <2>4. ReadyIsRead'
    BY <1>1 DEF Clone, tasks, Typed, Runtimes, ReadyIsRead
  <2>5. StartingIsWatched'
    BY <1>1, GensNat DEF Clone, Upset, Task, At, tasks, Goto, Typed, Runtimes, Labels, Restarts,
       HoldsWhileInserting, StartingIsWatched
  <2>6. Unborn'
    BY <1>1 DEF Clone, tasks, Typed, Unborn
  <2> QED BY <2>1, <2>2, <2>3, <2>4, <2>5, <2>6 DEF IInv
<1>2. ASSUME NEW r \in Restarters, Install(r) PROVE IInv'
  <2>1. Typed'
    <3>1. config' \in Configs
      <4>1. rs[r].prev \in Configs /\ Gone \in Configs /\ [there |-> TRUE, server |-> 0] \in Configs
        BY DEF Typed, Restarts, Gone, Configs
      <4> QED
        BY <1>2, <4>1 DEF Install
    <3>2. rs' \in [Restarters -> Restarts]
      BY <1>2 DEF Install, Goto, Typed, Restarts, Labels
    <3> QED
      BY <1>2, <3>1, <3>2 DEF Install, tasks, Typed
  <2>2. HoldsWhileInserting'
    BY <1>2, GensNat DEF Install, At, Goto, Typed, Labels, Restarts, HoldsWhileInserting
  <2>3. ChildOwned'
    BY <1>2, GensNat DEF Install, At, Goto, Typed, Restarts, HoldsWhileInserting, ChildOwned
  <2>4. ReadyIsRead'
    BY <1>2 DEF Install, tasks, Typed, Runtimes, ReadyIsRead
  <2>5. StartingIsWatched'
    BY <1>2, GensNat DEF Install, At, tasks, Goto, Typed, Runtimes, Labels, Restarts,
       HoldsWhileInserting, StartingIsWatched
  <2>6. Unborn'
    BY <1>2 DEF Install, tasks, Typed, Unborn
  <2> QED BY <2>1, <2>2, <2>3, <2>4, <2>5, <2>6 DEF IInv
<1>3. ASSUME NEW r \in Restarters, Stop(r) PROVE IInv'
  <2>1. Typed'
    BY <1>3, GensNat DEF Stop, Killed, At, tasks, Goto, Typed, Configs, Runtimes, Labels, Restarts
  <2>2. HoldsWhileInserting'
    BY <1>3, GensNat DEF Stop, At, Goto, Typed, Labels, Restarts, HoldsWhileInserting
  <2>3. ChildOwned'
    BY <1>3, GensNat DEF Stop, Killed, At, Goto, Typed, Restarts, HoldsWhileInserting, ChildOwned
  <2>4. ReadyIsRead'
    BY <1>3 DEF Stop, tasks, Typed, Runtimes, ReadyIsRead
  <2>5. StartingIsWatched'
    BY <1>3, GensNat DEF Stop, At, tasks, Goto, Typed, Runtimes, Labels, Restarts,
       HoldsWhileInserting, StartingIsWatched
  <2>6. Unborn'
    BY <1>3 DEF Stop, Killed, tasks, Typed, Unborn
  <2> QED BY <2>1, <2>2, <2>3, <2>4, <2>5, <2>6 DEF IInv
<1>4. ASSUME NEW r \in Restarters, Listen(r) PROVE IInv'
  <2>1. Typed'
    <3>1. runtime' \in Runtimes /\ runtime'.state = "listening"
      BY <1>4 DEF Listen, Relisten, Entry, Runtimes
    <3>2. rs' \in [Restarters -> Restarts]
      BY <1>4 DEF Listen, Relisten, Goto, Typed, Restarts, Labels
    <3> QED
      BY <1>4, <3>1, <3>2 DEF Listen, Relisten, tasks, Typed
  <2>2. HoldsWhileInserting'
    BY <1>4, GensNat DEF Listen, Relisten, At, Goto, Typed, Labels, Restarts, HoldsWhileInserting
  <2>3. ChildOwned'
    BY <1>4, GensNat DEF Listen, Relisten, At, Goto, Typed, Restarts, HoldsWhileInserting,
       ChildOwned
  <2>4. ReadyIsRead'
    BY <1>4 DEF Listen, Relisten, Entry, tasks, Typed, Runtimes, ReadyIsRead
  <2>5. StartingIsWatched'
    BY <1>4, GensNat DEF Listen, Relisten, Entry, At, tasks, Goto, Typed, Runtimes, Labels,
       Restarts, HoldsWhileInserting, StartingIsWatched
  <2>6. Unborn'
    BY <1>4 DEF Listen, Relisten, tasks, Typed, Unborn
  <2> QED BY <2>1, <2>2, <2>3, <2>4, <2>5, <2>6 DEF IInv
<1>5. ASSUME NEW r \in Restarters, ListenFails(r) PROVE IInv'
  <2>1. Typed'
    <3>1. runtime' \in Runtimes /\ runtime'.state = "failed"
      BY <1>5 DEF ListenFails, Relisten, Entry, Runtimes
    <3>2. rs' \in [Restarters -> Restarts]
      BY <1>5 DEF ListenFails, Relisten, Goto, Typed, Restarts, Labels
    <3> QED
      BY <1>5, <3>1, <3>2 DEF ListenFails, Relisten, tasks, Typed
  <2>2. HoldsWhileInserting'
    BY <1>5, GensNat DEF ListenFails, Relisten, At, Goto, Typed, Labels, Restarts,
       HoldsWhileInserting
  <2>3. ChildOwned'
    BY <1>5, GensNat DEF ListenFails, Relisten, At, Goto, Typed, Restarts, HoldsWhileInserting,
       ChildOwned
  <2>4. ReadyIsRead'
    BY <1>5 DEF ListenFails, Relisten, Entry, tasks, Typed, Runtimes, ReadyIsRead
  <2>5. StartingIsWatched'
    BY <1>5, GensNat DEF ListenFails, Relisten, Entry, At, tasks, Goto, Typed, Runtimes, Labels,
       Restarts, HoldsWhileInserting, StartingIsWatched
  <2>6. Unborn'
    BY <1>5 DEF ListenFails, Relisten, tasks, Typed, Unborn
  <2> QED BY <2>1, <2>2, <2>3, <2>4, <2>5, <2>6 DEF IInv
<1>6. ASSUME NEW r \in Restarters, NotThere(r) PROVE IInv'
  <2>1. Typed'
    BY <1>6, GensNat DEF NotThere, Absent, At, tasks, Goto, Typed, Configs, Runtimes, Labels,
       Restarts
  <2>2. HoldsWhileInserting'
    BY <1>6, GensNat DEF NotThere, At, Goto, Typed, Labels, Restarts, HoldsWhileInserting
  <2>3. ChildOwned'
    BY <1>6, GensNat DEF NotThere, At, Goto, Typed, Restarts, HoldsWhileInserting, ChildOwned
  <2>4. ReadyIsRead'
    BY <1>6 DEF NotThere, Absent, tasks, Typed, Runtimes, ReadyIsRead
  <2>5. StartingIsWatched'
    BY <1>6, GensNat DEF NotThere, Absent, At, tasks, Goto, Typed, Runtimes, Labels, Restarts,
       HoldsWhileInserting, StartingIsWatched
  <2>6. Unborn'
    BY <1>6 DEF NotThere, tasks, Typed, Unborn
  <2> QED BY <2>1, <2>2, <2>3, <2>4, <2>5, <2>6 DEF IInv
<1>7. ASSUME NEW r \in Restarters, Launch(r) PROVE IInv'
  <2>0. PICK g \in Gens :
          /\ child[g] = "none" /\ child' = [child EXCEPT ![g] = "run"]
          /\ reader' = [reader EXCEPT ![g] = "read"]
          /\ rs' = [rs EXCEPT ![r] = Task("insert", @.prev, @.undo, g)]
    BY <1>7 DEF Launch
  <2>1. Typed'
    <3>1. rs' \in [Restarters -> Restarts]
      BY <2>0 DEF Task, Typed, Restarts, Labels
    <3> QED
      BY <1>7, <2>0, <3>1 DEF Launch, Typed
  <2>2. HoldsWhileInserting'
    BY <2>0, GensNat DEF Task, Typed, Labels, Restarts, HoldsWhileInserting
  <2>3. ChildOwned'
    <3>1. rs[r].gen = 0 /\ rs'[r].gen = g
      BY <1>7, <2>0 DEF Launch, At, Task, Typed, Restarts, Labels, HoldsWhileInserting
    <3>2. \A q \in Restarters \ {r} : rs'[q] = rs[q]
      BY <2>0 DEF Typed
    <3>3. \A h \in Gens : child'[h] = "run" => h = g \/ child[h] = "run"
      BY <2>0 DEF Typed
    <3>4. tunnels' = tunnels
      BY <1>7 DEF Launch
    <3> QED
      BY <3>1, <3>2, <3>3, <3>4, GensNat DEF ChildOwned
  <2>4. ReadyIsRead'
    BY <1>7, <2>0 DEF Launch, Typed, Unborn, ReadyIsRead
  <2>5. StartingIsWatched'
    BY <1>7, <2>0 DEF Launch, Task, Typed, Labels, Restarts, StartingIsWatched
  <2>6. Unborn'
    BY <2>0 DEF Typed, Unborn
  <2> QED BY <2>1, <2>2, <2>3, <2>4, <2>5, <2>6 DEF IInv
<1>8. ASSUME NEW r \in Restarters, LaunchFails(r) PROVE IInv'
  <2>1. Typed'
    BY <1>8, GensNat DEF LaunchFails, Marked, At, tasks, Goto, Typed, Configs, Runtimes, Labels,
       Restarts
  <2>2. HoldsWhileInserting'
    BY <1>8, GensNat DEF LaunchFails, At, Goto, Typed, Labels, Restarts, HoldsWhileInserting
  <2>3. ChildOwned'
    BY <1>8, GensNat DEF LaunchFails, At, Goto, Typed, Restarts, HoldsWhileInserting, ChildOwned
  <2>4. ReadyIsRead'
    BY <1>8 DEF LaunchFails, Marked, tasks, Typed, Runtimes, ReadyIsRead
  <2>5. StartingIsWatched'
    BY <1>8, GensNat DEF LaunchFails, Marked, At, tasks, Goto, Typed, Runtimes, Labels, Restarts,
       HoldsWhileInserting, StartingIsWatched
  <2>6. Unborn'
    BY <1>8 DEF LaunchFails, tasks, Typed, Unborn
  <2> QED BY <2>1, <2>2, <2>3, <2>4, <2>5, <2>6 DEF IInv
<1>9. ASSUME NEW r \in Restarters, Insert(r) PROVE IInv'
  <2>1. Typed'
    <3>1. rs[r].gen \in Gens
      BY <1>9 DEF Insert, At, Typed, Restarts, HoldsWhileInserting
    <3>2. child' \in [Gens -> {"none", "run", "dying", "dead"}]
      BY <1>9 DEF Insert, Killed, Typed
    <3>3. rs' \in [Restarters -> Restarts]
      BY <1>9 DEF Insert, Task, Typed, Restarts, Labels
    <3> QED
      BY <1>9, <3>1, <3>2, <3>3 DEF Insert, Typed
  <2>2. HoldsWhileInserting'
    BY <1>9, GensNat DEF Insert, Task, At, Typed, Labels, Restarts, HoldsWhileInserting
  <2>3. ChildOwned'
    BY <1>9, GensNat DEF Insert, Killed, Task, At, Typed, Restarts, HoldsWhileInserting, ChildOwned
  <2>4. ReadyIsRead'
    BY <1>9 DEF Insert, tasks, Typed, Runtimes, ReadyIsRead
  <2>5. StartingIsWatched'
    BY <1>9, GensNat DEF Insert, Task, At, tasks, Typed, Runtimes, Labels, Restarts,
       HoldsWhileInserting, StartingIsWatched
  <2>6. Unborn'
    BY <1>9 DEF Insert, Killed, tasks, Typed, Unborn
  <2> QED BY <2>1, <2>2, <2>3, <2>4, <2>5, <2>6 DEF IInv
<1>10. ASSUME NEW r \in Restarters, SaveOk(r) PROVE IInv'
  <2>1. Typed'
    BY <1>10, GensNat DEF SaveOk, Done, Task, Gone, At, tasks, Typed, Configs, Runtimes, Labels,
       Restarts
  <2>2. HoldsWhileInserting'
    BY <1>10, GensNat DEF SaveOk, Done, Task, At, Typed, Labels, Restarts, HoldsWhileInserting
  <2>3. ChildOwned'
    BY <1>10, GensNat DEF SaveOk, Done, Task, At, Typed, Restarts, HoldsWhileInserting, ChildOwned
  <2>4. ReadyIsRead'
    BY <1>10 DEF SaveOk, tasks, Typed, Runtimes, ReadyIsRead
  <2>5. StartingIsWatched'
    BY <1>10, GensNat DEF SaveOk, Done, Task, At, tasks, Typed, Runtimes, Labels, Restarts,
       HoldsWhileInserting, StartingIsWatched
  <2>6. Unborn'
    BY <1>10 DEF SaveOk, tasks, Typed, Unborn
  <2> QED BY <2>1, <2>2, <2>3, <2>4, <2>5, <2>6 DEF IInv
<1>11. ASSUME NEW r \in Restarters, Undo(r) PROVE IInv'
  <2>1. Typed'
    BY <1>11, GensNat DEF Undo, Gone, Task, At, tasks, Typed, Configs, Runtimes, Labels, Restarts
  <2>2. HoldsWhileInserting'
    BY <1>11, GensNat DEF Undo, Task, At, Typed, Labels, Restarts, HoldsWhileInserting
  <2>3. ChildOwned'
    BY <1>11, GensNat DEF Undo, Task, At, Typed, Restarts, HoldsWhileInserting, ChildOwned
  <2>4. ReadyIsRead'
    BY <1>11 DEF Undo, tasks, Typed, Runtimes, ReadyIsRead
  <2>5. StartingIsWatched'
    BY <1>11, GensNat DEF Undo, Task, At, tasks, Typed, Runtimes, Labels, Restarts,
       HoldsWhileInserting, StartingIsWatched
  <2>6. Unborn'
    BY <1>11 DEF Undo, tasks, Typed, Unborn
  <2> QED BY <2>1, <2>2, <2>3, <2>4, <2>5, <2>6 DEF IInv
<1>12. ASSUME NEW r \in Restarters, GiveUp(r) PROVE IInv'
  <2>1. Typed'
    BY <1>12, GensNat DEF GiveUp, Done, Task, Gone, At, tasks, Typed, Configs, Runtimes, Labels,
       Restarts
  <2>2. HoldsWhileInserting'
    BY <1>12, GensNat DEF GiveUp, Done, Task, At, Typed, Labels, Restarts, HoldsWhileInserting
  <2>3. ChildOwned'
    BY <1>12, GensNat DEF GiveUp, Done, Task, At, Typed, Restarts, HoldsWhileInserting, ChildOwned
  <2>4. ReadyIsRead'
    BY <1>12 DEF GiveUp, tasks, Typed, Runtimes, ReadyIsRead
  <2>5. StartingIsWatched'
    BY <1>12, GensNat DEF GiveUp, Done, Task, At, tasks, Typed, Runtimes, Labels, Restarts,
       HoldsWhileInserting, StartingIsWatched
  <2>6. Unborn'
    BY <1>12 DEF GiveUp, tasks, Typed, Unborn
  <2> QED BY <2>1, <2>2, <2>3, <2>4, <2>5, <2>6 DEF IInv
<1>13. ASSUME NEW r \in Restarters, HangUp(r) PROVE IInv'
  <2>1. Typed'
    BY <1>13, GensNat DEF HangUp, Killed, Active, Done, Task, Gone, At, tasks, Typed, Configs,
       Runtimes, Labels, Restarts
  <2>2. HoldsWhileInserting'
    BY <1>13, GensNat DEF HangUp, Done, Task, At, Typed, Labels, Restarts, HoldsWhileInserting
  <2>3. ChildOwned'
    BY <1>13, GensNat DEF HangUp, Killed, Done, Task, At, Typed, Restarts, HoldsWhileInserting,
       ChildOwned
  <2>4. ReadyIsRead'
    BY <1>13 DEF HangUp, tasks, Typed, Runtimes, ReadyIsRead
  <2>5. StartingIsWatched'
    BY <1>13, GensNat DEF HangUp, Done, Task, At, tasks, Typed, Runtimes, Labels, Restarts,
       HoldsWhileInserting, StartingIsWatched
  <2>6. Unborn'
    BY <1>13 DEF HangUp, Killed, tasks, Typed, Unborn
  <2> QED BY <2>1, <2>2, <2>3, <2>4, <2>5, <2>6 DEF IInv
<1>14. ASSUME NEW g \in Gens, Announce(g) PROVE IInv'
  <2>1. Typed'
    BY <1>14, GensNat DEF Announce, tasks, Typed, Configs, Runtimes, Labels, Restarts
  <2>2. HoldsWhileInserting'
    BY <1>14 DEF Announce, HoldsWhileInserting
  <2>3. ChildOwned'
    BY <1>14 DEF Announce, Typed, ChildOwned
  <2>4. ReadyIsRead'
    BY <1>14 DEF Announce, tasks, Typed, Runtimes, ReadyIsRead
  <2>5. StartingIsWatched'
    BY <1>14 DEF Announce, tasks, Typed, Runtimes, StartingIsWatched
  <2>6. Unborn'
    BY <1>14 DEF Announce, tasks, Typed, Unborn
  <2> QED BY <2>1, <2>2, <2>3, <2>4, <2>5, <2>6 DEF IInv
<1>15. ASSUME NEW g \in Gens, Exit(g) PROVE IInv'
  <2>1. Typed'
    BY <1>15, GensNat DEF Exit, tasks, Typed, Configs, Runtimes, Labels, Restarts
  <2>2. HoldsWhileInserting'
    BY <1>15 DEF Exit, HoldsWhileInserting
  <2>3. ChildOwned'
    BY <1>15 DEF Exit, Typed, ChildOwned
  <2>4. ReadyIsRead'
    BY <1>15 DEF Exit, tasks, Typed, Runtimes, ReadyIsRead
  <2>5. StartingIsWatched'
    BY <1>15 DEF Exit, tasks, Typed, Runtimes, StartingIsWatched
  <2>6. Unborn'
    BY <1>15 DEF Exit, tasks, Typed, Unborn
  <2> QED BY <2>1, <2>2, <2>3, <2>4, <2>5, <2>6 DEF IInv
<1>16. ASSUME NEW g \in Gens, Die(g) PROVE IInv'
  <2>1. Typed'
    BY <1>16, GensNat DEF Die, tasks, Typed, Configs, Runtimes, Labels, Restarts
  <2>2. HoldsWhileInserting'
    BY <1>16 DEF Die, HoldsWhileInserting
  <2>3. ChildOwned'
    BY <1>16 DEF Die, Typed, ChildOwned
  <2>4. ReadyIsRead'
    BY <1>16 DEF Die, tasks, Typed, Runtimes, ReadyIsRead
  <2>5. StartingIsWatched'
    BY <1>16 DEF Die, tasks, Typed, Runtimes, StartingIsWatched
  <2>6. Unborn'
    BY <1>16 DEF Die, tasks, Typed, Unborn
  <2> QED BY <2>1, <2>2, <2>3, <2>4, <2>5, <2>6 DEF IInv
<1>17. ASSUME NEW g \in Gens, TakeHost(g) PROVE IInv'
  <2>1. Typed'
    BY <1>17, GensNat DEF TakeHost, Upset, Late, tasks, Typed, Configs, Runtimes, Labels, Restarts
  <2>2. HoldsWhileInserting'
    BY <1>17 DEF TakeHost, HoldsWhileInserting
  <2>3. ChildOwned'
    BY <1>17 DEF TakeHost, Typed, ChildOwned
  <2>4. ReadyIsRead'
    BY <1>17 DEF TakeHost, tasks, Typed, Runtimes, ReadyIsRead
  <2>5. StartingIsWatched'
    BY <1>17 DEF TakeHost, Upset, Late, tasks, Typed, Runtimes, StartingIsWatched
  <2>6. Unborn'
    BY <1>17 DEF TakeHost, tasks, Typed, Unborn
  <2> QED BY <2>1, <2>2, <2>3, <2>4, <2>5, <2>6 DEF IInv
<1>18. ASSUME NEW g \in Gens, Mark(g) PROVE IInv'
  <2>1. Typed'
    BY <1>18, GensNat DEF Mark, Marked, Upset, Late, tasks, Typed, Configs, Runtimes, Labels,
       Restarts
  <2>2. HoldsWhileInserting'
    BY <1>18 DEF Mark, HoldsWhileInserting
  <2>3. ChildOwned'
    BY <1>18 DEF Mark, Typed, ChildOwned
  <2>4. ReadyIsRead'
    BY <1>18 DEF Mark, Marked, tasks, Typed, Runtimes, ReadyIsRead
  <2>5. StartingIsWatched'
    BY <1>18 DEF Mark, Marked, Upset, Late, tasks, Typed, Runtimes, StartingIsWatched
  <2>6. Unborn'
    BY <1>18 DEF Mark, tasks, Typed, Unborn
  <2> QED BY <2>1, <2>2, <2>3, <2>4, <2>5, <2>6 DEF IInv
<1>19. ASSUME NEW g \in Gens, Eof(g) PROVE IInv'
  <2>1. Typed'
    BY <1>19, GensNat DEF Eof, Marked, Upset, Late, tasks, Typed, Configs, Runtimes, Labels,
       Restarts
  <2>2. HoldsWhileInserting'
    BY <1>19 DEF Eof, HoldsWhileInserting
  <2>3. ChildOwned'
    BY <1>19 DEF Eof, Typed, ChildOwned
  <2>4. ReadyIsRead'
    BY <1>19 DEF Eof, Marked, tasks, Typed, Runtimes, ReadyIsRead
  <2>5. StartingIsWatched'
    BY <1>19 DEF Eof, Marked, Upset, Late, tasks, Typed, Runtimes, StartingIsWatched
  <2>6. Unborn'
    BY <1>19 DEF Eof, tasks, Typed, Unborn
  <2> QED BY <2>1, <2>2, <2>3, <2>4, <2>5, <2>6 DEF IInv
<1>20. ASSUME NEW g \in Gens, Timeout(g) PROVE IInv'
  <2>1. Typed'
    BY <1>20, GensNat DEF Timeout, Marked, tasks, Typed, Configs, Runtimes, Labels, Restarts
  <2>2. HoldsWhileInserting'
    BY <1>20 DEF Timeout, HoldsWhileInserting
  <2>3. ChildOwned'
    BY <1>20 DEF Timeout, Typed, ChildOwned
  <2>4. ReadyIsRead'
    BY <1>20 DEF Timeout, Marked, tasks, Typed, Runtimes, ReadyIsRead
  <2>5. StartingIsWatched'
    BY <1>20 DEF Timeout, Marked, tasks, Typed, Runtimes, StartingIsWatched
  <2>6. Unborn'
    BY <1>20 DEF Timeout, tasks, Typed, Unborn
  <2> QED BY <2>1, <2>2, <2>3, <2>4, <2>5, <2>6 DEF IInv
<1>21. ASSUME ProbeChild PROVE IInv'
  <2>1. Typed'
    BY <1>21, GensNat DEF ProbeChild, tasks, Typed, Configs, Runtimes, Labels, Restarts
  <2>2. HoldsWhileInserting'
    BY <1>21 DEF ProbeChild, HoldsWhileInserting
  <2>3. ChildOwned'
    BY <1>21 DEF ProbeChild, Typed, ChildOwned
  <2>4. ReadyIsRead'
    BY <1>21 DEF ProbeChild, tasks, Typed, Runtimes, ReadyIsRead
  <2>5. StartingIsWatched'
    BY <1>21 DEF ProbeChild, tasks, Typed, Runtimes, StartingIsWatched
  <2>6. Unborn'
    BY <1>21 DEF ProbeChild, tasks, Typed, Unborn
  <2> QED BY <2>1, <2>2, <2>3, <2>4, <2>5, <2>6 DEF IInv
<1>22. ASSUME ProbeMark PROVE IInv'
  <2>1. Typed'
    BY <1>22, GensNat DEF ProbeMark, Marked, Upset, tasks, Typed, Configs, Runtimes, Labels,
       Restarts
  <2>2. HoldsWhileInserting'
    BY <1>22 DEF ProbeMark, HoldsWhileInserting
  <2>3. ChildOwned'
    BY <1>22 DEF ProbeMark, Typed, ChildOwned
  <2>4. ReadyIsRead'
    BY <1>22 DEF ProbeMark, Marked, tasks, Typed, Runtimes, ReadyIsRead
  <2>5. StartingIsWatched'
    BY <1>22 DEF ProbeMark, Marked, Upset, tasks, Typed, Runtimes, StartingIsWatched
  <2>6. Unborn'
    BY <1>22 DEF ProbeMark, tasks, Typed, Unborn
  <2> QED BY <2>1, <2>2, <2>3, <2>4, <2>5, <2>6 DEF IInv
<1>23. ASSUME NEW r \in Restarters, SpawnStops(r) PROVE IInv'
  <2>1. Typed'
    <3>1. child' \in [Gens -> {"none", "run", "dying", "dead"}]
      BY <1>23 DEF SpawnStops, Killed, Typed
    <3>2. rs' \in [Restarters -> Restarts]
      BY <1>23 DEF SpawnStops, Done, Task, Gone, Typed, Configs, Restarts, Labels
    <3> QED
      BY <1>23, <3>1, <3>2 DEF SpawnStops, Absent, tasks, Typed, Runtimes
  <2>2. HoldsWhileInserting'
    BY <1>23, GensNat DEF SpawnStops, Done, Task, At, Typed, Labels, Restarts, HoldsWhileInserting
  <2>3. ChildOwned'
    BY <1>23, GensNat DEF SpawnStops, Killed, Done, Task, At, Typed, Restarts,
       HoldsWhileInserting, ChildOwned
  <2>4. ReadyIsRead'
    BY <1>23 DEF SpawnStops, Absent, tasks, Typed, Runtimes, ReadyIsRead
  <2>5. StartingIsWatched'
    BY <1>23 DEF SpawnStops, Absent, StartingIsWatched
  <2>6. Unborn'
    BY <1>23 DEF SpawnStops, Killed, tasks, Typed, Unborn
  <2> QED BY <2>1, <2>2, <2>3, <2>4, <2>5, <2>6 DEF IInv
<1>24. CASE UNCHANGED vars
  BY <1>24 DEF vars, tasks, Typed, Unborn, HoldsWhileInserting, ChildOwned, ReadyIsRead,
     StartingIsWatched
<1> QED
  BY <1>1, <1>2, <1>3, <1>4, <1>5, <1>6, <1>7, <1>8, <1>9, <1>10, <1>11, <1>12, <1>13, <1>14,
     <1>15, <1>16, <1>17, <1>18, <1>19, <1>20, <1>21, <1>22, <1>23, <1>24
     DEF Next

-----------------------------------------------------------------------------
THEOREM Inductive == Spec => []IInv
  BY InitHolds, NextHolds, PTL DEF Spec

\* No cloudflared process is lost, for any number of restarts and of children.
THEOREM ChildOwnedHolds == Spec => []ChildOwned
<1>1. IInv => ChildOwned
  BY DEF IInv
<1> QED
  BY <1>1, Inductive, PTL

\* What is shown as ready is watched by a reader that has not returned.
THEOREM ReadyIsWatchedHolds == Spec => []ReadyIsWatched
<1>1. IInv => ReadyIsWatched
  BY DEF IInv, ReadyIsRead, ReadyIsWatched
<1> QED
  BY <1>1, Inductive, PTL

\* What is shown as starting will be changed by its restart or a timeout.
THEOREM StartingIsWatchedHolds == Spec => []StartingIsWatched
<1>1. IInv => StartingIsWatched
  BY DEF IInv
<1> QED
  BY <1>1, Inductive, PTL

-----------------------------------------------------------------------------
(* SettledIsTrue.  While nothing has disturbed the tunnel one restart is under way at   *)
(* most, and the child that is in the map, or about to be, is the last one started: the *)
(* tasks of earlier ones may write what they like until its own reader has its host.    *)

Current(g) == tunnels = g \/ \E r \in Restarters : rs[r].gen = g

Newest(g) == child[g] # "none" /\ \A h \in Gens : h > g => child[h] = "none"

\* What the reader of a child has written is still there.
Told(g) ==
  /\ config.there /\ reader[g] # "bad"
  /\ reader[g] \in {"ok", "drain"} => config.server = g
  /\ reader[g] = "drain" /\ child[g] = "run" => runtime.tunnel = "ready"

\* A restart that has changed the configuration and not yet stopped the child.
Replacing == \E r \in Restarters : At(r, "stop")

TheNewest == \A g \in Gens : Current(g) => Newest(g) /\ runtime.state = "listening"

ItsWord == \A g \in Gens : Current(g) => Replacing \/ Told(g)

Prepared(r) ==
  /\ rs[r].pc \in {"clear", "launch", "insert", "failed"} => tunnels = 0
  /\ At(r, "launch") => runtime.state = "listening" /\ config.there

OneActive == \A p, q \in Active : p = q

InOrder == \A g, h \in Gens : child[g] # "none" /\ h < g => child[h] # "none"

Calm == OneActive /\ (\A r \in Restarters : Prepared(r)) /\ TheNewest /\ ItsWord

Steady == InOrder /\ (trouble = "none" => Calm)

LEMMA InitSteady == Init => Steady
<1>. SUFFICES ASSUME Init PROVE Steady
  OBVIOUS
<1>1. InOrder
  BY DEF Init, InOrder
<1>2. \A r \in Restarters : /\ rs[r].gen = 0 /\ rs[r].pc \in {"clear", "idle"}
                            /\ rs[r].pc = "clear" => r = Boot
  BY DEF Init, Task, Idle
<1>3. \A g \in Gens : ~Current(g)
  BY <1>2, GensNat DEF Init, Current
<1>4. OneActive /\ \A r \in Restarters : Prepared(r)
  BY <1>2 DEF Init, OneActive, Active, At, Prepared
<1>. QED  BY <1>1, <1>3, <1>4 DEF Steady, Calm, TheNewest, ItsWord

\* A step of a child, of its tasks or of a status request.
LEMMA TaskStep ==
  ASSUME IInv, Steady, UNCHANGED <<tunnels, rs>>, trouble' = "none" => trouble = "none",
         \A g \in Gens : child'[g] = "none" <=> child[g] = "none",
         runtime'.state = runtime.state, config'.there = config.there,
         ASSUME trouble' = "none", NEW g \in Gens, Current(g), Newest(g), Told(g) PROVE Told(g)'
  PROVE  Steady'
<1>1. InOrder'
  BY DEF Steady, InOrder
<1>2. ASSUME trouble' = "none" PROVE Calm'
  <2>1. Calm
    BY <1>2 DEF Steady
  <2>2. OneActive' /\ \A r \in Restarters : Prepared(r)'
    BY <2>1 DEF Calm, OneActive, Active, At, Prepared
  <2>3. \A g \in Gens : Current(g)' <=> Current(g)
    BY DEF Current
  <2>4. TheNewest'
    BY <2>1, <2>3 DEF Calm, TheNewest, Newest
  <2>5. ItsWord'
    BY <1>2, <2>1, <2>3 DEF Calm, TheNewest, ItsWord, Replacing, At
  <2>. QED  BY <2>2, <2>4, <2>5 DEF Calm
<1>. QED  BY <1>1, <1>2 DEF Steady

LEMMA MarkedState ==
  ASSUME Typed, NEW s
  PROVE  Marked(s).state = runtime.state /\ (runtime.state # "absent" => Marked(s).tunnel = s)
BY DEF Marked, Typed, Runtimes

\* The tasks of earlier children disturb the tunnel once the newest one's has its host.
LEMMA LateSteady ==
  ASSUME Typed, Unborn, NEW g \in Gens, NEW h \in Gens, Late(h), trouble' = "none",
         Newest(g), reader[h] # "none", g # h
  PROVE  reader[g] \notin {"ok", "drain"}
<1>1. h < g
  BY GensNat DEF Newest, Unborn
<1>. QED  BY <1>1 DEF Late, Upset, Overtaken

LEMMA UpsetLasts == ASSUME NEW c, Upset(c), trouble' = "none" PROVE trouble = "none" /\ ~c
BY DEF Upset

LEMMA ChildSteady ==
  ASSUME IInv, Steady, NEW h \in Gens, Announce(h) \/ Exit(h) \/ Die(h) \/ Timeout(h)
  PROVE  Steady'
<1>1. UNCHANGED <<tunnels, rs, config, reader, trouble>> /\ Typed
  BY DEF Announce, Exit, Die, Timeout, tasks, IInv
<1>2. \A g \in Gens : (child'[g] = "none" <=> child[g] = "none") /\ (child'[g] = "run" => child[g] = "run")
  BY <1>1 DEF Announce, Exit, Die, Timeout, Typed
<1>3. runtime'.state = runtime.state /\ (runtime.tunnel = "ready" => runtime' = runtime)
  BY <1>1, MarkedState DEF Announce, Exit, Die, Timeout
<1>4. ASSUME NEW g \in Gens, Told(g) PROVE Told(g)'
  BY <1>1, <1>2, <1>3, <1>4 DEF Told
<1>. QED  BY <1>1, <1>2, <1>3, <1>4, TaskStep

LEMMA ReaderSteady ==
  ASSUME IInv, Steady, NEW h \in Gens, TakeHost(h) \/ Mark(h) \/ Eof(h)
  PROVE  Steady'
<1>1. UNCHANGED <<tunnels, rs, child>> /\ Typed /\ Unborn /\ reader[h] # "none"
  BY DEF TakeHost, Mark, Eof, IInv
<1>2. trouble' = "none" => trouble = "none"
  BY UpsetLasts DEF TakeHost, Mark, Eof, Late
<1>3. runtime'.state = runtime.state /\ config'.there = config.there
  BY <1>1, MarkedState DEF TakeHost, Mark, Eof, Typed, Configs
<1>4. ASSUME trouble' = "none", NEW g \in Gens, Current(g), Newest(g), Told(g)
      PROVE  Told(g)'
  <2>1. runtime.state = "listening"
    BY <1>2, <1>4 DEF Steady, Calm, TheNewest
  <2>2. Late(h)
    <3>1. CASE TakeHost(h)
      BY <1>4, <3>1, UpsetLasts DEF TakeHost, Told
    <3>. QED  BY <3>1 DEF Mark, Eof
  <2>3. CASE g # h
    <3>1. reader[g] \notin {"ok", "drain"} /\ reader[g] # "bad"
      BY <1>1, <1>4, <2>2, <2>3, LateSteady DEF Told
    <3>2. reader'[g] = reader[g]
      BY <1>1, <2>3 DEF TakeHost, Mark, Eof, Typed
    <3>. QED  BY <1>3, <1>4, <3>1, <3>2 DEF Told
  <2>4. CASE g = h
    <3>1. CASE TakeHost(g)
      <4>1. config' = [config EXCEPT !.server = g] /\ reader' = [reader EXCEPT ![g] = "ok"]
        BY <1>4, <3>1, UpsetLasts DEF TakeHost, Told
      <4>. QED  BY <1>1, <1>4, <4>1 DEF Told, Typed, Configs
    <3>2. CASE Mark(g)
      <4>1. reader[g] = "ok" /\ config' = config /\ reader'[g] = "drain" /\ runtime' = Marked("ready")
        BY <1>1, <1>4, <3>2 DEF Mark, Told, Typed
      <4>. QED  BY <1>1, <1>4, <2>1, <4>1, MarkedState DEF Told
    <3>3. CASE Eof(g)
      BY <1>1, <1>4, <3>3 DEF Eof, Told, Typed
    <3>. QED  BY <2>4, <3>1, <3>2, <3>3
  <2>. QED  BY <2>3, <2>4
<1>. QED  BY <1>1, <1>2, <1>3, <1>4, TaskStep

LEMMA ProbeSteady ==
  ASSUME IInv, Steady, ProbeChild \/ ProbeMark
  PROVE  Steady'
<1>1. UNCHANGED <<tunnels, rs, config, child, reader>> /\ Typed
  BY DEF ProbeChild, ProbeMark, IInv, tasks
<1>2. trouble' = "none" => trouble = "none"
  BY UpsetLasts DEF ProbeChild, ProbeMark
<1>3. runtime'.state = runtime.state
  BY <1>1, MarkedState DEF ProbeChild, ProbeMark
<1>4. ASSUME trouble' = "none", NEW g \in Gens, Current(g), Newest(g), Told(g)
      PROVE  Told(g)'
  <2>1. CASE ProbeChild
    BY <1>1, <1>4, <2>1 DEF ProbeChild, Told
  <2>2. CASE ProbeMark
    <3>1. tunnels # 0 /\ child[tunnels] = "dead"
      BY <1>4, <2>2, UpsetLasts DEF ProbeMark
    <3>2. \A r \in Restarters : rs[r].gen = 0
      BY <1>2, <1>4, <3>1 DEF Steady, Calm, Prepared, IInv, HoldsWhileInserting
    <3>3. child[g] = "dead"
      BY <1>4, <3>1, <3>2, GensNat DEF Current
    <3>. QED  BY <1>1, <1>4, <3>3 DEF Told
  <2>. QED  BY <2>1, <2>2
<1>. QED  BY <1>1, <1>2, <1>3, <1>4, TaskStep

\* A step of the only restart under way.
LEMMA RestartStep ==
  ASSUME IInv, Steady, NEW r \in Restarters, trouble' = "none" => trouble = "none" /\ Active \subseteq {r},
         \A q \in Restarters \ {r} : rs'[q] = rs[q], InOrder',
         trouble' = "none" => Prepared(r)',
         ASSUME trouble' = "none", NEW g \in Gens, tunnels' = g \/ rs'[r].gen = g
         PROVE  Newest(g)' /\ runtime'.state = "listening" /\ (At(r, "stop")' \/ Told(g)')
  PROVE  Steady'
<1>1. ASSUME trouble' = "none" PROVE Calm'
  <2>1. \A q \in Restarters \ {r} : rs'[q].pc \in {"idle", "done"} /\ rs'[q].gen = 0
    BY <1>1 DEF Active, At, IInv, HoldsWhileInserting
  <2>2. OneActive'
    BY <2>1 DEF OneActive, Active, At
  <2>3. \A q \in Restarters : Prepared(q)'
    BY <1>1, <2>1 DEF Prepared, At
  <2>4. \A g \in Gens : Current(g)' => tunnels' = g \/ rs'[r].gen = g
    BY <2>1, GensNat DEF Current
  <2>5. TheNewest' /\ ItsWord'
    BY <1>1, <2>4 DEF TheNewest, ItsWord, Replacing
  <2>. QED  BY <2>2, <2>3, <2>5 DEF Calm
<1>. QED  BY <1>1 DEF Steady

LEMMA OnlyOne ==
  ASSUME Steady, trouble = "none", NEW r \in Restarters, rs[r].pc \notin {"idle", "done"}
  PROVE  Active \subseteq {r} /\ Prepared(r)
BY DEF Steady, Calm, OneActive, Active, At

\* The steps that leave the children alone.
LEMMA KeepsOrder ==
  ASSUME Steady, child' = child
  PROVE  InOrder'
BY DEF Steady, InOrder

LEMMA KilledBorn ==
  ASSUME Typed, Steady, NEW gs, child' = Killed(gs)
  PROVE  InOrder' /\ \A g \in Gens : child'[g] = "none" <=> child[g] = "none"
<1>1. \A g \in Gens : child'[g] = "none" <=> child[g] = "none"
  BY DEF Killed, Typed
<1>. QED  BY <1>1 DEF Steady, InOrder

LEMMA RsTyped ==
  ASSUME IInv, NEW r \in Restarters
  PROVE  /\ rs \in [Restarters -> Restarts] /\ rs[r] \in Restarts
         /\ rs[r].gen # 0 <=> rs[r].pc = "insert"
BY DEF IInv, Typed, HoldsWhileInserting

LEMMA CloneSteady ==
  ASSUME IInv, Steady, NEW r \in Restarters, Clone(r)
  PROVE  Steady'
<1>1. rs'[r].pc = "install" /\ rs'[r].gen = 0 /\ \A q \in Restarters \ {r} : rs'[q] = rs[q]
  BY RsTyped DEF Clone, Task
<1>2. UNCHANGED <<config, runtime, tunnels, child, reader>>
  BY DEF Clone, tasks
<1>3. ASSUME trouble' = "none" PROVE trouble = "none" /\ Active = {}
  BY <1>3, UpsetLasts DEF Clone
<1>4. ASSUME trouble' = "none", NEW g \in Gens, tunnels' = g \/ rs'[r].gen = g
      PROVE  Newest(g)' /\ runtime'.state = "listening" /\ Told(g)'
  <2>1. Current(g) /\ Calm /\ ~Replacing
    BY <1>1, <1>2, <1>3, <1>4, GensNat DEF Current, Steady, Replacing, Active, At
  <2>2. Newest(g) /\ Told(g) /\ runtime.state = "listening"
    BY <2>1 DEF Calm, TheNewest, ItsWord
  <2>. QED  BY <1>2, <2>2 DEF Newest, Told
<1>. QED  BY <1>1, <1>2, <1>3, <1>4, RestartStep, KeepsOrder DEF Prepared, At

\* Into "stop", where the configuration no longer matters.
LEMMA ReplacingSteady ==
  ASSUME IInv, Steady, NEW r \in Restarters, Install(r) \/ Undo(r)
  PROVE  Steady'
<1>1. /\ rs'[r].pc = "stop" /\ rs'[r].gen = 0 /\ \A q \in Restarters \ {r} : rs'[q] = rs[q]
      /\ rs[r].pc \in {"install", "save", "failed"} /\ rs[r].gen = 0
  BY RsTyped DEF Install, Undo, Goto, Task, At, Restarts
<1>2. UNCHANGED <<runtime, tunnels, child, trouble>>
  BY DEF Install, Undo
<1>3. trouble' = "none" => trouble = "none" /\ Active \subseteq {r}
  BY <1>1, <1>2, OnlyOne
<1>4. ASSUME trouble' = "none", NEW g \in Gens, tunnels' = g \/ rs'[r].gen = g
      PROVE  Newest(g)' /\ runtime'.state = "listening"
  <2>1. Current(g) /\ Calm
    BY <1>1, <1>2, <1>4, GensNat DEF Current, Steady
  <2>. QED  BY <1>2, <2>1 DEF Calm, TheNewest, Newest
<1>. QED  BY <1>1, <1>2, <1>3, <1>4, RestartStep, KeepsOrder DEF Prepared, At

LEMMA StopSteady ==
  ASSUME IInv, Steady, NEW r \in Restarters, Stop(r) \/ SpawnStops(r)
  PROVE  Steady'
<1>1. /\ rs'[r].pc \in {"clear", "done"} /\ rs'[r].gen = 0
      /\ \A q \in Restarters \ {r} : rs'[q] = rs[q]
      /\ rs[r].pc \in {"stop", "failed", "save"}
  BY RsTyped DEF Stop, SpawnStops, Goto, Done, Task, At, Restarts
<1>2. tunnels' = 0 /\ InOrder' /\ trouble' = trouble
  BY KilledBorn DEF Stop, SpawnStops, IInv
<1>. QED  BY <1>1, <1>2, OnlyOne, GensNat, RestartStep DEF Prepared, At

\* Between the stop and the insertion no child is in the map.
LEMMA RelaunchSteady ==
  ASSUME IInv, Steady, NEW r \in Restarters,
         Listen(r) \/ ListenFails(r) \/ NotThere(r) \/ LaunchFails(r)
  PROVE  Steady'
<1>1. /\ rs'[r].pc \in {"launch", "failed", "save"} /\ rs'[r].gen = 0
      /\ \A q \in Restarters \ {r} : rs'[q] = rs[q] /\ rs[r].pc \in {"clear", "launch"}
      /\ rs[r].pc \in {"clear", "launch"}
  BY RsTyped DEF Listen, ListenFails, NotThere, LaunchFails, Relisten, Goto, At, Restarts
<1>2. UNCHANGED <<tunnels, config, child, trouble>> /\ InOrder'
  BY KeepsOrder DEF Listen, ListenFails, NotThere, LaunchFails, Relisten
<1>3. rs'[r].pc = "launch" => runtime'.state = "listening" /\ config.there
  BY RsTyped DEF Listen, ListenFails, NotThere, LaunchFails, Relisten, Goto, Entry, At, Restarts
<1>4. trouble' = "none" => trouble = "none" /\ Active \subseteq {r} /\ tunnels' = 0
  BY <1>1, <1>2, OnlyOne DEF Prepared
<1>. QED  BY <1>1, <1>2, <1>3, <1>4, GensNat, RestartStep DEF Prepared, At

LEMMA LaunchSteady ==
  ASSUME IInv, Steady, NEW r \in Restarters, Launch(r)
  PROVE  Steady'
<1>1. PICK g \in Gens :
        /\ child[g] = "none" /\ \A h \in Gens : h < g => child[h] # "none"
        /\ child' = [child EXCEPT ![g] = "run"]
        /\ reader' = [reader EXCEPT ![g] = "read"]
        /\ rs' = [rs EXCEPT ![r] = Task("insert", @.prev, @.undo, g)]
  BY DEF Launch
<1>2. /\ rs'[r].pc = "insert" /\ rs'[r].gen = g /\ \A q \in Restarters \ {r} : rs'[q] = rs[q]
      /\ rs[r].pc = "launch"
  BY <1>1, RsTyped DEF Launch, Task, At
<1>3. UNCHANGED <<tunnels, config, runtime, trouble>>
  BY DEF Launch
<1>4. trouble' = "none" => trouble = "none" /\ Active \subseteq {r} /\ tunnels' = 0 /\ Prepared(r)
  BY <1>2, <1>3, OnlyOne DEF Prepared
<1>5. child'[g] = "run" /\ reader'[g] = "read" /\ \A h \in Gens \ {g} : child'[h] = child[h]
  BY <1>1 DEF IInv, Typed
<1>6. InOrder'
  BY <1>1, <1>5, GensNat DEF Steady, InOrder
<1>7. Newest(g)'
  BY <1>1, <1>5, GensNat DEF Newest, Steady, InOrder
<1>8. ASSUME trouble' = "none" PROVE Told(g)' /\ runtime'.state = "listening"
  BY <1>2, <1>3, <1>4, <1>5, <1>8 DEF Told, Prepared, At
<1>. QED  BY <1>2, <1>3, <1>4, <1>6, <1>7, <1>8, GensNat, RestartStep DEF Prepared, At

LEMMA InsertSteady ==
  ASSUME IInv, Steady, NEW r \in Restarters, Insert(r)
  PROVE  Steady'
<1>1. /\ rs'[r].pc = "save" /\ rs'[r].gen = 0 /\ \A q \in Restarters \ {r} : rs'[q] = rs[q]
      /\ rs[r].pc = "insert" /\ tunnels' = rs[r].gen
  BY RsTyped DEF Insert, Task, At
<1>2. UNCHANGED <<config, runtime, reader, trouble>> /\ child' = Killed({tunnels})
  BY DEF Insert
<1>3. trouble' = "none" => trouble = "none" /\ Active \subseteq {r} /\ tunnels = 0
  BY <1>1, <1>2, OnlyOne DEF Prepared
<1>4. InOrder' /\ \A g \in Gens : child'[g] = "none" <=> child[g] = "none"
  BY <1>2, KilledBorn DEF IInv
<1>5. ASSUME trouble' = "none", NEW g \in Gens, tunnels' = g
      PROVE  Newest(g)' /\ runtime'.state = "listening" /\ Told(g)'
  <2>1. Current(g) /\ Calm /\ ~Replacing
    BY <1>1, <1>3, <1>5 DEF Current, Steady, Replacing, Active, At
  <2>2. Newest(g) /\ Told(g) /\ runtime.state = "listening"
    BY <2>1 DEF Calm, TheNewest, ItsWord
  <2>3. child'[g] = child[g]
    BY <1>2, <1>3, <1>5, GensNat DEF Killed
  <2>. QED  BY <1>2, <1>4, <2>2, <2>3 DEF Newest, Told
<1>. QED  BY <1>1, <1>2, <1>3, <1>4, <1>5, GensNat, RestartStep DEF Prepared, At

LEMMA EndSteady ==
  ASSUME IInv, Steady, NEW r \in Restarters, SaveOk(r) \/ GiveUp(r)
  PROVE  Steady'
<1>1. /\ rs'[r].pc = "done" /\ rs'[r].gen = 0 /\ \A q \in Restarters \ {r} : rs'[q] = rs[q]
      /\ rs[r].pc \in {"save", "failed"}
  BY RsTyped DEF SaveOk, GiveUp, Done, Task, At
<1>2. UNCHANGED <<config, runtime, tunnels, child, reader, trouble>>
  BY DEF SaveOk, GiveUp, tasks
<1>3. trouble' = "none" => trouble = "none" /\ Active \subseteq {r}
  BY <1>1, <1>2, OnlyOne
<1>4. ASSUME trouble' = "none", NEW g \in Gens, tunnels' = g
      PROVE  Newest(g)' /\ runtime'.state = "listening" /\ Told(g)'
  <2>1. Current(g) /\ Calm /\ ~Replacing
    BY <1>1, <1>2, <1>3, <1>4 DEF Current, Steady, Replacing, Active, At
  <2>2. Newest(g) /\ Told(g) /\ runtime.state = "listening"
    BY <2>1 DEF Calm, TheNewest, ItsWord
  <2>. QED  BY <1>2, <2>2 DEF Newest, Told
<1>. QED  BY <1>1, <1>2, <1>3, <1>4, GensNat, RestartStep, KeepsOrder DEF Prepared, At

LEMMA NextSteady == IInv /\ Steady /\ [Next]_vars => Steady'
<1>. SUFFICES ASSUME IInv, Steady, [Next]_vars PROVE Steady'
  OBVIOUS
<1>1. CASE \E r \in Restarters : \/ Clone(r) \/ Install(r) \/ Stop(r)
                                 \/ Listen(r) \/ ListenFails(r) \/ NotThere(r) \/ Launch(r)
                                 \/ LaunchFails(r) \/ Insert(r) \/ SaveOk(r) \/ SpawnStops(r)
                                 \/ Undo(r) \/ GiveUp(r)
  BY <1>1, CloneSteady, ReplacingSteady, StopSteady, RelaunchSteady, LaunchSteady, InsertSteady,
     EndSteady
<1>2. CASE \E r \in Restarters : HangUp(r)
  <2>1. trouble' # "none" /\ InOrder'
    BY <1>2, KilledBorn DEF HangUp, IInv
  <2>. QED  BY <2>1 DEF Steady
<1>3. CASE \E g \in Gens : Announce(g) \/ Exit(g) \/ Die(g) \/ TakeHost(g) \/ Mark(g) \/ Eof(g) \/ Timeout(g)
  BY <1>3, ChildSteady, ReaderSteady
<1>4. CASE ProbeChild \/ ProbeMark
  BY <1>4, ProbeSteady
<1>5. CASE UNCHANGED vars
  BY <1>5, TaskStep DEF vars, tasks, Told
<1>. QED  BY <1>1, <1>2, <1>3, <1>4, <1>5 DEF Next

\* When nothing is under way and the child in the map runs with its host name read, the
\* health endpoint says so and the subscription leads to it, after any number of restarts,
\* failures and rollbacks, one at a time (web/mod.rs start_cloudflared, commit_config).
THEOREM SettledIsTrueHolds == Spec => []SettledIsTrue
<1>1. ASSUME IInv, Steady PROVE SettledIsTrue
  <2>. SUFFICES ASSUME trouble = "none", Active = {}, tunnels # 0, child[tunnels] = "run",
                       reader[tunnels] = "drain"
                PROVE  PublicState = "listening" /\ SubscriptionUri(config).host = tunnels
    BY DEF SettledIsTrue
  <2>1. tunnels \in Gens /\ Current(tunnels) /\ Calm
    BY <1>1 DEF IInv, Typed, Current, Steady
  <2>2. Told(tunnels) /\ runtime.state = "listening"
    BY <2>1 DEF Calm, TheNewest, ItsWord, Replacing, Active, At
  <2>3. runtime.tunnel = "ready" /\ config.server = tunnels
    BY <2>2 DEF Told
  <2>. QED  BY <2>2, <2>3 DEF PublicState, SubscriptionUri
<1>. QED  BY <1>1, Inductive, InitSteady, NextSteady, PTL DEF Spec
=============================================================================
