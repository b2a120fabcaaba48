# Formal models of VeloxVPN

VeloxVPN is one Rust program: a proxy server with VLESS, AnyTLS and TUIC inbounds and
an admin interface that adds, changes and removes inbounds while they serve. This
directory holds TLA+ models of the parts of it in which tasks, locks, crashes, time and
other programs interact, configurations that check them with TLC on small instances, and
proofs that TLAPS checks for every value of the parameters.

Line numbers below are those of the crate's `src/` directory. The modules name the
functions they translate; `PROJECT.json` maps every definition to its lines.

- [Inventory](#inventory)
- [Modules](#modules)
- [What the runs check](#what-the-runs-check)
- [What the runs refute](#what-the-runs-refute)
- [Fairness](#fairness)
- [What is proved](#what-is-proved)
- [Abstractions](#abstractions)
- [Not modelled](#not-modelled)
- [Plan](#plan)

To run: `tlc -config NodeCommit_serial.cfg MCNodeCommit`, `tlapm NodeCommit_proofs.tla`,
and likewise for the others; `PROJECT.json` lists the module of each configuration.

## Inventory

| component | state | operations | interacts with |
|---|---|---|---|
| Node configuration (`config.rs`) | the list of inbounds, each with a fixed or an automatically assigned port; subscription; account | `validate`, `assign_missing_ports`, `reassign_auto_port`, `inbound_index`, `save`, `load_or_create` | the file; the OS, which says which ports can be bound |
| Admin writers (`web/mod.rs`) | `AppState`: `config`, `handles`, `tunnels`, `runtime`, `addrs`, `events`, each behind its own lock | `add_node`, `update_node`, `delete_node` through `commit_config`, `preflight_inbounds`, `restart_inbounds` = `stop_all` + `spawn_all`; `regenerate_subscription`, `update_account` | the file, the inbounds' tasks, other programs' sockets, cloudflared's reader tasks |
| Login and sessions (`web/mod.rs`) | `login_attempts`, `sessions`, the password's hash | `login`, `require_admin`, `update_account` | the writers above, through the configuration |
| Rate limiter (`web/mod.rs`) | a queue of instants | `allow` | `login` and the subscription page, each with its own |
| Program (`main.rs`) | four files: configuration, one-time password, certificate, key | `load_or_create`, `load_identity`, `spawn_all`, serve, graceful shutdown | all of the above; the supervisor that starts it again |
| TUIC server (`proxy/tuic.rs`) | per connection: the `authenticated` flag, a `Notify`, UDP sessions, fragments | three accept loops: streams, unidirectional streams, datagrams | the client's streams and datagrams in any order; UDP sockets |
| AnyTLS server (`proxy/anytls.rs`) | per session: `got_settings`, the streams' queues | the frame loop and one task per stream | the client's frames; upstream connections |
| VLESS server and its dialler (`proxy/vless.rs`) | per connection: its position, and over WebSocket two pumps with an in-memory pipe | header, dial, confirmation, relay, each under a time limit; `dial_tcp`, `dial_ws` | upstream connections |
| Quick tunnels (`web/mod.rs`) | a `cloudflared` child per tunnelled inbound | start, a reader of its error output, a readiness timeout, status probes, kill | the configuration (host name), `runtime`, the subscription |
| TUIC client (`proxy/tuic.rs`) | `next_assoc`, a channel per UDP session | `connect`, `open_tcp`, `open_udp`, `send_to`, `recv`, one datagram reader | the TUIC server |
| TLS identity (`tls.rs`, `util.rs`) | certificate and key files | `generate_self_signed`, `load_identity` | the program's start |
| Addresses, URIs, UI | - | pure functions | - |

What is hard in it:

- *Nothing serializes node changes.* `commit_config` holds no lock across its awaits: it
  clones the configuration, validates the clone, probes it, installs it, stops and starts
  every listener and saves, while other handlers do the same. It must make a change
  wholly or not at all, although saves fail, other programs take ports, sockets outlive
  their tasks, the client hangs up (which drops the handler's future) and the program
  may die between any two steps.
- *Three loops share one wake-up.* A TUIC client may send commands before its
  authentication, on any of three channels; the loops wait for the flag with a `Notify`
  that wakes one of them.
- *UDP sessions and fragments* are reached from two loops at once, and fragments come
  in any order.
- *Bounded queues without backpressure.* An AnyTLS stream whose queue is full is closed
  rather than waited for, and ends travel past the queue rather than through it.
- *A chain of pipes.* A proxied connection crosses up to four of them in each direction,
  with a task between each two; ends, errors and losses must travel through all of them,
  in order, and no task may be left behind.
- *Tasks without a generation.* What a `cloudflared` child's reader and timeout write is
  keyed by the inbound's name, so that those of an earlier child write to a later one.
- *A start that can be cut off.* Four files are written one after the other, two of them
  in place, and the next start has to make sense of any of them.
- *Time.* A sliding-window limiter, session lifetimes, waits with time limits.

What makes each correct is what the modules state; the hazards, one by one at the lines
where they bite, are listed in `PROJECT.json` with the properties that cover them, or the
reason why none does.

## Modules

**`Inbounds`** is the pure part of `config.rs`: an inbound's record, `EffectivePort`,
`Valid` (`validate`), the sets of results that `assign_missing_ports` (`Assignments`)
and `reassign_auto_port` (`Reassignments`) may produce, and the merge of moved ports.
It has no state.

**`NodeCommit`** (with `MCNodeCommit` for TLC) is the core: `AppState`'s `config`,
`handles`, `runtime`, the file (`disk`) and the OS's view of each socket (`owner`).
An action is what a task does under one lock, or between two awaits when it touches no
shared state. A request arrives, goes through its handler
(`AddCheck`, `AddClone`, `UpdateClone`, `DeleteClone`), then `commit_config`
(`ReadPrevious`, the preflight loop `PreflightPass` / `PreflightFail` / `ProbeStart` /
`ProbeStop`, `Install`, a restart, `Save`, or `Undo` and a second restart). The restart
(`Stop`, `Clear`, `SpawnClone`, then `Begin`, `Bind` / `BindRetry` / `BindFail`,
`Register`, `Listening` for each inbound, `SpawnEnd`, `MergeMovedPorts`) is shared by
the boot, the commit and the rollback, as `spawn_all` is in the code; `fin` says who
called. `Regenerate` and `UpdateAccount` are single actions because they keep the write
lock throughout. `TunnelHost` is the reader of cloudflared's output, which also writes the
configuration. `Boot`, `Shutdown`, `Exit`, `Crash` are the program's life; `HangUp`,
`ForeignGrab`, `ForeignFree` and `Drain` are the client, other programs and the OS.
`promised` is a history variable: the configuration last acknowledged to a client.

**`AdminApi`** says what all this is for, in five actions: a request is asked, and then
committed as a whole, refused, or lost with the process. **`AdminRefinement`** gives the
mapping under which `NodeCommit`, with one request at a time, implements it: `committed`
is the file; `current` is the configuration in memory whenever no request is in hand and
exactly its inbounds are served, and nothing otherwise. A restart, a rollback or a crash is
then a stutter, and the step that commits is the one that answers.

**`RateLimiter`** is `RateLimiter::allow`: a queue of instants, a clock, and two history
variables. **`AdminLogin`** (with `MCAdminLogin`) extends it with the handlers of the sessions (`login` in its three
locked parts, `update_account` in its three, clients that hang up at any of those locks,
the clock). `arrived` is a history variable: when each login came.

**`TuicAuth`** is one TUIC connection up to and after its authentication: three inboxes,
the flag, the `Notify`'s permit, and each loop's position and time left to wait. A stream
the client has not finished holds the unidirectional loop in `read_exact` for as long as the
client likes (`AcceptPartial`, `Rest`, `ReadFails`).

**`TuicUdp`** (with `MCTuicUdp`) is the UDP relay behind two of those loops:
`ensure_session` in its two locked parts with the bind between them, the `FragmentMap`,
and `Send`. `readers` records each reader task with its association; as in the code,
nothing ever takes one away.

**`TuicReplies`** is the way back: the sessions of a `TuicClient` (`Open` and `OpenInsert`,
`SendTo`, `Recv`, `DropSession`), its one datagram reader (`Dispatch`), and the server's
reader of each association, which sends an answer as a datagram (`ReadSmall`) or, if it is too large, on a
stream (`ReadLarge`, `SendUni`). What the server does with a packet before it is sent on is
`TuicUdp`'s subject, and `Relay` is one step here.

**`AnyTlsSession`** is a session of the AnyTLS server: the frame loop (`Settings`, `Syn`,
`Psh`, `Fin`, `Disconnect`) and the task of each stream (`ReadTarget`, `Dial`, `Write`,
`End`, `Shutdown`, `Join`, and its second half `UpTaskEnds`). A task is numbered by its
SYN, so that an id used again is another task.

**`Relay`** is one proxied TCP connection from the program that dials to the upstream, for
VLESS over TCP, VLESS over WebSocket, TUIC's CONNECT and an AnyTLS stream. `Routes` lists
the pipes of each protocol in each direction; `Move`, `MoveFails` and `PassEnd` are what every
copying task does (`tokio::io::copy`, the pumps of `axum_ws_to_duplex` and `dial_ws`, the
client's tasks of AnyTLS's `dial`), `Overflow` is the AnyTLS frame loop that does not wait. The handler is
`ReadHeader`, `Connected` / `Refused`, `Confirm`, `RelayEnds` and the limits
`HeaderTimeout`, `ConnectTimeout`, `Cut`; the dialling side is `Hello`, `DialOk`, `DialFails`.
A client ends in three ways: its program ends or drops its connection (`AppDrop`), which the server
is told, or its machine or network is lost (`Vanish`), and then nothing comes any more, neither FIN
nor RST. `Noticed` is the server's transport finding that out; it must do so only if it misses something
(`Missed`): QUIC gives a silent connection up, TCP only one that does not acknowledge what it is sent.

**`Tunnel`** is the quick tunnel of one inbound: restarts (`Clone`, `Install`, `Stop`,
`Listen`, `Launch`, `Insert`, `SaveOk`, `SpawnStops` (the `stop_all` of a `spawn_all`
that cannot keep the ports it has drawn), `Undo`, `GiveUp`, `HangUp`), the children with their output, reader
(`TakeHost`, `Mark`, `Eof`) and readiness timeout (`Timeout`), the status probe in its two
locked parts, and what `public_node_state` and the subscription make of it. It abstracts
`NodeCommit`'s restart to what concerns a tunnel.

**`Bootstrap`** is the start of the program: `load_or_create` up to the first file it
writes (`Start`), each write (`WriteSecret`, `WriteCert`, `WriteKey`, `Save`), the check of the ports with its
retries, `load_identity`, the first `spawn_all` (`SpawnFixed`, `SpawnAuto`, `SpawnRedraws`,
`SpawnAutoFails`, and `SpawnKeepsPort`, `SpawnSaves` or `SpawnStops` at its end), crashes between any two
of them or in the middle of a write that is not atomic, and the supervisor. Between the check of the
ports and the bind nobody holds them, and other programs may take them (`Grab`).

**`*_proofs`** hold the theorems of the module they are named after; `NodeCommit_proofs` also
proves that its steps implement those of `AdminApi`, and `TuicUdp_proofs` the safety of
`TuicReplies`.

Definitions preceded by a comment `Mutant:` are not part of a specification. Each is a
plausible bug in the code (a dropped guard, a missing reset, a swapped order); put in the
place of the definition that follows it, it violates one property of a run.

## What the runs check

| run | distinct states | shows |
|---|---|---|
| `NodeCommit_serial` | 128,618 | One request at a time, every handler, saves that fail, a contested port, two crashes or shutdowns at any step. `ImplementsApi`: it implements `AdminApi`. Therefore the file can always be loaded, memory and file agree between requests, a refused or lost change leaves no trace, and every request is answered. `QuiescentServes`: between requests exactly the inbounds in memory are served, after a start as well (of which `AdminApi` does not promise that it succeeds). |
| `NodeCommit_hostile` | 1.15 million | One request, every TCP port contested, sockets that linger, saves that fail before or after the file is replaced, a tunnel whose host name comes at any time. `NoOrphans`: no listener runs without a handle. `StatusTruthful`: the status page agrees with the listeners. `AckedIsServed`: a change is acknowledged only when it is served and on disk. |
| `NodeCommit_overlap` | 742,834 | Two node changes at a time, clients that hang up at any await, a crash or shutdown. What stays true when restarts overlap: `TypeOK`, `HandlesLive` (`stop_all` never aborts a listener of another inbound, and keeps no dead handle), `StoredChecked` (no duplicate names and no refused contents, in memory or on disk). |
| `AdminLogin` | 1.06 million (up to symmetry) | Three logins and two account changes, any of which may be dropped half-way. `Throttled` and `RefusedForCause`: the limiter is exact at the boundary of its window in both directions. `ChangedOnce`: of concurrent changes with one current password, one sets a new password. `SignedOut`: no session that existed at an acknowledged change survives it. `GuessesLimited`: in no window do more than `Limit` logins arrive that get as far as a password, whichever tasks interleave with them. |
| `TuicAuth` | 240,162 | Every command to every loop, and streams that are never finished. `RelayedAuthenticated`, `LoopsAlive` (no loop of an open connection has returned), `OneForgotten` (at most one loop still waits when time passes after the authentication), `WaitsEnd`. |
| `TuicUdp` | 2.27 million | Packets of three, two and one fragments, every order, both loops, lost fragments, dissociations. `SentWhole`, `SentOnce`, `SocketsAccounted` (the race of the two loops costs no second socket). |
| `AnyTlsSession` | 73,332 | Seven frames on two ids. `NoGap`: an upstream sees a prefix of what was sent on its stream. `EndAfterData`: its end comes after all that was accepted. `SessionEnds`: after the session no task waits for anything but its upstream. |
| `TuicReplies` | 584,713 | Three sessions on two association ids, opened at the same time, dropped and numbered again, replies lost and late. `OwnReplies`: a session receives the answers to its own packets. `NoneHeldUp`: a full or closed session does not hold up the others' replies. Nor does a server's reader stop, unless the client's streams are used up. |
| `Relay` | 95,298 | A connection of each of four protocols, half closes, full pipes, clients that are closed or lost without a word, upstreams that refuse, hang or reset. `CleanEndIsWhole`: a stream that ends cleanly is complete. `DialMeansConnected`. `VlessEnds`: the handler of a VLESS connection always ends, its dial having been answered. `HalfCloseAnswered`: after a half close the whole response arrives. `GoneIsNoticed`: without limits, a handler whose client is gone waits for nothing but its upstream; so it does if the client was lost in silence, where the transport can tell. `DeadStreamAnswered`: a client that sends into a dead AnyTLS stream is told. |
| `Tunnel` | 3.76 million (up to symmetry) | The start and two restarts that overlap, fail and roll back, two children. `ChildOwned`: no process is lost. `ReadyIsWatched`, `StartingIsWatched`: neither status is left without a task that will end it. `SettledIsTrue`: what health and subscription show in the end is true. |
| `Bootstrap` | 117,495 | Every kind of installation, two crashes anywhere, two ports taken at any moment until they are bound. `KnownPassword`: nobody is locked out. `IdentityMatches`: certificate and key belong together. `RunsAsSaved`: memory is what the next start loads, and no listener is on another port. `Kept`: path, token, password and identity are never drawn twice, and a saved port moves only after a bind has failed, to one with which every inbound already listens. `ComesUp`: the program does, with its web interface; inbounds whose ports are taken may have failed. |

The bounds, and why they are enough:

- `NodeCommit`: two names, three ports, one inbound to begin with. Two names give the add,
  the duplicate, the unknown name, and a list that shrinks to none; three ports give one in use, one
  that is asked for or drawn, and one to retry with. `Retries` is 1 (`PORT_BIND_RETRIES` is 16): the
  loop's body, its limit and its exhaustion all occur. `MaxInFlight` is 1 where the question is
  whether one change is atomic, 2 where it is what overlapping ones can do to each other.
  `MaxStops` 2 lets a crash hit the start that follows a crash. `OverlapOps` leaves out the
  handlers that are single actions; `AllOps` has every handler and every refusal.
- `AdminLogin`: a limit of 2 with a window of 2 ticks and three calls reaches the refusal,
  the expiry at exactly a window's age and the burst across two windows.
- `TuicAuth`: two commands per loop and a wait of three ticks; a loop can wait, be woken or
  time out, and then meet a second command.
- `TuicUdp`: three fragments is the least number with an order to confuse; two packets of
  one association interleave, and the third needs another socket.
- `AnyTlsSession`: a queue of 2 (64 in the code) fills up with the address and two chunks;
  seven frames allow for settings, two tasks on one id, and a refused chunk.
- `TuicReplies`: three sessions on two ids make the counter go round once; one place in a
  channel makes it full with one reply; two streams are used up by three large replies.
- `Relay`: pipes of one chunk and one chunk in each direction (besides the header and the
  confirmation) make every pipe full, empty, or ended with data in it; the properties
  relate what is sent to what arrives, chunk by chunk, so that more chunks repeat the same cases.
- `Tunnel`: a second child is what a first one's tasks can be late for; with two requests besides the start, two
  restarts overlap and one of them can roll back into the other.
- `Bootstrap`: six names are never all in use; two crashes let one hit the start that follows one;
  three ports leave one to draw again when the first is taken.

## What the runs refute

One run is expected to find a violation, of a sentence of the repository's documentation:

- `NodeCommit_revoked` / `RevokedStaysRevoked`. "The admin can regenerate the subscription URL at
  any time (old one becomes invalid)" (`README.md:179`). A node change cloned the
  configuration before the regeneration and installs its clone after it.

The other runs say what holds. What their environments or properties leave out, because it does
not hold in this code, is this:

*Node changes.* When two restarts overlap, both may bind a listener for the same automatic
inbound, and the second `handles.insert` drops the first handle without aborting its task
(`web/mod.rs:132`): `NoOrphans` is checked with one request at a time. When a port moves during the
restart, `spawn_all` has already saved the candidate; if the final save then fails, memory is rolled
back and the file is not (`web/mod.rs:186`). A TUIC socket stays bound while a client's
connection lives although its task has been joined; an inbound that moves to a fixed port and back
may then find neither port free, and the rollback's result is ignored (`web/mod.rs:688`).
In `NodeCommit_serial` other programs are therefore polite (they leave alone the ports of the
acknowledged configuration while these are free for a moment) and contest
a port that requests ask for by number. Overlapping changes and a contested port can leave
two inbounds with one socket on disk, which `load_or_create` refuses. A client that hangs up
during a commit leaves the candidate installed, not saved, and possibly no listeners.

*Tunnels.* A reader, a timeout or a probe of an earlier child writes to the entry of a
later one (`web/mod.rs:292`, `302`, `809`): a live tunnel may be shown as failed or stopped until
the next restart, and a rollback brings back the host name of a tunnel that is gone until
cloudflared prints the next. `SettledIsTrue` excludes these runs by `trouble`.

*The start.* Ports are not "fixed after first startup" (`README.md:41`, `61`, `206`; "keep it fixed
afterwards", `166`; also `15`). `load_or_create` keeps to that: it fails rather than move a saved port. But the
`spawn_all` that follows, at the start and in every restart, draws *any* automatic port again whose bind fails
(`web/mod.rs:113`) and saves it if all inbounds have started (`176`), so that a port that is taken between the
check and the bind is lost to the clients that know it. `Kept` allows exactly that.
A key file cut off in the middle counts as a key (`config.rs:313`), and the
program does not start until it is removed; `ComesUp` says so. A certificate that is deleted
alone is replaced together with its key; such an installation is not among the initial ones, since a crash
between the two writes would leave the new certificate with the old key.

*Logins.* A login verified against the old password may insert its session after an account change has
cleared them (`web/mod.rs:458`).

*Relays.* `RELAY_IDLE_LIMIT` bounds a VLESS relay's whole life, so that a busy connection is cut
after five minutes too (`vless.rs:146`). A WebSocket cannot be half closed: who closes second may lose what it
sent, and `CleanEndIsWhole` and `HalfCloseAnswered` leave that case out. A failed dial of an AnyTLS stream
ends without a FIN, and this repository's dialler ignores the SYNACK (`anytls.rs:220`): a client that
has nothing to send waits for ever. The server of AnyTLS sets no keepalive on its TCP connection
and no time limit on the next frame (`anytls.rs:89`, `135`): a client that is lost without a FIN or
RST is not missed as long as nothing is sent to it, and its session, its tasks and its idle upstreams stay
for ever. `GoneIsNoticed` is about the losses that the transport can tell (`Noticeable`). The pumps of a
WebSocket may likewise wait for a lost client after the VLESS handler has ended (`vless.rs:203`); `VlessEnds` is
about the handler.

*TUIC.* `notify_one` wakes one of two waiting loops, and a loop whose wait times out does
not look at the flag again: an authenticated connection may be closed with "authentication
timeout" (`tuic.rs:352`). The unidirectional loop waits for an authentication that only it can
read when a packet stream comes before it (`tuic.rs:297`), and an unfinished stream stops it
altogether (`tuic.rs:272`). `TuicClient` accepts no streams, so that the replies too large for a datagram use up
the streams it allows and then stop the server's readers (`tuic.rs:489`); neither side
ever closes a UDP session's socket.

## Fairness

Only liveness properties use it, and the refinement of `AdminApi`, whose promise that every request is
answered or lost is one of them.

- `NodeCommit`: weak fairness of each handler, of each task in a restart, of the return of
  the boot, and of the exit. Tokio polls every ready task; the awaits of a handler are on locks whose holders
  are themselves such tasks, on joins with a time limit, and on files. Nothing is assumed of clients, crashes,
  other programs or cloudflared.
- `TuicAuth`: weak fairness of each loop on what has arrived, and of the clock, so that time
  limits expire. A tick passes only when no loop is ready.
- `AnyTlsSession`: weak fairness of each task's steps except `Write`. A dial ends, since
  the OS gives up; upstreams may stop taking data and need never end, and so `SessionEnds` allows a
  task to wait for them. Of the client one thing is assumed: that a frame sent to it, over the writer which
  all streams share, is taken in the end or fails. A client that stays connected and stops reading holds up
  whoever sends to it, and the model does not show that.
- `TuicReplies`: weak fairness of the client's datagram reader and of each server reader that has a
  reply in hand. Sessions need not receive, and upstreams need not answer.
- `Relay`: weak fairness of the tasks, the handler, the clock and a client that reads what it is sent. One
  condition covers them all: every step uses up a chunk, an end or a tick, so that none can
  postpone another for ever. A client that is lost in silence is noticed only when it is missed (`Missed`).
  Nothing is assumed of the upstream, nor that a dial is answered.
- `Bootstrap`: the program runs, `spawn_all` included, the supervisor starts it again (`Restart=on-failure` in
  `deploy/veloxvpn-test.service`), and other programs give ports back in the end.

## What is proved

For every value of the constants that the named assumptions allow:

| theorem | module | argument |
|---|---|---|
| `TypeCorrect`, `HandlesLiveHolds`, `StoredCheckedHolds` | `NodeCommit_proofs` | one inductive invariant, below |
| `NoOrphansHolds`, `StatusTruthfulHolds`, `AckedIsServedHolds` | `NodeCommit_proofs` | with one request at a time and clients that wait (`Serial`): a second invariant, below |
| `QuiescentServesHolds`, `ImplementsApiSteps` | `NodeCommit_proofs` | where the world is as `Orderly` says: a third invariant, and `AdminApi` step by step, below |
| `CleanEndIsWholeHolds` | `Relay_proofs` | `Undisturbed`, below |
| `DialMeansConnectedHolds` | `Relay_proofs` | `Silent`: until the upstream is connected no pipe towards the client holds anything |
| `NoGapHolds`, `EndAfterDataHolds` | `AnyTlsSession_proofs` | what a task has written, what it holds and what is queued for it are together all the chunks its stream has accepted, in order; a stream that has refused a chunk, or has ended, accepts none after it |
| `SentWholeHolds`, `SentOnceHolds` | `TuicUdp_proofs` | a fragment that has not been sent is in one place: to come, in a loop's hands, or listed (`OnePlace`); a list that is kept holds some, not all, of one packet's fragments, no two alike (`ListsPartial`), so that a full one holds each; `SortById` then gives the whole |
| `SocketsAccountedHolds` | `TuicUdp_proofs` | every reader was paid for by a session that is there or by a dissociation, whichever loop loses the race |
| `RelayedAuthenticatedHolds`, `LoopsAliveHolds` | `TuicAuth_proofs` | `WakeUpsTrue`: a permit, or a loop that has been woken, exists only after the flag was set |
| `OneForgottenHolds` | `TuicAuth_proofs` | `WakeUpKept`: two loops may have read the flag before it was set; the one wake-up takes one of them out, or is kept in the permit while none of them waits |
| `ChildOwnedHolds`, `ReadyIsWatchedHolds`, `StartingIsWatchedHolds` | `Tunnel_proofs` | a restart holds a child exactly from its spawn to its insertion; whoever writes "ready" reads on; a generation that is not started has no reader |
| `SettledIsTrueHolds` | `Tunnel_proofs` | `Steady`, below |
| `OwnRepliesHolds` | `TuicUdp_proofs` | the ids drawn are 1, 2, ... until the counter has gone round (`Drawn`), a channel is filed under its session's id (`Filed`), and what a session has received is for that id (`Answered`). The theorem is about `Replies`, an instance of `TuicReplies` with variables of its own, and its hypothesis is that module's assumptions |
| `KnownPasswordHolds`, `IdentityMatchesHolds`, `RunsAsSavedHolds` | `Bootstrap_proofs` | the hash in memory is in the password file from its write on; the key on disk is the certificate's until the next certificate is written, and then the program is about to write the key; what is in memory and need not be saved is what is on disk, and what `spawn_all` has bound is the fixed port or the one in its copy (`ListeningKnown`) |
| `KeptHolds` | `Bootstrap_proofs` | an action property: between reading the file and replacing it a start holds what it read (`DiskKept`); `spawn_all` saves another port only when both are bound |
| `ThrottledHolds`, `RefusedForCauseHolds` | `AdminLogin_proofs` | the queue holds the last grants in order, and every grant that has left it is a window old |
| `GuessesLimitedHolds` | `AdminLogin_proofs` | each login that was let in has a granted call of its own, made when it came (`LetIn`); the granted calls of one window are consecutive, and any `Limit` + 1 consecutive ones span a window |
| `ChangedOnceHolds`, `SignedOutHolds` | `AdminLogin_proofs` | a change of the password was given one that is no longer current; a session, valid or remembered by a change, belongs to a login that has been answered, so that a cleared session is never issued again |

`NodeCommit`'s invariant is
`TypeOK /\ HandlesLive /\ StoredChecked /\ CopiesChecked /\ OpMatches /\ PendingOwned`.
`StoredChecked` is not inductive: what is installed, merged or rolled back is a copy made
under an earlier lock, so `CopiesChecked` says the same of every copy a task holds (`next`,
`prev`, `work`). `OpMatches` ties a handler's position to its operation.
`HandlesLive` is not inductive either: `Register` files a socket that was bound earlier, so
`PendingOwned` says that a socket between its bind and its registration is owned by the
task at that point, and by no other. Shared frame lemmas (`HandlesFrame`, `PendingFrame`,
`ReplyStep` and the like) carry the conjuncts an action does not touch. Crashes, hang-ups and
any number of overlapping requests are covered by the proof; the run shows it for two.

What a change guarantees as a whole is proved under the hypothesis
`Serial == MaxInFlight = 1 /\ Impatient = {}`, which is part of the theorems' statements and not an
assumption of the module: when two restarts overlap, `handles.insert` really drops a handle without
ending its task, and a client that hangs up really leaves a candidate installed. Saves that fail or come
late, contested ports, lingering sockets, crashes and shutdowns are all allowed. The invariant adds to the
one above: `Alone` (at most one task is active, and which one the program's phase says), `NoneDown` (a program that does not run
has no handles), `Unanswered`, `NoOrphans` itself, `Statuses` (outside a restart's first step each name's status
agrees with its handle, but for the inbound that is being started) and `Knows`, what the active task
knows at its position: how the list it works on, the one in memory and the handles go together, which is what `AckedIsServed`
needs when the answer is given.

That a change is one step needs more of the world than that, and `QuiescentServesHolds` and
`ImplementsApiSteps` are proved under `Orderly`, again a hypothesis that is part of their statements. It has
`Serial` and six conditions, each of which excludes something that really breaks the promise:

| condition | without it |
|---|---|
| `Polite` | another program takes a port between the stop and the rollback, and the previous listener does not come back |
| `Linger = {}` | a socket of a task that has ended is still bound, and the restart fails on it |
| no `"late"` save | the file has been replaced, the client is told that the save failed, and the next start uses the refused change |
| `TunnelTags = {}` | cloudflared's reader writes the host name to the file between requests, which no request has asked for |
| `InitConfig` has no `DeafTags` | the program starts, and serves, without an inbound that cannot be started |
| no other program on ports that may be drawn | a port that is taken after the preflight is replaced, and `MergeMovedPorts` saves the candidate before its request has been answered |

Saves that fail, starts that fail, preflights and validations that refuse, ports that are taken by others or that two
inbounds want, crashes and shutdowns at any step are all allowed, for any number of requests, inbounds and names. The run
`NodeCommit_serial`, in which both are checked too, satisfies `Orderly`.

The invariant adds `OInv` to the two above: `Committed` (what is on disk has been acknowledged, is valid, and holds nothing that
cannot be started), `Holders` (who may hold a socket: no other program one of the file's), for each task `Orders`, what
it has in its locals at its position, and `AtRest`, which is `QuiescentServes` and that memory and disk agree. Of `Orders` the
parts that matter are `Fits` (the candidate is what the request may make of the file), `config = IF Trial(p) THEN
next[p] ELSE disk` (memory differs from the file exactly while a candidate is on trial) and `Unhindered`: a restart of what is
on disk fails nowhere. That a rollback succeeds rests on the last one, and that in turn on `Holders`.

For the refinement `committed` is the file and `current` the configuration in memory, if no request is in hand and exactly its
inbounds are served. Each action is then one of `AdminApi`'s or a stutter: `Arrive` is `Ask`; a successful `Save`,
`Regenerate` or `UpdateAccount` is `Commit`; every other answer, that of `ReturnUndo` after a rollback included, is `Refuse`; `ReturnBoot`
is `Recover`; `Shutdown`, `Exit` and `Crash` are `Stop`, where there is something left to stop; the rest is between
`Ask` and the answer and changes nothing that can be seen (`GoesOn`), or changes only sockets of other programs.

`SettledIsTrue` speaks of executions with `trouble = "none"`, and `Steady` says of these that one restart is under way at most
(`OneActive`), that no child is in the map from the stop to the insertion (`Prepared`), that the child that is in the map or is about
to be is the last one started (`TheNewest`), and that what its reader has written, server and status, is still there
(`ItsWord`), unless a restart has changed the configuration and is about to stop the child (`Replacing`). Tasks of earlier children may
write what they like, until the newest one's reader has its host: from then on their writes are what `trouble` records
(`LateSteady`). TLC checks `Steady` within the bounds of the run `Tunnel`.

`CleanEndIsWhole` speaks of connections with `trouble = {}`, and so its invariant is
`Undisturbed == trouble = {} => Calm`, with three parts. `Ordered` is about ends: a pipe has ended exactly when
the task that writes to it has, a task ends only after the pipe it reads is empty and ended, and fails only where a
WebSocket was closed from the other side all the way (`Overtaken`). `Phases` is about what cannot have happened before the header is
sent, read and confirmed. `Flow` is about data: there are numbers `b`, one for each pipe, such that pipe `p` holds the chunks
`b[p]`, `b[p] + 1`, ... and the pipe before it goes on where it stops, up to what has been sent
(`Counts`); a step of any task changes one of the numbers. Of a stream that has ended, `Ordered` makes every pipe empty
(`EndsWhole`, from the receiver's end back to the sender's), and `Flow` then equates what arrived with what was sent. `Routes` is a table of
literal sequences; `Line` is all that the proofs use of it: the pipes of a direction are in a line.
TLC checks `Undisturbed` within the bounds of the run `Relay`.

Assumptions: ports are positive numbers, `None` is none of the values (and no socket), the initial
configuration is valid and has its ports, the save outcomes are three, limits, lifetimes and capacities
are positive, commands go where the protocol allows them, and a TUIC client does not use the id of a fragmented packet
for another one of the same association (`IdsAssumption`; this repository's client sends every packet whole). All are named
`ASSUME`s in the module that declares the constants, and TLC evaluates them.

Only model-checked:

- all liveness (`WaitsEnd`, `SessionEnds`, `ComesUp`, that of `Relay` and `TuicReplies`, and of `ImplementsApi` that every
  request is answered): liveness and `ENABLED` are out of the prover's reach;
- `QuiescentServes` and the refinement where inbounds are behind a tunnel: the reader's write is no step of `AdminApi`.

## Abstractions

`NodeCommit`

- An inbound's contents other than name, transport, port and tunnel host are a *tag*:
  `InvalidTags` are refused by `validate`, `DeafTags` pass it and fail in `start_inbound`,
  `TunnelTags` are served behind cloudflared. All inbounds listen on one address.
- `addrs` and `events` are written for display only and are left out; `tunnels` too, except
  for the readers of its children, which are a set per name.
- `Stop` merges abort and join of the tasks `stop_all` has taken. `Linger` are the sockets
  that may still be bound afterwards: the join's time limit has passed, or quinn's endpoint lives
  on with its client connections.
- The save and its answer are one step: a crash after the save and before the response counts as
  acknowledged. A failed bind and its entry in `runtime` are one step.
- The 256 random draws of `choose_available_port` find a port if there is one. `Boot` starts from a
  file that exists; the first start is `Bootstrap`.
- A preflight probe on port 0 gets none of `Ports`.
- `InboundIndex` is the *only* inbound of a name; that lists have no duplicate names is
  `StoredChecked`, which is proved.
- `HangUp` drops the handler at its current await. It is not taken at `return`, where there is none.

`AdminLogin`: a password is the number of new passwords set before it, so two of them are never the same;
a token is the login that got it; a user name is part of what makes a login fail. A client that hangs up between the two writes of an
account change leaves the new password set and the old sessions valid, which `SignedOut`
allows because that change is not acknowledged. The subscription page's limiter is the
same code and is not instantiated.

`TuicAuth`: which waiter `notify_one` wakes is left open. A wrong token is
`badauth`; reading errors, dissociations and heartbeats are `other`. A packet's body is read after
the flag is looked at; since only the loop that reads can set the flag, `Rest` may come before. Waits are long compared with what the loops do in between.

`TuicUdp`: a packet's id is used once if it is sent in fragments, each fragment carries an address, the replies that the
readers send back are left out, and a failed bind is a lost fragment. The two loops may
take any fragment; which channel a client chose for it is left open. Replies are in `TuicReplies`.

`AnyTlsSession`: a stream's first chunk is exactly its target's address. Frames sent to the
client are not recorded and the client always takes them. The chunk `ChunkedReader` holds
counts as taken from the queue when it is written.

`TuicReplies`: a reply is named by the packet it answers, and a packet is answered at most
once; the 256 places of a channel, the 65,536 ids and the streams a client allows are small numbers. A datagram
that cannot be sent for another reason than its size is a lost one. A stream once opened takes its reply
(`write_all`): the flow control of the connection as a whole, which could hold up every reader, is not modelled.

`Relay`: data are chunks numbered in the order in which they are sent; a socket, a duplex and a queue are
pipes that hold `Capacity` of them, and a frame is a chunk. A socket that is dropped with unread data in it may
be reset or closed, as TCP does. One stream of an AnyTLS session is looked at; several on one session are
`AnyTlsSession`. Of what a lost client had sent a part still arrives, and of what it was sent a part has been
acknowledged (`Arriving`, `Sever`). Which of the reasons makes a header bad is left open. VLESS header addons are
taken to be empty, as the dialler sends them (`vless.rs:63` reads their length but leaves the bytes).

`Tunnel`: one inbound; a generation's number is also its host name. Clearing the map and binding the
listener are one step because what is written between them is overwritten. The `stop_all` of a `spawn_all` that
gives up is a step at the start and in a rollback only: in a commit the rollback's own follows at once. A host name that cannot
be saved is `bad`, like one for an inbound that is gone.

`Bootstrap`: what one start draws is one number that no file uses; one inbound has a fixed port and one an automatic
one. A failed write is a crash, and so is a web interface that cannot bind its port (`main.rs:86`). The inbounds are
started in either order. A save by `spawn_all` that fails leaves the file as it was (the late failure is in
`NodeCommit`), and the host names of tunnels, which are saved later, are left out.

## Not modelled

- **QUIC, TLS and WebSocket themselves**, tokio and the kernel are modelled by what the code relies on.
- **AnyTLS authentication and padding**, and TUIC's token: a comparison of hashes without state. `TuicClient::connect`
  is what precedes `TuicReplies`.
- **Addresses, URIs, subscriptions as text**: parsing and encoding without state. Read along the way, and not
  covered by any property: a local port below the default is raised to it (`util.rs:137`), an IPv6 server is split at
  its last colon (`util.rs:141`), and the Clash text always says `network: ws` (`util.rs:259`).
- **The subscription page** reads the token under one lock and the inbounds under the next (`web/mod.rs:543`, `562`): one
  request may still be answered while the URL is regenerated.
- **The admin page**, events, addresses, the health command: display.

## Plan

Every safety invariant of the passing runs is now a theorem. What could still be done, in the
order of its worth:

1. *Weaker hypotheses.* `QuiescentServes` and the steps of the refinement are proved from
   `Orderly`. With contested ports that may be drawn, a weaker promise (served, or saved with
   the port that was drawn) should hold, and needs an `AdminApi` whose `Commit` may come before
   the answer.
2. *Tunnels in the abstract specification.* The host name a quick tunnel saves is a change of the
   configuration that no request asked for; as an action of `AdminApi` it would bring the runs
   with tunnels under the refinement.
3. *Clients.* The authentication of an AnyTLS connection and the connecting side of the TUIC
   client are sequential and are not modelled.

The liveness properties stay with TLC.
