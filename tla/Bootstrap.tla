------------------------------ MODULE Bootstrap ------------------------------
(***************************************************************************)
(* The start of the program: Config::load_or_create, load_identity and the  *)
(* first spawn_all, over the four files they keep (the configuration, the   *)
(* initial administrator password, the certificate and its key), with       *)
(* crashes between any two steps and in the middle of a write, programs     *)
(* that hold the ports, and a supervisor that starts the program again.     *)
(*                                                                         *)
(* Secrets are only told apart: a start draws one number that no file uses  *)
(* for everything that it generates.                                        *)
(***************************************************************************)
EXTENDS Naturals

CONSTANTS Ports,       \* ports of this machine
          Fixed,       \* the port of the inbound that has a port of its own
          Retries,     \* attempts with other automatic ports (16 in the code)
          Numbers,     \* names for what is drawn
          MaxCrashes,  \* bound: crashes
          MaxGrabs     \* bound: ports taken by other programs while we look

ASSUME PortsAssumption  == Fixed \in Ports /\ 0 \notin Ports
ASSUME BoundsAssumption == /\ Retries \in Nat /\ MaxCrashes \in Nat /\ MaxGrabs \in Nat
                           /\ Numbers \subseteq Nat

None    == <<>>
Torn    == <<"torn">>        \* a file whose writing was cut off
Own     == <<"own">>         \* chosen by the administrator
Default == <<"admin1234">>   \* the default of old versions
Drawn(n) == <<"drawn", n>>

\* The configuration: its plaintext password (of old versions), the hash (named for the
\* password it is of), the subscription's path and token, the automatic port.  A new one has
\* its password and token drawn.  One that is given to the first start is of an old version,
\* or was written or added to by hand.
NoFile   == [password |-> <<"no file">>, hash |-> None, token |-> None, port |-> 0]
Fresh(n) == [password |-> Drawn(n), hash |-> None, token |-> Drawn(n), port |-> 0]
Given    == {c \in [password : {None, Default, Own}, hash : {None, Own},
                   token : {None, Own}, port : {0} \cup (Ports \ {Fixed})] :
               None \in {c.hash, c.password}}

VARIABLES
  disk,     \* the configuration file: NoFile or a configuration
  secret,   \* initial-admin-password.txt
  cert, key,
  pc,       \* the program
  cfg,      \* the configuration in memory
  changed,  \* it must be saved
  newly,    \* its port was assigned by this start
  number,   \* what this start draws
  tries,    \* attempts left
  left,     \* the inbounds that spawn_all has not started yet
  working,  \* the automatic port in spawn_all's copy of the configuration
  listening, \* ports our listeners hold
  taken,    \* ports other programs hold
  crashes, grabs  \* history

files  == <<disk, secret, cert, key>>
spawn  == <<left, working, listening>>
memory == <<cfg, changed, newly, number, tries, spawn>>
env    == <<taken, crashes, grabs>>
vars   == <<files, pc, memory, env>>

Init ==
  /\ disk \in {NoFile} \cup Given
  /\ secret = None
  /\ \E c \in {None, Own} : cert = c /\ key = c
  /\ pc = "down"
  /\ cfg = NoFile /\ changed = FALSE /\ newly = FALSE /\ number = 0 /\ tries = 0
  /\ left = {} /\ working = 0 /\ listening = {}
  /\ taken = {} /\ crashes = 0 /\ grabs = 0

InUse(n) == Drawn(n) \in {disk.hash, disk.token, secret, cert, key}

\* choose_available_port: a port that no inbound has and nobody holds.
Available == Ports \ (taken \cup {Fixed})

\* Nothing that was not to be kept survives the process.
Down == /\ pc' = "down"
        /\ cfg' = NoFile /\ changed' = FALSE /\ newly' = FALSE /\ number' = 0 /\ tries' = 0
        /\ left' = {} /\ working' = 0 /\ listening' = {}

-----------------------------------------------------------------------------

\* A configuration without a hash gets one, of its plaintext password or, where that is
\* missing or the default of old versions, of a new one.
NeedsHash(c) == c.hash = None
Replaces(c)  == NeedsHash(c) /\ c.password \in {None, Default}

Migrated(c, n, p) ==
  [password |-> IF NeedsHash(c) THEN None ELSE c.password,
   hash     |-> IF Replaces(c) THEN Drawn(n) ELSE IF NeedsHash(c) THEN c.password ELSE c.hash,
   token    |-> IF c.token = None THEN Drawn(n) ELSE c.token,
   port     |-> p]

Loaded(n)   == IF disk = NoFile THEN Fresh(n) ELSE disk
HasNewPassword(c) == NeedsHash(c) /\ (disk = NoFile \/ Replaces(c))

\* load_or_create up to the first file it writes: load or make the configuration, assign
\* the missing port, migrate the password, draw the token.  Without an available port
\* (assign_missing_ports fails) the start fails and leaves no trace.
Start ==
  /\ pc = "down"
  /\ \E n \in Numbers, p \in Ports : LET c == Loaded(n) IN
       /\ ~InUse(n) /\ \A m \in Numbers : m < n => InUse(m)
       /\ p \in IF c.port = 0 THEN Available ELSE {c.port}
       /\ cfg' = Migrated(c, n, p) /\ number' = n
       /\ newly' = (c.port = 0)
       /\ changed' = (newly' \/ NeedsHash(c) \/ c.token = None)
       /\ pc' = IF HasNewPassword(c) THEN "secret" ELSE "identity"
  /\ tries' = Retries
  /\ UNCHANGED <<files, spawn, env>>

\* Mutant: the password file is written after the configuration has been saved.
SecretLater == pc = "secret" /\ pc' = "identity" /\ UNCHANGED <<files, memory, env>>

\* A drawn password is written to its file before the hash is saved.
WriteSecret ==
  /\ pc = "secret"
  /\ secret' = cfg.hash /\ pc' = "identity"
  /\ UNCHANGED <<disk, cert, key, memory, env>>

\* Mutant: a missing key alone does not count.
NoIdentity == cert = None /\ key = None

\* A certificate is generated if either file is missing; nobody looks into them.
IdentityMissing == cert = None \/ key = None

IdentityPresent ==
  /\ pc = "identity" /\ ~IdentityMissing
  /\ pc' = "check"
  /\ UNCHANGED <<files, memory, env>>

\* Mutant: only the missing file is written.
WriteMissingCert ==
  /\ pc = "identity" /\ IdentityMissing
  /\ cert' = IF cert = None THEN Drawn(number) ELSE cert
  /\ pc' = "key" /\ changed' = TRUE
  /\ UNCHANGED <<disk, secret, key, cfg, newly, number, tries, spawn, env>>

\* generate_self_signed writes the certificate, then the key.
WriteCert ==
  /\ pc = "identity" /\ IdentityMissing
  /\ cert' = Drawn(number) /\ pc' = "key" /\ changed' = TRUE
  /\ UNCHANGED <<disk, secret, key, cfg, newly, number, tries, spawn, env>>

WriteKey ==
  /\ pc = "key"
  /\ key' = Drawn(number) /\ pc' = "check"
  /\ UNCHANGED <<disk, secret, cert, memory, env>>

PortsFree == {Fixed, cfg.port} \cap taken = {}

\* ensure_ports_available has bound and released every port.
CheckOk ==
  /\ pc = "check" /\ PortsFree
  /\ pc' = IF changed THEN "save" ELSE "tls"
  /\ UNCHANGED <<files, memory, env>>

\* Mutant: any automatic port is drawn again.
CheckRetryAny ==
  /\ pc = "check" /\ ~PortsFree /\ tries > 0
  /\ \E p \in Available : cfg' = [cfg EXCEPT !.port = p]
  /\ tries' = tries - 1 /\ changed' = TRUE
  /\ UNCHANGED <<files, pc, newly, number, spawn, env>>

\* Only a port that this start has assigned is drawn again.
CheckRetry ==
  /\ pc = "check" /\ ~PortsFree /\ newly /\ tries > 0
  /\ \E p \in Available : cfg' = [cfg EXCEPT !.port = p]
  /\ tries' = tries - 1
  /\ UNCHANGED <<files, pc, changed, newly, number, spawn, env>>

CheckFails ==
  /\ pc = "check" /\ ~PortsFree
  /\ ~newly \/ tries = 0 \/ Available = {}
  /\ Down
  /\ UNCHANGED <<files, env>>

\* save replaces the file by a rename.
Save ==
  /\ pc = "save"
  /\ disk' = cfg /\ pc' = "tls"
  /\ UNCHANGED <<secret, cert, key, memory, env>>

\* load_identity parses both files.
LoadIdentity ==
  /\ pc = "tls"
  /\ IF None \in {cert, key} \/ Torn \in {cert, key}
     THEN Down
     ELSE /\ pc' = "spawn" /\ left' = {"fixed", "auto"} /\ working' = cfg.port
          /\ tries' = Retries /\ UNCHANGED <<cfg, changed, newly, number, listening>>
  /\ UNCHANGED <<files, env>>

-----------------------------------------------------------------------------
(* spawn_all, on its copy of the configuration.  The program comes up whether or not the *)
(* inbounds have started.                                                                *)

Spawning(i) == pc = "spawn" /\ i \in left
Tried(i)    == left' = left \ {i}

\* A port of its own is tried once.
SpawnFixed ==
  /\ Spawning("fixed") /\ Tried("fixed")
  /\ listening' = listening \cup ({Fixed} \ taken)
  /\ UNCHANGED <<files, pc, cfg, changed, newly, number, tries, working, env>>

SpawnAuto ==
  /\ Spawning("auto") /\ Tried("auto") /\ working \notin taken
  /\ listening' = listening \cup {working}
  /\ UNCHANGED <<files, pc, cfg, changed, newly, number, tries, working, env>>

\* Any automatic port is drawn again here, one that was saved long ago as well.
SpawnRedraws ==
  /\ Spawning("auto") /\ working \in taken /\ tries > 0
  /\ working' \in Available /\ tries' = tries - 1
  /\ UNCHANGED <<files, pc, cfg, changed, newly, number, left, listening, env>>

SpawnAutoFails ==
  /\ Spawning("auto") /\ Tried("auto") /\ working \in taken
  /\ tries = 0 \/ Available = {}
  /\ UNCHANGED <<files, pc, cfg, changed, newly, number, tries, working, listening, env>>

Spawned    == pc = "spawn" /\ left = {}
PortMoved  == working # cfg.port
AllStarted == listening = {Fixed, working}

SpawnKeepsPort ==
  /\ Spawned /\ ~PortMoved
  /\ pc' = "up"
  /\ UNCHANGED <<files, memory, env>>

\* A port that was drawn again is saved when every inbound listens.
SpawnSaves ==
  /\ Spawned /\ PortMoved /\ AllStarted
  /\ pc' = "up" /\ cfg' = [cfg EXCEPT !.port = working] /\ disk' = cfg'
  /\ UNCHANGED <<secret, cert, key, changed, newly, number, tries, spawn, env>>

\* Mutant: what has started stays, on a port that nobody will find.
SpawnLeaves ==
  /\ Spawned /\ PortMoved
  /\ pc' = "up"
  /\ UNCHANGED <<files, memory, env>>

\* "Do not leave listeners on retry ports that were never persisted": not all have
\* started, or the save has failed.
SpawnStops ==
  /\ Spawned /\ PortMoved
  /\ pc' = "up" /\ listening' = {}
  /\ UNCHANGED <<files, cfg, changed, newly, number, tries, left, working, env>>

-----------------------------------------------------------------------------

\* update_account, when the program runs.
ChangePassword ==
  /\ pc = "up" /\ disk.hash # Own
  /\ cfg' = [cfg EXCEPT !.hash = Own] /\ disk' = cfg'
  /\ UNCHANGED <<secret, cert, key, pc, changed, newly, number, tries, spawn, env>>

\* The file was to be removed once the password has been changed.
RemoveSecret ==
  /\ secret # None /\ disk # NoFile /\ disk.hash = Own
  /\ secret' = None
  /\ UNCHANGED <<disk, cert, key, pc, memory, env>>

\* The process dies or is stopped, or a write fails and it exits: what it was writing may
\* be cut off.
Crash ==
  /\ pc # "down" /\ crashes < MaxCrashes
  /\ crashes' = crashes + 1
  /\ Down
  /\ secret' \in {secret} \cup (IF pc = "secret" THEN {Torn} ELSE {})
  /\ cert' \in {cert} \cup (IF pc = "identity" /\ IdentityMissing THEN {Torn} ELSE {})
  /\ key' \in {key} \cup (IF pc = "key" THEN {Torn} ELSE {})
  /\ UNCHANGED <<disk, taken, grabs>>

\* Other programs take any port that is free at the moment, which ours are too until
\* spawn_all has bound them.
Grab(p) ==
  /\ p \notin taken \cup listening /\ grabs < MaxGrabs
  /\ taken' = taken \cup {p} /\ grabs' = grabs + 1
  /\ UNCHANGED <<files, pc, memory, crashes>>

Release(p) ==
  /\ p \in taken /\ taken' = taken \ {p}
  /\ UNCHANGED <<files, pc, memory, crashes, grabs>>

Program ==
  \/ Start \/ WriteSecret \/ IdentityPresent \/ WriteCert \/ WriteKey
  \/ CheckOk \/ CheckRetry \/ CheckFails \/ Save \/ LoadIdentity
  \/ SpawnFixed \/ SpawnAuto \/ SpawnRedraws \/ SpawnAutoFails
  \/ SpawnKeepsPort \/ SpawnSaves \/ SpawnStops

Next ==
  \/ Start \/ WriteSecret \/ IdentityPresent \/ WriteCert \/ WriteKey
  \/ CheckOk \/ CheckRetry \/ CheckFails \/ Save \/ LoadIdentity
  \/ SpawnFixed \/ SpawnAuto \/ SpawnRedraws \/ SpawnAutoFails
  \/ SpawnKeepsPort \/ SpawnSaves \/ SpawnStops
  \/ ChangePassword \/ RemoveSecret \/ Crash
  \/ \E p \in Ports : Grab(p) \/ Release(p)

\* The program runs, the supervisor (systemd, or Docker's restart policy) starts it
\* again, and other programs give their ports back.
Fairness == WF_vars(Program) /\ \A p \in Ports : WF_vars(Release(p))

Spec == Init /\ [][Next]_vars /\ Fairness
-----------------------------------------------------------------------------

\* Nobody is locked out: the password of the hash on disk is the administrator's own or
\* stands in the password file, wherever a start was cut off ("initial admin credentials").
KnownPassword ==
  disk # NoFile /\ disk.hash # None => disk.hash \in {Own, secret}

\* A program that runs has a certificate and the key that belongs to it, although the two
\* files are not written together and only their existence is looked at.
IdentityMatches == pc = "up" => cert = key

\* What a program that runs has in memory is what the next start will load (the ports,
\* the token and the password that clients and the administrator have been given), and it
\* listens nowhere else, although spawn_all binds ports before it has saved them.
RunsAsSaved == pc = "up" => cfg = disk /\ listening \subseteq {Fixed, disk.port}

\* What is saved stays, although a start finds ports taken or a write is cut off: the path
\* and the token, the password but for the administrator's own, the certificate and the key.
\* The port does not stay: load_or_create never moves a saved one, but spawn_all does when its
\* bind fails; then every inbound already listens, this one on the new port.
Complete == disk # NoFile /\ disk.hash # None /\ disk.token # None /\ disk.port # 0
Kept ==
  [][/\ Complete => /\ disk'.token = disk.token /\ disk'.hash \in {disk.hash, Own}
                    /\ disk'.port # disk.port => {Fixed, disk'.port} \subseteq listening
     /\ None \notin {cert, key} => cert' = cert /\ key' = key]_vars

\* When crashes and contention are over the program comes up and stays, unless a crash has
\* left half a key, which counts as a key.
ComesUp == <>[](pc = "up" \/ key = Torn)
=============================================================================
