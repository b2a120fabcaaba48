-------------------------- MODULE Bootstrap_proofs --------------------------
(***************************************************************************)
(* Any number of starts, crashes, ports and other programs: nobody is       *)
(* locked out, the identity matches, and what runs is what is saved.        *)
(***************************************************************************)
EXTENDS Bootstrap, TLAPS

Secrets == {None, Torn, Own, Default, <<"no file">>} \cup {Drawn(n) : n \in Numbers}
Configs == [password : Secrets, hash : Secrets, token : Secrets, port : Ports \cup {0}]
Started == {"secret", "identity", "key", "check", "save", "tls", "spawn", "up"}

Typed ==
  /\ disk \in Configs /\ cfg \in Configs
  /\ pc \in Started \cup {"down"}
  /\ changed \in BOOLEAN /\ newly \in BOOLEAN
  /\ left \subseteq {"fixed", "auto"} /\ working \in Ports \cup {0}

\* A start keeps a hash that is on disk, and writes the password file only if there is none.
HashKept ==
  pc \in Started =>
    /\ pc = "secret" => disk.hash = None
    /\ disk.hash # None => cfg.hash = disk.hash

\* The hash in memory is known as soon as the password file has been written.
HashKnown ==
  pc \in Started => cfg.hash # None /\ (pc # "secret" => cfg.hash \in {Own, secret})
DiskKnown ==
  /\ disk.hash \in {None, Own, secret}
  /\ disk.hash = None => disk = NoFile \/ disk.password \in {None, Default, Own}

\* A key is the last of the two files and is written for its certificate, or torn.
KeyFollows ==
  /\ key \in {None, Torn, cert} /\ (cert = None => key = None)
  /\ pc = "key" => key = None /\ cert = Drawn(number)
  /\ pc \in {"spawn", "up"} => key \notin {None, Torn}

\* A start that has changed nothing has in memory what is on disk.
UnchangedIsSaved ==
  /\ pc \in Started /\ newly => changed
  /\ pc \in {"secret", "identity", "key", "check"} /\ ~changed => cfg = disk
  /\ pc \in {"tls", "spawn", "up"} => cfg = disk

\* Nothing listens before spawn_all, and then on the ports of its copy; a port is drawn again
\* only before it listens, and has been saved or given up by the time the program is up.
ListeningKnown ==
  /\ pc \notin {"spawn", "up"} => listening = {}
  /\ pc = "spawn" => listening \subseteq {Fixed, working}
  /\ pc = "spawn" /\ "auto" \in left => listening \subseteq {Fixed}
  /\ pc = "up" => listening \subseteq {Fixed, disk.port}

IInv == /\ Typed /\ HashKept /\ HashKnown /\ DiskKnown /\ KeyFollows /\ UnchangedIsSaved
        /\ ListeningKnown

-----------------------------------------------------------------------------
\* The values that stand for the contents of a file are told apart.
LEMMA Apart ==
  /\ Own # None /\ Torn # None /\ Default # None
  /\ \A n : Drawn(n) # None /\ Drawn(n) # Torn /\ Drawn(n) # Default
  BY DEF Own, None, Torn, Default, Drawn

LEMMA InConfigs ==
  /\ {None, Torn, Own, Default} \subseteq Secrets /\ \A n \in Numbers : Drawn(n) \in Secrets
  /\ NoFile \in Configs /\ \A n \in Numbers : Fresh(n) \in Configs
  /\ Given \subseteq Configs
<1>1. {None, Torn, Own, Default, <<"no file">>} \subseteq Secrets /\ \A n \in Numbers : Drawn(n) \in Secrets
  BY DEF Secrets
<1> QED
  BY <1>1 DEF Configs, NoFile, Fresh, Given

LEMMA InitHolds == Init => IInv
<1> SUFFICES ASSUME Init PROVE IInv
  OBVIOUS
<1>1. Typed
  BY InConfigs DEF Init, Typed
<1>2. HashKept /\ HashKnown /\ UnchangedIsSaved /\ ListeningKnown
  BY DEF Init, HashKept, HashKnown, UnchangedIsSaved, ListeningKnown, Started
<1>3. DiskKnown
  <2>1. CASE disk = NoFile
    BY <2>1 DEF DiskKnown, NoFile
  <2>2. CASE disk \in Given
    BY <2>2 DEF DiskKnown, Given
  <2> QED
    BY <2>1, <2>2 DEF Init
<1>4. KeyFollows
  BY DEF Init, KeyFollows
<1> QED
  BY <1>1, <1>2, <1>3, <1>4 DEF IInv

LEMMA NextHolds == IInv /\ [Next]_vars => IInv'
<1> SUFFICES ASSUME IInv, [Next]_vars PROVE IInv'
  OBVIOUS
<1> USE Apart DEF IInv, files, spawn, memory, env, Started
<1>1. ASSUME Start PROVE IInv'
  <2>0. PICK n \in Numbers, p \in Ports :
          /\ p \in IF Loaded(n).port = 0 THEN Available ELSE {Loaded(n).port}
          /\ cfg' = Migrated(Loaded(n), n, p) /\ newly' = (Loaded(n).port = 0)
          /\ changed' = (newly' \/ NeedsHash(Loaded(n)) \/ Loaded(n).token = None)
          /\ pc' = IF HasNewPassword(Loaded(n)) THEN "secret" ELSE "identity"
    BY <1>1 DEF Start
  <2>a. Loaded(n) \in Configs
    BY InConfigs DEF Loaded, Typed
  <2>b. Drawn(n) \in Secrets /\ Drawn(n) \notin {None, Default}
    BY InConfigs, Apart
  <2>1. Typed'
    <3>1. cfg' \in Configs
      BY <2>0, <2>a, <2>b, InConfigs DEF Migrated, Configs
    <3> QED
      BY <1>1, <2>0, <3>1 DEF Start, Typed
  <2>2. HashKept' /\ HashKnown' /\ DiskKnown'
    <3>1. disk' = disk /\ secret' = secret
      BY <1>1 DEF Start
    <3>2. cfg'.hash = IF Replaces(Loaded(n)) THEN Drawn(n)
                      ELSE IF NeedsHash(Loaded(n)) THEN Loaded(n).password ELSE Loaded(n).hash
      BY <2>0 DEF Migrated
    <3>3. CASE disk = NoFile
      <4>1. Loaded(n).hash = None /\ Loaded(n).password = Drawn(n) /\ disk.hash = None
        BY <3>3 DEF Loaded, Fresh, NoFile
      <4> QED
        BY <2>0, <2>b, <3>1, <3>2, <3>3, <4>1 DEF HasNewPassword, NeedsHash, HashKept, HashKnown, DiskKnown
    <3>4. CASE disk # NoFile
      <4>1. Loaded(n) = disk
        BY <3>4 DEF Loaded
      <4> QED
        BY <2>0, <2>b, <3>1, <3>2, <3>4, <4>1 DEF HasNewPassword, Replaces, NeedsHash, HashKept, HashKnown, DiskKnown
    <3> QED
      BY <3>3, <3>4
  <2>3. KeyFollows'
    BY <1>1 DEF Start, KeyFollows
  <2>4. UnchangedIsSaved'
    BY <1>1 DEF Start, Loaded, Fresh, NoFile, NeedsHash, Replaces, HasNewPassword, Migrated, Typed, Configs, UnchangedIsSaved
  <2>5. ListeningKnown'
    BY <1>1 DEF Start, ListeningKnown
  <2> QED BY <2>1, <2>2, <2>3, <2>4, <2>5
<1>2. ASSUME WriteSecret PROVE IInv'
  <2>1. Typed'
    BY <1>2 DEF WriteSecret, Typed
  <2>2. HashKept' /\ HashKnown' /\ DiskKnown'
    BY <1>2 DEF WriteSecret, Typed, Configs, HashKept, HashKnown, DiskKnown
  <2>3. KeyFollows'
    BY <1>2 DEF WriteSecret, KeyFollows
  <2>4. UnchangedIsSaved'
    BY <1>2 DEF WriteSecret, Typed, Configs, UnchangedIsSaved
  <2>5. ListeningKnown'
    BY <1>2 DEF WriteSecret, ListeningKnown
  <2> QED BY <2>1, <2>2, <2>3, <2>4, <2>5
<1>3. ASSUME IdentityPresent PROVE IInv'
  <2>1. Typed'
    BY <1>3 DEF IdentityPresent, IdentityMissing, Typed
  <2>2. HashKept' /\ HashKnown' /\ DiskKnown'
    BY <1>3 DEF IdentityPresent, Typed, Configs, HashKept, HashKnown, DiskKnown
  <2>3. KeyFollows'
    BY <1>3 DEF IdentityPresent, IdentityMissing, KeyFollows
  <2>4. UnchangedIsSaved'
    BY <1>3 DEF IdentityPresent, IdentityMissing, Typed, Configs, UnchangedIsSaved
  <2>5. ListeningKnown'
    BY <1>3 DEF IdentityPresent, ListeningKnown
  <2> QED BY <2>1, <2>2, <2>3, <2>4, <2>5
<1>4. ASSUME WriteCert PROVE IInv'
  <2>1. Typed'
    BY <1>4 DEF WriteCert, IdentityMissing, Typed
  <2>2. HashKept' /\ HashKnown' /\ DiskKnown'
    BY <1>4 DEF WriteCert, Typed, Configs, HashKept, HashKnown, DiskKnown
  <2>3. KeyFollows'
    BY <1>4 DEF WriteCert, IdentityMissing, KeyFollows
  <2>4. UnchangedIsSaved'
    BY <1>4 DEF WriteCert, IdentityMissing, Typed, Configs, UnchangedIsSaved
  <2>5. ListeningKnown'
    BY <1>4 DEF WriteCert, ListeningKnown
  <2> QED BY <2>1, <2>2, <2>3, <2>4, <2>5
<1>5. ASSUME WriteKey PROVE IInv'
  <2>1. Typed'
    BY <1>5 DEF WriteKey, Typed
  <2>2. HashKept' /\ HashKnown' /\ DiskKnown'
    BY <1>5 DEF WriteKey, Typed, Configs, HashKept, HashKnown, DiskKnown
  <2>3. KeyFollows'
    BY <1>5 DEF WriteKey, KeyFollows
  <2>4. UnchangedIsSaved'
    BY <1>5 DEF WriteKey, Typed, Configs, UnchangedIsSaved
  <2>5. ListeningKnown'
    BY <1>5 DEF WriteKey, ListeningKnown
  <2> QED BY <2>1, <2>2, <2>3, <2>4, <2>5
<1>6. ASSUME CheckOk PROVE IInv'
  <2>1. Typed'
    BY <1>6 DEF CheckOk, Typed
  <2>2. HashKept' /\ HashKnown' /\ DiskKnown'
    BY <1>6 DEF CheckOk, Typed, Configs, HashKept, HashKnown, DiskKnown
  <2>3. KeyFollows'
    BY <1>6 DEF CheckOk, KeyFollows
  <2>4. UnchangedIsSaved'
    BY <1>6 DEF CheckOk, Typed, Configs, UnchangedIsSaved
  <2>5. ListeningKnown'
    BY <1>6 DEF CheckOk, ListeningKnown
  <2> QED BY <2>1, <2>2, <2>3, <2>4, <2>5
<1>7. ASSUME CheckRetry PROVE IInv'
  <2>1. Typed'
    BY <1>7 DEF CheckRetry, Available, Typed, Configs
  <2>2. HashKept' /\ HashKnown' /\ DiskKnown'
    BY <1>7 DEF CheckRetry, Typed, Configs, HashKept, HashKnown, DiskKnown
  <2>3. KeyFollows'
    BY <1>7 DEF CheckRetry, KeyFollows
  <2>4. UnchangedIsSaved'
    BY <1>7 DEF CheckRetry, Available, Typed, Configs, UnchangedIsSaved
  <2>5. ListeningKnown'
    BY <1>7 DEF CheckRetry, ListeningKnown
  <2> QED BY <2>1, <2>2, <2>3, <2>4, <2>5
<1>8. ASSUME CheckFails PROVE IInv'
  <2>1. Typed'
    BY <1>8, InConfigs DEF CheckFails, Down, Typed
  <2>2. HashKept' /\ HashKnown' /\ DiskKnown'
    BY <1>8 DEF CheckFails, Down, Typed, Configs, HashKept, HashKnown, DiskKnown
  <2>3. KeyFollows'
    BY <1>8 DEF CheckFails, Down, KeyFollows
  <2>4. UnchangedIsSaved'
    BY <1>8 DEF CheckFails, Down, NoFile, Typed, Configs, UnchangedIsSaved
  <2>5. ListeningKnown'
    BY <1>8 DEF CheckFails, Down, ListeningKnown
  <2> QED BY <2>1, <2>2, <2>3, <2>4, <2>5
<1>9. ASSUME Save PROVE IInv'
  <2>1. Typed'
    BY <1>9 DEF Save, Typed
  <2>2. HashKept' /\ HashKnown' /\ DiskKnown'
    BY <1>9 DEF Save, Typed, Configs, HashKept, HashKnown, DiskKnown
  <2>3. KeyFollows'
    BY <1>9 DEF Save, KeyFollows
  <2>4. UnchangedIsSaved'
    BY <1>9 DEF Save, Typed, Configs, UnchangedIsSaved
  <2>5. ListeningKnown'
    BY <1>9 DEF Save, ListeningKnown
  <2> QED BY <2>1, <2>2, <2>3, <2>4, <2>5
<1>10. ASSUME LoadIdentity PROVE IInv'
  <2>1. Typed'
    <3>1. cfg.port \in Ports \cup {0}
      BY DEF Typed, Configs
    <3> QED
      BY <1>10, <3>1, InConfigs DEF LoadIdentity, Down, Typed
  <2>2. HashKept' /\ HashKnown' /\ DiskKnown'
    BY <1>10 DEF LoadIdentity, Down, Typed, Configs, HashKept, HashKnown, DiskKnown
  <2>3. KeyFollows'
    BY <1>10 DEF LoadIdentity, Down, KeyFollows
  <2>4. UnchangedIsSaved'
    BY <1>10 DEF LoadIdentity, Down, NoFile, Typed, Configs, UnchangedIsSaved
  <2>5. ListeningKnown'
    BY <1>10 DEF LoadIdentity, Down, ListeningKnown
  <2> QED BY <2>1, <2>2, <2>3, <2>4, <2>5
<1>11. ASSUME ChangePassword PROVE IInv'
  <2>1. Typed'
    BY <1>11, InConfigs DEF ChangePassword, Typed, Configs
  <2>2. HashKept' /\ HashKnown' /\ DiskKnown'
    BY <1>11 DEF ChangePassword, Typed, Configs, HashKept, HashKnown, DiskKnown
  <2>3. KeyFollows'
    BY <1>11 DEF ChangePassword, KeyFollows
  <2>4. UnchangedIsSaved'
    BY <1>11 DEF ChangePassword, Typed, Configs, UnchangedIsSaved
  <2>5. ListeningKnown'
    BY <1>11 DEF ChangePassword, ListeningKnown, UnchangedIsSaved, Typed, Configs
  <2> QED BY <2>1, <2>2, <2>3, <2>4, <2>5
<1>12. ASSUME RemoveSecret PROVE IInv'
  <2>1. Typed'
    BY <1>12 DEF RemoveSecret, Typed
  <2>2. HashKept' /\ HashKnown' /\ DiskKnown'
    BY <1>12 DEF RemoveSecret, Typed, Configs, HashKept, HashKnown, DiskKnown
  <2>3. KeyFollows'
    BY <1>12 DEF RemoveSecret, KeyFollows
  <2>4. UnchangedIsSaved'
    BY <1>12 DEF RemoveSecret, Typed, Configs, UnchangedIsSaved
  <2>5. ListeningKnown'
    BY <1>12 DEF RemoveSecret, ListeningKnown
  <2> QED BY <2>1, <2>2, <2>3, <2>4, <2>5
<1>13. ASSUME Crash PROVE IInv'
  <2>1. Typed'
    BY <1>13, InConfigs DEF Crash, Down, IdentityMissing, Typed
  <2>2. HashKept' /\ HashKnown' /\ DiskKnown'
    BY <1>13 DEF Crash, Down, Typed, Configs, HashKept, HashKnown, DiskKnown
  <2>3. KeyFollows'
    <3>1. pc' = "down"
      BY <1>13 DEF Crash, Down
    <3>2. CASE pc = "key"
      BY <1>13, <3>1, <3>2 DEF Crash, KeyFollows
    <3>3. CASE pc = "identity" /\ IdentityMissing
      <4>1. key = None /\ key' = key
        BY <1>13, <3>3 DEF Crash, IdentityMissing, KeyFollows
      <4> QED
        BY <3>1, <4>1 DEF KeyFollows
    <3>4. CASE pc # "key" /\ ~(pc = "identity" /\ IdentityMissing)
      <4>1. key' = key /\ cert' = cert
        BY <1>13, <3>4 DEF Crash
      <4> QED
        BY <3>1, <4>1 DEF KeyFollows
    <3> QED
      BY <3>2, <3>3, <3>4
  <2>4. UnchangedIsSaved'
    BY <1>13 DEF Crash, Down, NoFile, IdentityMissing, Typed, Configs, UnchangedIsSaved
  <2>5. ListeningKnown'
    BY <1>13 DEF Crash, Down, ListeningKnown
  <2> QED BY <2>1, <2>2, <2>3, <2>4, <2>5
<1>14. ASSUME NEW p \in Ports, Grab(p) PROVE IInv'
  <2>1. Typed'
    BY <1>14 DEF Grab, Typed
  <2>2. HashKept' /\ HashKnown' /\ DiskKnown'
    BY <1>14 DEF Grab, Typed, Configs, HashKept, HashKnown, DiskKnown
  <2>3. KeyFollows'
    BY <1>14 DEF Grab, KeyFollows
  <2>4. UnchangedIsSaved'
    BY <1>14 DEF Grab, Typed, Configs, UnchangedIsSaved
  <2>5. ListeningKnown'
    BY <1>14 DEF Grab, ListeningKnown
  <2> QED BY <2>1, <2>2, <2>3, <2>4, <2>5
<1>15. ASSUME NEW p \in Ports, Release(p) PROVE IInv'
  <2>1. Typed'
    BY <1>15 DEF Release, Typed
  <2>2. HashKept' /\ HashKnown' /\ DiskKnown'
    BY <1>15 DEF Release, Typed, Configs, HashKept, HashKnown, DiskKnown
  <2>3. KeyFollows'
    BY <1>15 DEF Release, KeyFollows
  <2>4. UnchangedIsSaved'
    BY <1>15 DEF Release, Typed, Configs, UnchangedIsSaved
  <2>5. ListeningKnown'
    BY <1>15 DEF Release, ListeningKnown
  <2> QED BY <2>1, <2>2, <2>3, <2>4, <2>5
<1>17. ASSUME SpawnFixed PROVE IInv'
  <2>1. Typed'
    BY <1>17 DEF SpawnFixed, Spawning, Tried, Typed, Configs
  <2>2. HashKept' /\ HashKnown' /\ DiskKnown'
    BY <1>17 DEF SpawnFixed, Spawning, Tried, UnchangedIsSaved, Typed, Configs, HashKept, HashKnown, DiskKnown
  <2>3. KeyFollows'
    BY <1>17 DEF SpawnFixed, Spawning, Tried, KeyFollows
  <2>4. UnchangedIsSaved'
    BY <1>17 DEF SpawnFixed, Spawning, Tried, Typed, Configs, UnchangedIsSaved
  <2>5. ListeningKnown'
    BY <1>17 DEF SpawnFixed, Spawning, Tried, UnchangedIsSaved, Typed, Configs, ListeningKnown
  <2> QED BY <2>1, <2>2, <2>3, <2>4, <2>5
<1>18. ASSUME SpawnAuto PROVE IInv'
  <2>1. Typed'
    BY <1>18 DEF SpawnAuto, Spawning, Tried, Typed, Configs
  <2>2. HashKept' /\ HashKnown' /\ DiskKnown'
    BY <1>18 DEF SpawnAuto, Spawning, Tried, UnchangedIsSaved, Typed, Configs, HashKept, HashKnown, DiskKnown
  <2>3. KeyFollows'
    BY <1>18 DEF SpawnAuto, Spawning, Tried, KeyFollows
  <2>4. UnchangedIsSaved'
    BY <1>18 DEF SpawnAuto, Spawning, Tried, Typed, Configs, UnchangedIsSaved
  <2>5. ListeningKnown'
    BY <1>18 DEF SpawnAuto, Spawning, Tried, UnchangedIsSaved, Typed, Configs, ListeningKnown
  <2> QED BY <2>1, <2>2, <2>3, <2>4, <2>5
<1>19. ASSUME SpawnRedraws PROVE IInv'
  <2>1. Typed'
    BY <1>19 DEF SpawnRedraws, Spawning, Available, Typed, Configs
  <2>2. HashKept' /\ HashKnown' /\ DiskKnown'
    BY <1>19 DEF SpawnRedraws, Spawning, Available, UnchangedIsSaved, Typed, Configs, HashKept, HashKnown, DiskKnown
  <2>3. KeyFollows'
    BY <1>19 DEF SpawnRedraws, Spawning, Available, KeyFollows
  <2>4. UnchangedIsSaved'
    BY <1>19 DEF SpawnRedraws, Spawning, Available, Typed, Configs, UnchangedIsSaved
  <2>5. ListeningKnown'
    BY <1>19 DEF SpawnRedraws, Spawning, Available, UnchangedIsSaved, Typed, Configs, ListeningKnown
  <2> QED BY <2>1, <2>2, <2>3, <2>4, <2>5
<1>20. ASSUME SpawnAutoFails PROVE IInv'
  <2>1. Typed'
    BY <1>20 DEF SpawnAutoFails, Spawning, Tried, Typed, Configs
  <2>2. HashKept' /\ HashKnown' /\ DiskKnown'
    BY <1>20 DEF SpawnAutoFails, Spawning, Tried, UnchangedIsSaved, Typed, Configs, HashKept, HashKnown, DiskKnown
  <2>3. KeyFollows'
    BY <1>20 DEF SpawnAutoFails, Spawning, Tried, KeyFollows
  <2>4. UnchangedIsSaved'
    BY <1>20 DEF SpawnAutoFails, Spawning, Tried, Typed, Configs, UnchangedIsSaved
  <2>5. ListeningKnown'
    BY <1>20 DEF SpawnAutoFails, Spawning, Tried, UnchangedIsSaved, Typed, Configs, ListeningKnown
  <2> QED BY <2>1, <2>2, <2>3, <2>4, <2>5
<1>21. ASSUME SpawnKeepsPort PROVE IInv'
  <2>1. Typed'
    BY <1>21 DEF SpawnKeepsPort, Spawned, PortMoved, Typed, Configs
  <2>2. HashKept' /\ HashKnown' /\ DiskKnown'
    BY <1>21 DEF SpawnKeepsPort, Spawned, PortMoved, UnchangedIsSaved, Typed, Configs, HashKept, HashKnown, DiskKnown
  <2>3. KeyFollows'
    BY <1>21 DEF SpawnKeepsPort, Spawned, PortMoved, KeyFollows
  <2>4. UnchangedIsSaved'
    BY <1>21 DEF SpawnKeepsPort, Spawned, PortMoved, Typed, Configs, UnchangedIsSaved
  <2>5. ListeningKnown'
    BY <1>21 DEF SpawnKeepsPort, Spawned, PortMoved, UnchangedIsSaved, Typed, Configs, ListeningKnown
  <2> QED BY <2>1, <2>2, <2>3, <2>4, <2>5
<1>22. ASSUME SpawnSaves PROVE IInv'
  <2>1. Typed'
    BY <1>22 DEF SpawnSaves, Spawned, PortMoved, AllStarted, Typed, Configs
  <2>2. HashKept' /\ HashKnown' /\ DiskKnown'
    BY <1>22 DEF SpawnSaves, Spawned, PortMoved, AllStarted, UnchangedIsSaved, Typed, Configs, HashKept, HashKnown, DiskKnown
  <2>3. KeyFollows'
    BY <1>22 DEF SpawnSaves, Spawned, PortMoved, AllStarted, KeyFollows
  <2>4. UnchangedIsSaved'
    BY <1>22 DEF SpawnSaves, Spawned, PortMoved, AllStarted, Typed, Configs, UnchangedIsSaved
  <2>5. ListeningKnown'
    BY <1>22 DEF SpawnSaves, Spawned, PortMoved, AllStarted, UnchangedIsSaved, Typed, Configs, ListeningKnown
  <2> QED BY <2>1, <2>2, <2>3, <2>4, <2>5
<1>23. ASSUME SpawnStops PROVE IInv'
  <2>1. Typed'
    BY <1>23 DEF SpawnStops, Spawned, PortMoved, Typed, Configs
  <2>2. HashKept' /\ HashKnown' /\ DiskKnown'
    BY <1>23 DEF SpawnStops, Spawned, PortMoved, UnchangedIsSaved, Typed, Configs, HashKept, HashKnown, DiskKnown
  <2>3. KeyFollows'
    BY <1>23 DEF SpawnStops, Spawned, PortMoved, KeyFollows
  <2>4. UnchangedIsSaved'
    BY <1>23 DEF SpawnStops, Spawned, PortMoved, Typed, Configs, UnchangedIsSaved
  <2>5. ListeningKnown'
    BY <1>23 DEF SpawnStops, Spawned, PortMoved, UnchangedIsSaved, Typed, Configs, ListeningKnown
  <2> QED BY <2>1, <2>2, <2>3, <2>4, <2>5
<1>16. CASE UNCHANGED vars
  BY <1>16 DEF vars, Typed, HashKept, HashKnown, DiskKnown, KeyFollows, UnchangedIsSaved, ListeningKnown
<1> QED
  BY <1>1, <1>2, <1>3, <1>4, <1>5, <1>6, <1>7, <1>8, <1>9, <1>10, <1>11, <1>12, <1>13, <1>14, <1>15, <1>16,
     <1>17, <1>18, <1>19, <1>20, <1>21, <1>22, <1>23 DEF Next

-----------------------------------------------------------------------------
THEOREM Inductive == Spec => []IInv
  BY InitHolds, NextHolds, PTL DEF Spec

\* Nobody is locked out by a start that is cut off, whatever was on disk before.
THEOREM KnownPasswordHolds == Spec => []KnownPassword
<1>1. IInv => KnownPassword
  BY DEF IInv, DiskKnown, KnownPassword
<1> QED
  BY <1>1, Inductive, PTL

\* A program that runs has the key of its certificate.
THEOREM IdentityMatchesHolds == Spec => []IdentityMatches
<1>1. IInv => IdentityMatches
  BY DEF IInv, KeyFollows, IdentityMatches
<1> QED
  BY <1>1, Inductive, PTL

\* What runs is what the next start loads.
THEOREM RunsAsSavedHolds == Spec => []RunsAsSaved
<1>1. IInv => RunsAsSaved
  BY DEF IInv, UnchangedIsSaved, ListeningKnown, RunsAsSaved
<1> QED
  BY <1>1, Inductive, PTL

-----------------------------------------------------------------------------
(* What is saved once stays: the steps of a start, which lie between the reading of the *)
(* file and its replacement, never lose what they have read.                            *)

BeforeSave == {"secret", "identity", "key", "check", "save"}

\* A token that is on disk is the one in memory; a port that is on disk is too, and is
\* not for this start to draw again.
DiskKept ==
  pc \in BeforeSave =>
    /\ disk.token # None => cfg.token = disk.token
    /\ disk.port # 0 => cfg.port = disk.port /\ ~newly

LEMMA StartKeeps ==
  ASSUME IInv, Start
  PROVE  DiskKept'
<1>1. PICK n \in Numbers, p \in Ports :
        LET c == Loaded(n)
        IN  /\ p \in IF c.port = 0 THEN Available ELSE {c.port}
            /\ cfg' = Migrated(c, n, p)
            /\ newly' = (c.port = 0)
  BY DEF Start
<1>2. disk' = disk
  BY DEF Start, files
<1>3. CASE disk = NoFile
  BY <1>2, <1>3 DEF NoFile, DiskKept
<1>4. CASE disk # NoFile
  <2>1. Loaded(n) = disk
    BY <1>4 DEF Loaded
  <2>2. disk.port # 0 => p = disk.port /\ ~newly'
    BY <1>1, <2>1
  <2>3. cfg'.port = p /\ (disk.token # None => cfg'.token = disk.token)
    BY <1>1, <2>1 DEF Migrated
  <2> QED
    BY <1>2, <2>2, <2>3 DEF DiskKept
<1> QED
  BY <1>3, <1>4

LEMMA NextKeeps == IInv /\ DiskKept /\ [Next]_vars => DiskKept'
<1> SUFFICES ASSUME IInv, DiskKept, [Next]_vars
             PROVE  DiskKept'
  OBVIOUS
<1> USE DEF BeforeSave
<1>1. CASE Start
  BY <1>1, StartKeeps
<1>2. CASE WriteSecret \/ IdentityPresent \/ WriteCert \/ WriteKey \/ CheckOk
  BY <1>2 DEF WriteSecret, IdentityPresent, WriteCert, WriteKey, CheckOk, files, memory, DiskKept
<1>3. CASE CheckRetry
  \* A port is drawn again only where none was on disk.
  <2>1. disk.port = 0 /\ disk' = disk
    BY <1>3 DEF CheckRetry, files, DiskKept
  <2>2. \E p \in Available : cfg' = [cfg EXCEPT !.port = p]
    BY <1>3 DEF CheckRetry
  <2>3. cfg'.token = cfg.token
    BY <2>2 DEF IInv, Typed, Configs
  <2> QED
    BY <1>3, <2>1, <2>3 DEF CheckRetry, DiskKept
<1>4. CASE \/ CheckFails \/ Save \/ LoadIdentity \/ ChangePassword \/ Crash
           \/ SpawnFixed \/ SpawnAuto \/ SpawnRedraws \/ SpawnAutoFails
           \/ SpawnKeepsPort \/ SpawnSaves \/ SpawnStops
  <2>1. pc' \notin BeforeSave
    BY <1>4 DEF CheckFails, Save, LoadIdentity, ChangePassword, Crash, Down, Spawning, Spawned,
       SpawnFixed, SpawnAuto, SpawnRedraws, SpawnAutoFails, SpawnKeepsPort, SpawnSaves, SpawnStops
  <2> QED
    BY <2>1 DEF DiskKept
<1>5. CASE RemoveSecret \/ \E p \in Ports : Grab(p) \/ Release(p)
  BY <1>5 DEF RemoveSecret, Grab, Release, files, memory, DiskKept
<1>6. CASE UNCHANGED vars
  BY <1>6 DEF vars, files, memory, DiskKept
<1> QED
  BY <1>1, <1>2, <1>3, <1>4, <1>5, <1>6 DEF Next

KeptStep ==
  /\ Complete => /\ disk'.token = disk.token /\ disk'.hash \in {disk.hash, Own}
                 /\ disk'.port # disk.port => {Fixed, disk'.port} \subseteq listening
  /\ None \notin {cert, key} => cert' = cert /\ key' = key

\* The three actions that write the configuration, and the three that write the identity.
LEMMA StepKeeps == IInv /\ DiskKept /\ [Next]_vars => KeptStep
<1> SUFFICES ASSUME IInv, DiskKept, [Next]_vars
             PROVE  KeptStep
  OBVIOUS
<1>1. CASE Save
  <2>1. disk' = cfg /\ cert' = cert /\ key' = key /\ pc = "save"
    BY <1>1 DEF Save
  <2>2. Complete => cfg.token = disk.token /\ cfg.port = disk.port /\ cfg.hash = disk.hash
    BY <2>1 DEF Complete, DiskKept, BeforeSave, IInv, HashKept, Started
  <2> QED
    BY <2>1, <2>2 DEF KeptStep
<1>2. CASE ChangePassword
  <2>1. cfg = disk /\ disk' = [cfg EXCEPT !.hash = Own] /\ cert' = cert /\ key' = key
    BY <1>2 DEF ChangePassword, IInv, UnchangedIsSaved
  <2>2. disk'.token = disk.token /\ disk'.port = disk.port /\ disk'.hash = Own
    BY <2>1 DEF IInv, Typed, Configs
  <2> QED
    BY <2>1, <2>2 DEF KeptStep
<1>3. CASE WriteCert \/ WriteKey \/ Crash
  <2>1. disk' = disk
    BY <1>3 DEF WriteCert, WriteKey, Crash
  <2>2. None \notin {cert, key} => cert' = cert /\ key' = key
    BY <1>3 DEF WriteCert, WriteKey, Crash, IdentityMissing, IInv, KeyFollows
  <2> QED
    BY <2>1, <2>2 DEF KeptStep
<1>4. CASE UNCHANGED <<disk, cert, key>>
  BY <1>4 DEF KeptStep
<1>5. CASE SpawnSaves
  <2>1. /\ cfg = disk /\ disk' = [cfg EXCEPT !.port = working]
        /\ cert' = cert /\ key' = key /\ listening = {Fixed, working}
    BY <1>5 DEF SpawnSaves, Spawned, AllStarted, IInv, UnchangedIsSaved
  <2>2. disk'.token = disk.token /\ disk'.hash = disk.hash /\ disk'.port = working
    BY <2>1 DEF IInv, Typed, Configs
  <2> QED
    BY <2>1, <2>2 DEF KeptStep
<1>6. CASE \/ Start \/ WriteSecret \/ IdentityPresent \/ CheckOk \/ CheckRetry \/ CheckFails
           \/ SpawnFixed \/ SpawnAuto \/ SpawnRedraws \/ SpawnAutoFails
           \/ SpawnKeepsPort \/ SpawnStops
           \/ LoadIdentity \/ RemoveSecret \/ (\E p \in Ports : Grab(p) \/ Release(p))
           \/ UNCHANGED vars
  BY <1>4, <1>6 DEF Start, WriteSecret, IdentityPresent, CheckOk, CheckRetry, CheckFails,
     SpawnFixed, SpawnAuto, SpawnRedraws, SpawnAutoFails, SpawnKeepsPort, SpawnStops,
     LoadIdentity, RemoveSecret, Grab, Release, vars, files
<1> QED
  BY <1>1, <1>2, <1>3, <1>5, <1>6 DEF Next

LEMMA InitKeeps == Init => DiskKept
  BY DEF Init, DiskKept, BeforeSave

\* Token, password and identity stay, for any number of starts, crashes and ports taken by
\* others, and a saved port is replaced by spawn_all alone, where every inbound listens.
THEOREM KeptHolds == Spec => Kept
<1>1. IInv /\ DiskKept /\ [Next]_vars => [KeptStep]_vars
  BY StepKeeps
<1> QED
  BY <1>1, Inductive, InitKeeps, NextKeeps, PTL DEF Spec, Kept, KeptStep
=============================================================================
