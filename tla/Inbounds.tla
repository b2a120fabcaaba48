------------------------------ MODULE Inbounds ------------------------------
(***************************************************************************)
(* The pure part of config.rs: what an inbound is, which port it really    *)
(* uses, when a list of inbounds is valid, and how missing or contested    *)
(* automatic ports are chosen.                                             *)
(*                                                                         *)
(* A "tag" stands for everything in an InboundConfig that the properties   *)
(* do not tell apart (uuid, password, sni, ...): InvalidTags are contents  *)
(* that validate refuses, DeafTags contents that validate accepts and      *)
(* start_inbound refuses for a reason other than a busy address (an        *)
(* unusable listen address), TunnelTags contents that are served through a *)
(* Cloudflare quick tunnel.  All inbounds listen on one address, so a      *)
(* socket is a transport and a port.                                       *)
(***************************************************************************)
EXTENDS Naturals, Sequences, SequencesExt

CONSTANTS Names,        \* inbound names
          Ports,        \* port numbers in play
          Tags,         \* the remaining contents of an inbound
          InvalidTags,
          DeafTags,
          TunnelTags,
          Hosts,        \* host names a quick tunnel may be given
          None          \* Option::None

ASSUME PortsAssumption == Ports \subseteq Nat \ {0}
ASSUME NoneAssumption  == None \notin Nat /\ None \notin Names /\ None \notin BOOLEAN \X Nat
ASSUME TagsAssumption  == InvalidTags \subseteq Tags /\ DeafTags \subseteq Tags

Inbound == [name     : Names,
            udp      : BOOLEAN,                 \* TRUE for TUIC
            port     : Ports \cup {0},          \* 0 asks for an automatic port
            assigned : Ports \cup {0, None},
            tag      : Tags,
            host     : Hosts \cup {None}]

InboundList == Seq(Inbound)

EffectivePort(inb) == IF inb.assigned # None THEN inb.assigned ELSE inb.port

Socket(inb) == <<inb.udp, EffectivePort(inb)>>

Sockets == BOOLEAN \X Ports

HasName(s, n) == \E i \in DOMAIN s : s[i].name = n

\* Position of the inbound called n: the first one in the code, the only one in
\* every list it is applied to (StoredChecked of NodeCommit).
InboundIndex(s, n) == CHOOSE i \in DOMAIN s : s[i].name = n

DistinctNames(s)   == \A i, j \in DOMAIN s : s[i].name = s[j].name => i = j
DistinctSockets(s) == \A i, j \in DOMAIN s : Socket(s[i]) = Socket(s[j]) => i = j

Valid(s) ==
  /\ DistinctNames(s)
  /\ DistinctSockets(s)
  /\ \A i \in DOMAIN s : EffectivePort(s[i]) # 0 /\ s[i].tag \notin InvalidTags

Missing(s) == {i \in DOMAIN s : s[i].port = 0 /\ s[i].assigned = None}

\* Sockets of the inbounds at the positions in I.
Claimed(s, I) == {Socket(s[i]) : i \in I}

\* The results of assign_missing_ports when the sockets in free can be bound:
\* every missing port becomes one that is free and that no other inbound uses.
Assignments(s, free) ==
  LET open   == free \ Claimed(s, DOMAIN s)
      choice == {f \in [Missing(s) -> Ports] :
                   /\ \A i \in Missing(s) : <<s[i].udp, f[i]>> \in open
                   /\ \A i, j \in Missing(s) :
                        s[i].udp = s[j].udp /\ f[i] = f[j] => i = j}
  IN  {[i \in DOMAIN s |-> IF i \in Missing(s) THEN [s[i] EXCEPT !.assigned = f[i]]
                                               ELSE s[i]] : f \in choice}

\* The results of reassign_auto_port for the inbound at position i.
Reassignments(s, i, free) ==
  {[s EXCEPT ![i].assigned = p] :
     p \in {q \in Ports : <<s[i].udp, q>> \in free \ Claimed(s, DOMAIN s \ {i})}}

\* Copy the assigned ports of the inbounds in w onto the inbounds of s that
\* have the same name.
MergePorts(s, w) ==
  [i \in DOMAIN s |->
     IF HasName(w, s[i].name)
     THEN [s[i] EXCEPT !.assigned = w[InboundIndex(w, s[i].name)].assigned]
     ELSE s[i]]

\* Two inbounds that one process cannot bind at the same time.
SameSocket(a, b) == Socket(a) = Socket(b)
=============================================================================
