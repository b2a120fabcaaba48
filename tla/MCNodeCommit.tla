---------------------------- MODULE MCNodeCommit ----------------------------
(* Small instances of NodeCommit for TLC. *)
EXTENDS AdminRefinement

CONSTANTS r1, r2, a, b, good, other, invalid, deaf, tunnel, h1

MCPorts == 1 .. 3

Node(n, udp, port, tag) ==
  [name |-> n, udp |-> udp, port |-> port, assigned |-> None, tag |-> tag, host |-> None]

\* One inbound, on automatic port 1.
MCInit(udp, tag) ==
  [inbounds |-> << [Node(a, udp, 0, tag) EXCEPT !.assigned = 1] >>,
   sub |-> Main, acct |-> Main]

InitTcp    == MCInit(FALSE, good)
InitUdp    == MCInit(TRUE, good)
InitTunnel == MCInit(FALSE, tunnel)
InitFixed  == [InitUdp EXCEPT !.inbounds = << Node(a, TRUE, 1, good) >>]

Add(node)       == [kind |-> "add", node |-> node]
Update(n, node) == [kind |-> "update", name |-> n, node |-> node]
Delete(n)       == [kind |-> "delete", name |-> n]
Regen           == [kind |-> "regenerate"]
Account         == [kind |-> "account", old |-> Main]

\* Every handler, with a request of each kind the checks tell apart: new node on
\* an automatic or a fixed port or with refused contents, change of contents on the
\* same socket, change of transport and port, wrong names.
AllOps == {Add(Node(b, FALSE, 0, good)), Add(Node(b, FALSE, 2, good)),
           Add(Node(b, FALSE, 2, invalid)), Add(Node(b, FALSE, 2, deaf)),
           Update(a, Node(b, FALSE, 1, other)), Update(a, Node(a, TRUE, 2, good)),
           Update(b, Node(b, FALSE, 3, good)), Update(a, Node(a, FALSE, 0, deaf)),
           Delete(a), Delete(b), Regen, Account}

\* Operations for the runs in which two requests overlap.
OverlapOps == {Add(Node(b, FALSE, 0, good)), Add(Node(b, FALSE, 2, good)),
               Update(a, Node(a, FALSE, 1, other))}

\* The requests are interchangeable where only safety is checked.
Symmetry == Permutations(Reqs)

Socket2 == {<<FALSE, 2>>}
UdpSocket2 == {<<TRUE, 2>>}
TcpSocks == {FALSE} \X MCPorts
ClientSock == {<<TRUE, 1>>}
=============================================================================
