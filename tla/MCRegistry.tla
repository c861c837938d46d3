----------------------------- MODULE MCRegistry -----------------------------
EXTENDS Registry, TLC

CONSTANTS ip1, ip2, k1, k2, s1, s2, n1, c1, c2

M(transport, claims, ip, port, sid) ==
    [transport |-> transport, claims |-> claims, ip |-> ip, port |-> port, sid |-> sid]

(* A TCP client, a UDP client of the other address, and messages of either *)
(* pinned to a session by name.                                            *)
MCMessages == {M("tcp", "", ip1, 1, None),
               M("udp", "", ip2, 1, None),
               M("http", "tcp", ip1, 2, n1),
               M("http", "tcp", ip2, 2, n1)}

MCSids == {s1, s2, n1}

(* For two REST calls at a time: a keyed session and a named one that both *)
(* addresses send to.                                                      *)
MCShared == {M("tcp", "", ip1, 1, None), M("http", "tcp", ip2, 2, n1),
             M("http", "tcp", ip1, 2, n1)}

(* Two TCP connections of one address, and the other address pinned to a   *)
(* session.                                                                *)
MCTwoStreams == {M("tcp", "", ip1, 1, None), M("tcp", "", ip1, 2, None),
                 M("udp", "", ip2, 1, n1)}

CallerSymmetry == Permutations({c1, c2})
=============================================================================
