------------------------------ MODULE MCSession ------------------------------
(* One session and two tasks that run commands on it.  With two pane ids a *)
(* pane can be split off, killed or respawned while the other lives, and   *)
(* the id of a dead pane comes back.                                       *)
EXTENDS Session, TLC

CONSTANTS s1, p1, p2, c1, c2

MCSessions   == {s1}
MCPanes      == {p1, p2}
MCClients    == {c1, c2}
=============================================================================
