------------------------------ MODULE MCDaemon -------------------------------
(* Two sessions, two names and one or two connections: enough for a name to*)
(* change hands between two holds of the registry lock, and for a client to*)
(* switch between sessions of which either is ending.  The name n2 is      *)
(* declared at boot (MCBootDeclared) or by a reload (MCDeclared).          *)
EXTENDS Daemon, TLC

CONSTANTS s1, s2, n1, n2, c1, c2

MCSessions      == {s1, s2}
MCNames         == {n1, n2}
MCConns         == {c1, c2}
MCOneConn       == {c1}
MCBootDeclared  == 0 :> {n2}
MCDeclared      == 0 :> {} @@ 1 :> {n2}

MCSymmetry      == Permutations(MCSessions) \cup Permutations(MCConns)
=============================================================================
