------------------------------- MODULE ClientIO -------------------------------
(***************************************************************************)
(* What a client sends and what it shares, in three parts that have no     *)
(* state in common: the size and flags of its session, its bytes on their  *)
(* way to events, and the layout its commands and drags change.  A         *)
(* behaviour is one of one part; the others stay in an initial state.      *)
(***************************************************************************)
EXTENDS ClientView, InputRouter, Layout

VARIABLE part

ioVars == <<part, viewVars, routerVars, layoutVars>>

IOInit ==
  /\ part \in {"view", "input", "layout"}
  /\ ViewInit /\ RouterInit /\ LayoutInit
  /\ part # "view" => host = Min(Sizes)
  /\ part # "layout" => \A v \in Views : view[1] <= v[1]

IONext ==
  /\ UNCHANGED part
  /\ \/ part = "view"   /\ ViewNext   /\ UNCHANGED <<routerVars, layoutVars>>
     \/ part = "input"  /\ RouterNext /\ UNCHANGED <<viewVars, layoutVars>>
     \/ part = "layout" /\ LayoutNext /\ UNCHANGED <<viewVars, routerVars>>

IOSpec == IOInit /\ [][IONext]_ioVars

(* The variables of the three parts are of their types (the daemon side of *)
(* one client: ViewTypeOK, RouterTypeOK, LayoutTypeOK).                    *)
ClientIOTypeOK == ViewTypeOK /\ RouterTypeOK /\ LayoutTypeOK
===============================================================================
