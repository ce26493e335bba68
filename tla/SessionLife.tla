---------------------------- MODULE SessionLife ------------------------------
(***************************************************************************)
(* What a session promises to the rest of the daemon, with its panes,      *)
(* tasks and wake-ups left out: it is live, then something dooms it (it is *)
(* closed, its last window goes, a core task panics), it is marked closing *)
(* so that nobody new is let in, and it is over once its frame channel is  *)
(* dropped and every renderer bound to it is released.  Session implements *)
(* this; Daemon is built on it.                                            *)
(***************************************************************************)
CONSTANT Sessions

VARIABLES
  phase,    \* none, live, doomed, over
  closing   \* Session::closing

lifeVars == <<phase, closing>>

LifeInit ==
  /\ phase   = [s \in Sessions |-> "none"]
  /\ closing = [s \in Sessions |-> FALSE]

Born(s) ==
  /\ phase[s] = "none"
  /\ phase' = [phase EXCEPT ![s] = "live"]
  /\ UNCHANGED closing

(* The last pane goes, or the death consumer panics: nobody outside sees it*)
Doom(s) ==
  /\ phase[s] = "live"
  /\ phase' = [phase EXCEPT ![s] = "doomed"]
  /\ UNCHANGED closing

(* closing is stored: by a kill, by the coordinator of an empty session, or*)
(* by the supervisor of a panicked task.                                   *)
Close(s) ==
  /\ phase[s] # "none"
  /\ closing' = [closing EXCEPT ![s] = TRUE]
  /\ phase'   = [phase EXCEPT ![s] = IF @ = "live" THEN "doomed" ELSE @]

(* The coordinator returns.                                                *)
End(s) ==
  /\ phase[s] = "doomed" /\ closing[s]
  /\ phase' = [phase EXCEPT ![s] = "over"]
  /\ UNCHANGED closing

(* The coordinator panics: over, and not even marked closing yet.          *)
Break(s) ==
  /\ phase[s] \in {"live", "doomed"}
  /\ phase' = [phase EXCEPT ![s] = "over"]
  /\ UNCHANGED closing

(* What the session does by itself once it is doomed.                      *)
WindDown(s) == End(s) \/ (phase[s] \in {"doomed", "over"} /\ ~closing[s] /\ Close(s))

LifeNext == \E s \in Sessions : Born(s) \/ Doom(s) \/ Close(s) \/ End(s) \/ Break(s)

LifeSpec == LifeInit /\ [][LifeNext]_lifeVars

(* A doomed session goes on until it is over and marked closing.           *)
LifeFairness == \A s \in Sessions : WF_lifeVars(WindDown(s))
=============================================================================
