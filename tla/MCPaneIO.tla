------------------------------- MODULE MCPaneIO --------------------------------
(* What goes on around one pane, in three parts that share no state: its   *)
(* input, its pipes and the exec requests.  A behaviour is one of one part;*)
(* the others stay in their initial state, where none of their fair actions*)
(* is enabled.                                                             *)
EXTENDS PaneInput, PanePipe, Exec

VARIABLE part

AllVars == <<part, inputVars, pipeVars, allExecVars>>

MCInit ==
  /\ part \in {"input", "pipe", "exec"}
  /\ InputInit /\ PipeInit /\ ExecInit
  /\ part # "exec" => prompt = "at"

MCNext ==
  /\ UNCHANGED part
  /\ \/ part = "input" /\ InputNext /\ UNCHANGED <<pipeVars, allExecVars>>
     \/ part = "pipe"  /\ PipeNext  /\ UNCHANGED <<inputVars, allExecVars>>
     \/ part = "exec"  /\ ExecNext  /\ UNCHANGED <<inputVars, pipeVars>>

MCSpec ==
  /\ MCInit /\ [][MCNext]_AllVars
  /\ InputFairness /\ NoneIgnoresInput /\ PipeFairness /\ ExecFairness

(* The variables of the three parts are of their types (a pane's input     *)
(* queue, pipes and exec requests: InputTypeOK, PipeTypeOK, ExecTypeOK).   *)
PaneIOTypeOK == InputTypeOK /\ PipeTypeOK /\ ExecTypeOK
===============================================================================
