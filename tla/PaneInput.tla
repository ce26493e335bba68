------------------------------- MODULE PaneInput -------------------------------
(***************************************************************************)
(* Input on its way to the children of one session: the tasks that send to *)
(* the panes' bounded input queues, some of them with the window-manager   *)
(* lock in hand, the writer and reader threads of each pane, and the tasks *)
(* that must get that lock in between: the coordinator for its frames, and *)
(* terminate_panes for a kill.  Queues are counted, not filled with bytes. *)
(***************************************************************************)
EXTENDS Naturals, Sequences, FiniteSets

CONSTANTS
  Tasks,      \* connections and exec requests that send input
  Panes,
  QueueCap,   \* 64 in the code
  Nobody

ASSUME InputAssumption ==
  QueueCap \in Nat \ {0} /\ Nobody \notin Tasks /\ IsFiniteSet(Panes)

VARIABLES
  lock,       \* the task that holds the window-manager lock across an await
  out,        \* the panes each task still has to send to, in order
  queue,      \* chunks in each pane's input channel
  writer,     \* writer thread: idle, writing a chunk to the PTY, gone
  child,      \* busy with its own work, blocked in an output, killed, gone
  waiting     \* for the lock: nobody, a frame, a kill; ended: killed

inputVars == <<lock, out, queue, writer, child, waiting>>

InputInit ==
  /\ lock   = Nobody
  /\ out    = [t \in Tasks |-> <<>>]
  /\ queue  = [p \in Panes |-> 0]
  /\ writer = [p \in Panes |-> "idle"]
  /\ child  = [p \in Panes |-> "busy"]
  /\ waiting = "nobody"

paneVars   == <<queue, writer, child>>
senderVars == <<lock, out>>

(* One pane, or several without repetition.                                *)
Targets == {ps \in UNION {[1 .. n -> Panes] : n \in 1 .. Cardinality(Panes)} :
              \A i, j \in DOMAIN ps : ps[i] = ps[j] => i = j}

-----------------------------------------------------------------------------
(* A key, a paste, a focus report, a colour scheme, an exec: the panes are *)
(* looked up under the lock, the sends come after it is released.          *)
Resolve(t, ps) ==
  /\ lock = Nobody /\ out[t] = <<>>
  /\ out' = [out EXCEPT ![t] = ps]
  /\ UNCHANGED <<lock, paneVars, waiting>>

(* A focus transition (two panes), a mouse report, an arrow burst: the lock*)
(* is kept until the last send is through.                                 *)
ResolveLocked(t, ps) ==
  /\ lock = Nobody /\ out[t] = <<>> /\ Len(ps) <= 2
  /\ out'  = [out EXCEPT ![t] = ps]
  /\ lock' = t
  /\ UNCHANGED <<paneVars, waiting>>

(* Mutant: the lock outlives the last send.                                *)
SendKeepsLock(t) ==
  /\ out[t] # <<>>
  /\ LET p == Head(out[t]) IN
       /\ writer[p] # "gone" => queue[p] < QueueCap
       /\ queue' = [queue EXCEPT ![p] = IF writer[p] = "gone" THEN @ ELSE @ + 1]
  /\ out'  = [out EXCEPT ![t] = Tail(@)]
  /\ UNCHANGED <<lock, writer, child, waiting>>

(* Pane::send_input returns: the chunk is in the queue, or the channel is  *)
(* closed because the writer thread has dropped the receiver.              *)
Send(t) ==
  /\ out[t] # <<>>
  /\ LET p == Head(out[t]) IN
       \/ /\ writer[p] # "gone" /\ queue[p] < QueueCap
          /\ queue' = [queue EXCEPT ![p] = @ + 1]
       \/ /\ writer[p] = "gone"
          /\ UNCHANGED queue
  /\ out'  = [out EXCEPT ![t] = Tail(@)]
  /\ lock' = IF lock = t /\ Len(out[t]) = 1 THEN Nobody ELSE lock
  /\ UNCHANGED <<writer, child, waiting>>

-----------------------------------------------------------------------------
(* The writer thread: blocking_recv, then write_all and flush.             *)
WriterTakes(p) ==
  /\ writer[p] = "idle" /\ queue[p] > 0
  /\ writer' = [writer EXCEPT ![p] = "writing"]
  /\ queue'  = [queue EXCEPT ![p] = @ - 1]
  /\ UNCHANGED <<child, senderVars, waiting>>

(* The write goes through once the child has read enough of what came      *)
(* before, which it does when it likes.                                    *)
ChildReads(p) ==
  /\ child[p] \in {"busy", "killed"} /\ writer[p] = "writing"
  /\ writer' = [writer EXCEPT ![p] = "idle"]
  /\ UNCHANGED <<queue, child, senderVars, waiting>>

(* Mutant: a failed write is logged and the thread goes on to wait for     *)
(* nothing, with the receiver in hand.                                     *)
WriteFailsQuietly(p) ==
  /\ writer[p] = "writing" /\ child[p] = "gone"
  /\ UNCHANGED <<queue, writer, child, senderVars, waiting>>

(* The terminal is closed: the write fails and the thread returns, which   *)
(* drops the receiver with what is in the queue.                           *)
WriteFails(p) ==
  /\ writer[p] = "writing" /\ child[p] = "gone"
  /\ writer' = [writer EXCEPT ![p] = "gone"]
  /\ queue'  = [queue EXCEPT ![p] = 0]
  /\ UNCHANGED <<child, senderVars, waiting>>

(* The child prints, and waits until there is room in the terminal.        *)
ChildPrints(p) ==
  /\ child[p] = "busy"
  /\ child' = [child EXCEPT ![p] = "printing"]
  /\ UNCHANGED <<queue, writer, senderVars, waiting>>

(* The reader thread takes the output.  A query in it is answered through  *)
(* the input queue with try_send: the answer is dropped when that is full. *)
ReaderReads(p) ==
  /\ child[p] = "printing"
  /\ child' = [child EXCEPT ![p] = "busy"]
  /\ \/ UNCHANGED queue
     \/ /\ writer[p] # "gone" /\ queue[p] < QueueCap
        /\ queue' = [queue EXCEPT ![p] = @ + 1]
  /\ UNCHANGED <<writer, senderVars, waiting>>

(* The child, and whoever else has the terminal open, ends.                *)
ChildGone(p) ==
  /\ child[p] # "gone"
  /\ child' = [child EXCEPT ![p] = "gone"]
  /\ UNCHANGED <<queue, writer, senderVars, waiting>>

-----------------------------------------------------------------------------
Wait(for) ==
  /\ waiting = "nobody" /\ waiting' = for
  /\ UNCHANGED <<senderVars, paneVars>>

(* render_coordinator composes, under the lock.                            *)
FrameDone ==
  /\ lock = Nobody
  /\ waiting = "frame" /\ waiting' = "nobody"
  /\ UNCHANGED <<senderVars, paneVars>>

(* terminate_panes signals every child, under the lock.                    *)
TerminatePanes ==
  /\ lock = Nobody
  /\ waiting = "kill" /\ waiting' = "ended"
  /\ child' = [p \in Panes |-> IF child[p] = "gone" THEN "gone" ELSE "killed"]
  /\ UNCHANGED <<senderVars, queue, writer>>

-----------------------------------------------------------------------------
InputNext ==
  \/ \E t \in Tasks :
       \/ \E ps \in Targets : Resolve(t, ps) \/ ResolveLocked(t, ps)
       \/ Send(t)
  \/ \E p \in Panes :
       \/ WriterTakes(p) \/ WriteFails(p) \/ ReaderReads(p)
       \/ ChildReads(p) \/ ChildPrints(p) \/ ChildGone(p)
  \/ \E for \in {"frame", "kill"} : Wait(for)
  \/ FrameDone \/ TerminatePanes

(* The runtime and the threads run.  The mutex and the channel's permits   *)
(* are handed out in order of arrival (tokio): strong fairness.            *)
InputFairness ==
  /\ \A t \in Tasks : SF_inputVars(Send(t))
  /\ \A p \in Panes :
       /\ WF_inputVars(WriterTakes(p))
       /\ WF_inputVars(WriteFails(p))
       /\ WF_inputVars(ReaderReads(p))
       /\ WF_inputVars(child[p] = "killed" /\ ChildGone(p))
  /\ SF_inputVars(FrameDone \/ TerminatePanes)

(* What is assumed of the programs in the panes: none ignores its input for*)
(* good while it is full, when it could read again and again because it is *)
(* not blocked in an output.  Without this the lock may never come free.   *)
NoneIgnoresInput ==
  \A p \in Panes : SF_inputVars(queue[p] = QueueCap /\ ChildReads(p))

InputSpec ==
  InputInit /\ [][InputNext]_inputVars /\ InputFairness /\ NoneIgnoresInput

-----------------------------------------------------------------------------
(* Queues stay within their bound, and whoever holds the lock across an    *)
(* await is sending.                                                       *)
InputTypeOK ==
  /\ lock   \in Tasks \cup {Nobody}
  /\ \A t \in Tasks : out[t] \in Targets \cup {<<>>}
  /\ queue  \in [Panes -> 0 .. QueueCap]
  /\ writer \in [Panes -> {"idle", "writing", "gone"}]
  /\ child  \in [Panes -> {"busy", "printing", "killed", "gone"}]
  /\ waiting \in {"nobody", "frame", "kill", "ended"}
  /\ lock # Nobody => out[lock] # <<>>

(* Every frame that is due is composed and a kill reaches the children,    *)
(* although mouse reports and focus events are sent with the lock in hand, *)
(* and no sender waits for ever: a child blocked in its own output, a pane *)
(* that dies with senders waiting, and a reader with answers to give are no*)
(* reason to; only a child that ignores its input is (NoneIgnoresInput).   *)
(* (session/mod.rs synthesize_focus_transition, window_manager/mouse.rs    *)
(* forward_mouse_to_pane, pane.rs send_input and reader thread)            *)
InputFlows ==
  /\ waiting \in {"frame", "kill"} ~> waiting \in {"nobody", "ended"}
  /\ \A t \in Tasks : out[t] # <<>> ~> out[t] = <<>>
=============================================================================
