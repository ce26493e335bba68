------------------------------- MODULE PanePipe -------------------------------
(***************************************************************************)
(* pipe-pane: the pipes of one pane, each a consumer process and a drain   *)
(* task that forwards the pane's output to it, and the slot of the pane    *)
(* that says which pipe is running.  Pipes are started, replaced and       *)
(* stopped by commands, and ended by the pane's reader thread, by the kill *)
(* of the pane, by its removal, by a consumer that exits or is too slow,   *)
(* and by a panic of the drain.  Output is numbered chunk by chunk.        *)
(***************************************************************************)
EXTENDS Naturals, FiniteSets

CONSTANTS
  Pipes,      \* pipe ids (NEXT_PIPE_ID; every pipe has a fresh one)
  Capacity,   \* of the pane's output broadcast channel
  MaxOutput,  \* bound of the model: chunks of output
  NoPipe

ASSUME PipeAssumption ==
  /\ Capacity \in Nat \ {0} /\ MaxOutput \in Nat
  /\ NoPipe \notin Pipes

VARIABLES
  slot,       \* the pipe in the pane's slot
  phase,      \* where each pipe's drain task is
  cancel,     \* a reason is set in each pipe's cancel watch
  consumer,   \* each pipe's process: none, running, exited (a zombie), reaped
  full,       \* its standard input takes no more until it reads
  next,       \* the chunk each drain reads next
  got,        \* the last chunk each consumer was given
  sent,       \* chunks the reader has broadcast
  reader,     \* the reader thread: reading, ended
  held        \* the window manager holds the pane

pipeVars == <<slot, phase, cancel, consumer, full, next, got, sent, reader, held>>

Draining == {"wait", "write"}
Exiting  == {"kill", "reap", "clear"}

PipeInit ==
  /\ slot     = NoPipe
  /\ phase    = [i \in Pipes |-> "new"]
  /\ cancel   = [i \in Pipes |-> FALSE]
  /\ consumer = [i \in Pipes |-> "none"]
  /\ full     = [i \in Pipes |-> FALSE]
  /\ next     = [i \in Pipes |-> 0]
  /\ got      = [i \in Pipes |-> 0]
  /\ sent     = 0
  /\ reader   = "reading"
  /\ held     = TRUE

Goto(i, from, to) == phase[i] = from /\ phase' = [phase EXCEPT ![i] = to]

dataVars == <<full, next, got, sent>>
endVars == <<reader, held>>

-----------------------------------------------------------------------------
Cancelled(i) == IF i = NoPipe THEN cancel ELSE [cancel EXCEPT ![i] = TRUE]

CancelSlot == slot' = NoPipe /\ cancel' = Cancelled(slot)

(* No more than one chunk comes between a subscription and its install, far*)
(* less than the consumer's empty input takes.                             *)
Output ==
  /\ reader = "reading" /\ sent < MaxOutput
  /\ \A i \in Pipes : phase[i] = "starting" => next[i] > sent
  /\ sent' = sent + 1
  /\ UNCHANGED <<slot, phase, cancel, consumer, full, next, got, endVars>>

(* start_pipe spawns the consumer and subscribes to the output...  The     *)
(* window-manager lock is held, so there is one start at a time.           *)
Start(i) ==
  /\ held /\ \A j \in Pipes : phase[j] # "starting"
  /\ Goto(i, "new", "starting")
  /\ consumer' = [consumer EXCEPT ![i] = "running"]
  /\ next'     = [next EXCEPT ![i] = sent + 1]
  /\ got'      = [got EXCEPT ![i] = sent]
  /\ UNCHANGED <<slot, cancel, full, sent, endVars>>

(* Mutant: the predecessor is dropped from the slot but not cancelled.     *)
InstallOver(i) ==
  /\ Goto(i, "starting", "wait")
  /\ slot' = i
  /\ UNCHANGED <<cancel, consumer, dataVars, endVars>>

(* ... install_and_drain puts the handle into the slot, the reader running *)
(* meanwhile, and cancels the one it finds there.                          *)
Install(i) ==
  /\ Goto(i, "starting", "wait")
  /\ slot'   = i
  /\ cancel' = Cancelled(slot)
  /\ UNCHANGED <<consumer, dataVars, endVars>>

StopPipe ==
  /\ held /\ slot # NoPipe
  /\ CancelSlot
  /\ UNCHANGED <<phase, consumer, dataVars, endVars>>

(* Pane::kill_child; the child's end, and with it the reader's, follows.   *)
KillChild ==
  /\ held /\ slot # NoPipe
  /\ CancelSlot
  /\ UNCHANGED <<phase, consumer, dataVars, endVars>>

(* The reader thread sees the end of the output, an error, or panics.      *)
ReaderEnds ==
  /\ reader = "reading" /\ reader' = "ended"
  /\ CancelSlot
  /\ UNCHANGED <<phase, consumer, dataVars, held>>

(* The pane leaves the window manager: kill_child comes first, except for  *)
(* the popup that closes because its command has exited.                   *)
DropPane ==
  /\ held /\ held' = FALSE
  /\ \A i \in Pipes : phase[i] # "starting"
  /\ \/ CancelSlot
     \/ reader = "ended" /\ UNCHANGED <<slot, cancel>>
  /\ UNCHANGED <<phase, consumer, dataVars, reader>>

-----------------------------------------------------------------------------
(* The drain.  Its selects are biased: a cancel that is set comes first.   *)
DrainCancel(i) ==
  /\ phase[i] \in Draining /\ cancel[i]
  /\ phase' = [phase EXCEPT ![i] = "kill"]
  /\ UNCHANGED <<slot, cancel, consumer, dataVars, endVars>>

DrainChildExited(i) ==
  /\ Goto(i, "wait", "kill")
  /\ ~cancel[i] /\ consumer[i] = "exited"
  /\ UNCHANGED <<slot, cancel, consumer, dataVars, endVars>>

Lagged(i) == sent + 1 > next[i] + Capacity

(* Mutant: a drain that has fallen behind goes on with the oldest chunk.   *)
DrainReceiveOldest(i) ==
  /\ next[i] <= sent /\ ~cancel[i]
  /\ Goto(i, "wait", "write")
  /\ next' = [next EXCEPT ![i] = IF Lagged(i) THEN sent + 1 - Capacity ELSE @]
  /\ UNCHANGED <<slot, cancel, consumer, full, got, sent, endVars>>

DrainReceive(i) ==
  /\ next[i] <= sent /\ ~cancel[i]
  /\ Goto(i, "wait", IF Lagged(i) THEN "kill" ELSE "write")
  /\ UNCHANGED <<slot, cancel, consumer, dataVars, endVars>>

(* Both senders of the broadcast channel are gone: the reader's and the    *)
(* pane's own.                                                             *)
DrainClosed(i) ==
  /\ next[i] > sent /\ ~cancel[i]
  /\ reader = "ended" /\ ~held
  /\ Goto(i, "wait", "kill")
  /\ UNCHANGED <<slot, cancel, consumer, dataVars, endVars>>

(* The write is parked while the consumer's input is full.                 *)
DrainWritten(i) ==
  /\ Goto(i, "write", "wait")
  /\ ~cancel[i] /\ consumer[i] = "running" /\ ~full[i]
  /\ full' \in {full, [full EXCEPT ![i] = TRUE]}
  /\ got'  = [got EXCEPT ![i] = next[i]]
  /\ next' = [next EXCEPT ![i] = @ + 1]
  /\ UNCHANGED <<slot, cancel, consumer, sent, endVars>>

ConsumerReads(i) ==
  /\ full[i] /\ consumer[i] = "running"
  /\ full' = [full EXCEPT ![i] = FALSE]
  /\ UNCHANGED <<slot, phase, cancel, consumer, next, got, sent, endVars>>

DrainWriteFails(i) ==
  /\ Goto(i, "write", "kill")
  /\ ~cancel[i] /\ consumer[i] = "exited"
  /\ UNCHANGED <<slot, cancel, consumer, dataVars, endVars>>

(* The single exit path: kill, reap, clear the slot, report.               *)
ExitKill(i) ==
  /\ Goto(i, "kill", "reap")
  /\ consumer' = [consumer EXCEPT ![i] = "exited"]
  /\ UNCHANGED <<slot, cancel, dataVars, endVars>>

ExitReap(i) ==
  /\ Goto(i, "reap", "clear")
  /\ consumer' = [consumer EXCEPT ![i] = "reaped"]
  /\ UNCHANGED <<slot, cancel, dataVars, endVars>>

(* Mutant: the slot is cleared whoever is in it.                           *)
ExitClearAny(i) ==
  /\ Goto(i, "clear", "done")
  /\ slot' = NoPipe
  /\ UNCHANGED <<cancel, consumer, dataVars, endVars>>

ExitClear(i) ==
  /\ Goto(i, "clear", "done")
  /\ slot' = IF slot = i THEN NoPipe ELSE slot
  /\ UNCHANGED <<cancel, consumer, dataVars, endVars>>

(* The drain panics; its consumer lives on.                                *)
DrainPanics(i) ==
  /\ phase[i] \in Draining
  /\ phase' = [phase EXCEPT ![i] = "panicked"]
  /\ UNCHANGED <<slot, cancel, consumer, dataVars, endVars>>

(* force_close_after_drain_panic: kill by pid (the runtime reaps), clear.  *)
ForceClose(i) ==
  /\ Goto(i, "panicked", "done")
  /\ consumer' = [consumer EXCEPT ![i] = "reaped"]
  /\ slot' = IF slot = i THEN NoPipe ELSE slot
  /\ UNCHANGED <<cancel, dataVars, endVars>>

ConsumerExits(i) ==
  /\ consumer[i] = "running"
  /\ consumer' = [consumer EXCEPT ![i] = "exited"]
  /\ UNCHANGED <<slot, phase, cancel, dataVars, endVars>>

-----------------------------------------------------------------------------
DrainStep(i) ==
  \/ DrainCancel(i) \/ DrainChildExited(i) \/ DrainReceive(i) \/ DrainClosed(i)
  \/ DrainWritten(i) \/ DrainWriteFails(i)
  \/ ExitKill(i) \/ ExitReap(i) \/ ExitClear(i) \/ ForceClose(i)

PipeNext ==
  \/ Output \/ StopPipe \/ KillChild \/ ReaderEnds \/ DropPane
  \/ \E i \in Pipes :
       \/ Start(i) \/ Install(i)
       \/ DrainStep(i) \/ DrainPanics(i)
       \/ ConsumerReads(i) \/ ConsumerExits(i)

(* The runtime polls the drain and its supervisor; a pane whose reader has *)
(* ended is dropped by the death consumer.  A consumer need never read.    *)
PipeFairness ==
  /\ \A i \in Pipes : WF_pipeVars(Install(i)) /\ WF_pipeVars(DrainStep(i))
  /\ WF_pipeVars(reader = "ended" /\ DropPane)

PipeSpec == PipeInit /\ [][PipeNext]_pipeVars /\ PipeFairness

-----------------------------------------------------------------------------
(* Types, and what a pipe has at each place of its life: nothing before it *)
(* starts, a process it has not reaped until it reaches the slot again.    *)
PipeTypeOK ==
  /\ slot     \in Pipes \cup {NoPipe}
  /\ phase    \in [Pipes -> {"new", "starting", "panicked", "done"} \cup Draining \cup Exiting]
  /\ cancel   \in [Pipes -> BOOLEAN]
  /\ consumer \in [Pipes -> {"none", "running", "exited", "reaped"}]
  /\ full     \in [Pipes -> BOOLEAN]
  /\ next     \in [Pipes -> 0 .. MaxOutput + 1] /\ got \in [Pipes -> 0 .. MaxOutput]
  /\ sent     \in 0 .. MaxOutput
  /\ reader   \in {"reading", "ended"} /\ held \in BOOLEAN
  /\ \A i \in Pipes :
       /\ consumer[i] = "none"   <=> phase[i] = "new"
       /\ consumer[i] = "reaped" <=> phase[i] \in {"clear", "done"}

(* The slot and the running pipe agree.  A pipe that runs and that nobody  *)
(* has told to end is the one in the slot: it can be stopped, it will be   *)
(* told when the pane goes, and an older one on its way out has not thrown *)
(* it out of the slot.  And the slot never names a pipe that is over, so   *)
(* that the next pipe-pane without a command does not stop a pipe that is  *)
(* not there, nor does one that panicked stay in the way (pipe.rs, the     *)
(* clear at the drain's end and in force_close_after_drain_panic).         *)
SlotIsTheRunning ==
  /\ \A i \in Pipes : phase[i] \in Draining /\ ~cancel[i] => slot = i
  /\ slot # NoPipe => phase[slot] \notin {"new", "starting", "done"}

(* What a consumer is given is the output since it was started, chunk by   *)
(* chunk without a gap: a drain that fell behind closes instead.           *)
NoGap ==
  [][\A i \in Pipes :
       phase[i] # "new" => got'[i] \in {got[i], got[i] + 1}]_pipeVars

(* A consumer told to end, or whose pane is gone, is killed and reaped in  *)
(* the end, also when it never reads, when the drain has panicked, and when*)
(* the pipe was installed after the reader had already looked at the slot. *)
ConsumerIsReaped ==
  \A i \in Pipes :
    consumer[i] # "none" /\ (cancel[i] \/ ~held) ~> consumer[i] = "reaped"
=============================================================================
