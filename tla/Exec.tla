--------------------------------- MODULE Exec ----------------------------------
(***************************************************************************)
(* `plexy run`: requests that type a line into one pane's shell and wait   *)
(* until the pane's counter of completed command blocks has passed the     *)
(* value read before.  The shell reports a command's start (C), its end (D)*)
(* and the next prompt (A) in its output, which the pane's reader thread   *)
(* turns into the screen's counter later.  One pane; what its other users  *)
(* type is a line of `User'.                                               *)
(***************************************************************************)
EXTENDS Naturals, Sequences, SequencesExt, FiniteSets

CONSTANTS
  Execs,       \* requests
  User,        \* whoever else types into the pane
  Nothing,
  MaxTyped,    \* bound: lines of the user
  MaxOdd       \* bound: screen resets and alternate screens

ASSUME ExecAssumption ==
  /\ User \notin Execs /\ Nothing \notin Execs \cup {User}
  /\ "gone" \notin Execs \cup {User, Nothing}
  /\ MaxTyped \in Nat /\ MaxOdd \in Nat

VARIABLES
  pc,          \* idle, sending, waiting, over
  base,        \* blocks_completed when the request was checked
  reply,
  input,       \* lines on their way to the shell
  shell,       \* Nothing at a prompt, else whose line runs, or "gone"
  output,      \* marks the reader thread has not processed yet
  count,       \* Screen::blocks_completed, last: whose block was the last
  last,
  prompt,      \* newest mark on the screen: none, a prompt, an output's start
  alt,         \* the alternate screen is up
  typed, odd,
  calm         \* ghost: since its check nobody but this request had a line
               \* under way, and the screen was neither reset nor switched

shellVars  == <<input, shell, output, typed, odd>>
screenVars == <<count, last, prompt, alt>>
execVars   == <<pc, base, reply, calm>>
allExecVars == <<execVars, shellVars, screenVars>>

ExecInit ==
  /\ pc     = [e \in Execs |-> "idle"]
  /\ base   = [e \in Execs |-> 0]
  /\ reply  = [e \in Execs |-> <<"none", Nothing>>]
  /\ calm   = [e \in Execs |-> FALSE]
  /\ input  = <<>> /\ output = <<>> /\ shell = Nothing
  /\ count  = 0 /\ last = Nothing
  /\ prompt \in {"none", "at"} /\ alt = FALSE
  /\ typed  = 0 /\ odd = 0

Over(e, answer) ==
  /\ pc'    = [pc EXCEPT ![e] = "over"]
  /\ reply' = [reply EXCEPT ![e] = answer]

-----------------------------------------------------------------------------
(* Mutant: the pane may be busy with a command.                            *)
ReadyBusy == ~alt /\ prompt # "none"

(* The three preconditions and the baseline, in one hold of the screen.    *)
Ready == ~alt /\ prompt = "at"

Check(e) ==
  /\ pc[e] = "idle"
  /\ \/ /\ ~Ready
        /\ Over(e, <<"refused", Nothing>>)
        /\ UNCHANGED <<base, calm>>
     \/ /\ Ready
        /\ pc'   = [pc EXCEPT ![e] = "sending"]
        /\ base' = [base EXCEPT ![e] = count]
        /\ calm' = [calm EXCEPT ![e] = input = <<>> /\ output = <<>>]
        /\ UNCHANGED reply
  /\ UNCHANGED <<shellVars, screenVars>>

(* A line reaches the input queue: every other request is disturbed.       *)
Disturbs(l) ==
  calm' = [e \in Execs |-> calm[e] /\ (e = l \/ pc[e] \in {"idle", "over"})]

(* send_input, straight to the pane.                                       *)
SendLine(e) ==
  /\ pc[e] = "sending"
  /\ \/ /\ shell # "gone"
        /\ input' = Append(input, e)
        /\ pc'    = [pc EXCEPT ![e] = "waiting"]
        /\ Disturbs(e)
        /\ UNCHANGED reply
     \/ /\ shell = "gone"
        /\ Over(e, <<"refused", Nothing>>)
        /\ UNCHANGED <<input, calm>>
  /\ UNCHANGED <<base, shell, output, typed, odd, screenVars>>

(* Mutant: one block more is waited for.                                   *)
PassedLate(e) == count > base[e] + 1

(* The closure `check': the counter against the baseline.                  *)
Passed(e)  == count > base[e]

Tick(e) ==
  /\ pc[e] = "waiting"
  /\ \/ Passed(e) /\ Over(e, <<"done", last>>)
     \/ count < base[e] /\ Over(e, <<"reset", Nothing>>)
  /\ UNCHANGED <<base, calm, shellVars, screenVars>>

(* Mutant: the arms of the select reply without a last check.              *)
GiveUpAtOnce(e) ==
  /\ pc[e] = "waiting"
  /\ \/ shell = "gone" /\ Over(e, <<"exited", Nothing>>)
     \/ Over(e, <<"timeout", Nothing>>)
  /\ UNCHANGED <<base, calm, shellVars, screenVars>>

(* The child has exited, or the time is over: the counter is looked at once*)
(* more.                                                                   *)
GiveUp(e) ==
  /\ pc[e] = "waiting"
  /\ \/ Passed(e) /\ Over(e, <<"done", last>>)
     \/ ~Passed(e) /\ shell = "gone" /\ Over(e, <<"exited", Nothing>>)
     \/ ~Passed(e) /\ Over(e, <<"timeout", Nothing>>)
  /\ UNCHANGED <<base, calm, shellVars, screenVars>>

(* The client has gone, or sent something: the wait ends.                  *)
Abandon(e) ==
  /\ pc[e] = "waiting"
  /\ Over(e, <<"abandoned", Nothing>>)
  /\ UNCHANGED <<base, calm, shellVars, screenVars>>

-----------------------------------------------------------------------------
(* The shell and whoever types into it.                                    *)
UserTypes ==
  /\ typed < MaxTyped /\ shell # "gone"
  /\ typed' = typed + 1
  /\ input' = Append(input, User)
  /\ Disturbs(User)
  /\ UNCHANGED <<pc, base, reply, shell, output, odd, screenVars>>

ShellStarts ==
  /\ shell = Nothing /\ input # <<>>
  /\ shell'  = Head(input)
  /\ input'  = Tail(input)
  /\ output' = Append(output, <<"C", Head(input)>>)
  /\ UNCHANGED <<typed, odd, execVars, screenVars>>

ShellFinishes ==
  /\ shell \in Execs \cup {User}
  /\ shell'  = Nothing
  /\ output' = output \o <<<<"D", shell>>, <<"A", shell>>>>
  /\ UNCHANGED <<input, typed, odd, execVars, screenVars>>

(* The running command resets the terminal or switches its screen.         *)
CommandOdd ==
  /\ shell \in Execs \cup {User} /\ odd < MaxOdd
  /\ odd' = odd + 1
  /\ \E o \in {<<<<"RIS", shell>>>>, <<<<"alt", shell>>, <<"main", shell>>>>,
               <<<<"alt", shell>>>>} :
       output' = output \o o
  /\ calm' = [e \in Execs |-> calm[e] /\ pc[e] \in {"idle", "over"}]
  /\ UNCHANGED <<input, shell, typed, pc, base, reply, screenVars>>

ShellExits ==
  /\ shell # "gone"
  /\ shell' = "gone" /\ input' = <<>>
  /\ UNCHANGED <<output, typed, odd, execVars, screenVars>>

(* The reader thread feeds one mark to the screen: handle_osc_133, RIS     *)
(* (a new Screen), and the switch of screens.  Marks are ignored on the    *)
(* alternate screen.                                                       *)
ReaderFeeds ==
  /\ output # <<>>
  /\ output' = Tail(output)
  /\ LET m == Head(output)[1] IN
       \/ /\ m = "RIS"
          /\ count' = 0 /\ prompt' = "none" /\ alt' = FALSE /\ last' = Nothing
       \/ /\ m \in {"alt", "main"}
          /\ alt' = (m = "alt")
          /\ UNCHANGED <<count, prompt, last>>
       \/ /\ m \in {"A", "C", "D"} /\ alt
          /\ UNCHANGED screenVars
       \/ /\ m = "D" /\ ~alt
          /\ count' = count + 1 /\ last' = Head(output)[2]
          /\ UNCHANGED <<prompt, alt>>
       \/ /\ m \in {"A", "C"} /\ ~alt
          /\ prompt' = CASE m = "A" -> "at"
                         [] prompt = "none" -> "none"
                         [] OTHER -> "busy"
          /\ UNCHANGED <<count, last, alt>>
  /\ UNCHANGED <<input, shell, typed, odd, execVars>>

-----------------------------------------------------------------------------
ExecNext ==
  \/ \E e \in Execs :
       Check(e) \/ SendLine(e) \/ Tick(e) \/ GiveUp(e) \/ Abandon(e)
  \/ UserTypes \/ ShellStarts \/ ShellFinishes \/ CommandOdd \/ ShellExits
  \/ ReaderFeeds

(* The poll ticks and the reader thread runs; the channel takes the line   *)
(* (PaneInput looks at a full one).  Nobody has to type, finish or exit.   *)
ExecFairness ==
  /\ \A e \in Execs : WF_allExecVars(SendLine(e)) /\ WF_allExecVars(Tick(e))
  /\ WF_allExecVars(ReaderFeeds)

ExecSpec == ExecInit /\ [][ExecNext]_allExecVars /\ ExecFairness

-----------------------------------------------------------------------------
Answer == {"none", "refused", "done", "reset", "exited", "timeout", "abandoned"}

(* The state is well-formed, and a request that waits has a line that is   *)
(* typed, running, or was lost with the shell.                             *)
ExecTypeOK ==
  /\ pc    \in [Execs -> {"idle", "sending", "waiting", "over"}]
  /\ base  \in [Execs -> Nat]
  /\ calm  \in [Execs -> BOOLEAN]
  /\ reply \in [Execs -> Answer \X (Execs \cup {User, Nothing})]
  /\ input \in Seq(Execs \cup {User})
  /\ shell \in Execs \cup {User, Nothing, "gone"}
  /\ count \in Nat /\ last \in Execs \cup {User, Nothing}
  /\ prompt \in {"none", "at", "busy"} /\ alt \in BOOLEAN
  /\ \A e \in Execs : reply[e][1] = "none" <=> pc[e] # "over"

(* The exit code and the output a request reports are those of its own     *)
(* line, when no other line was under way while it ran: the command that   *)
(* was already running, or whose end the reader thread had not yet         *)
(* processed, is never reported for it (connection.rs, serve_exec).        *)
OwnAnswer ==
  \A e \in Execs : calm[e] /\ reply[e][1] = "done" => reply[e][2] = e

(* A request whose own block is on the screen is never reported as timed   *)
(* out or as killed by the shell's exit, however close they came           *)
(* (connection.rs, the final check in the arms of serve_exec).             *)
FinishedIsNotFailed ==
  [][\A e \in Execs :
       reply[e][1] = "none" /\ reply'[e][1] \in {"exited", "timeout"}
          /\ calm[e] => last # e]_allExecVars

(* A request whose line has run to its end gets its answer, unless another *)
(* line gets under way or the screen is reset before the next poll         *)
(* (connection.rs, serve_exec).                                            *)
FinishedIsAnswered ==
  \A e \in Execs :
    pc[e] = "waiting" /\ last = e /\ calm[e] ~> pc[e] = "over" \/ ~calm[e]
=============================================================================
