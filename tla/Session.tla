------------------------------- MODULE Session -------------------------------
(***************************************************************************)
(* The life of one daemon session, indexed by the set of all sessions: the *)
(* panes its window manager holds and their child processes, the render    *)
(* coordinator and the single-permit Notify that wakes it, the pane-death  *)
(* consumer, the supervisor of the two tasks, and begin_close followed by  *)
(* terminate_panes.                                                        *)
(*                                                                         *)
(* One action is one stretch of code that nothing else can interleave      *)
(* with: a hold of the window-manager lock, or the synchronous code between*)
(* two awaits that touches shared state once.  A window manager is here the*)
(* set of its panes: how they lie in windows and layouts is left out.      *)
(***************************************************************************)
EXTENDS Naturals, FiniteSets

CONSTANTS
  Sessions,   \* session objects (one Arc<Session> each)
  Panes,      \* pane ids a session can hand out
  Clients     \* tasks that run commands on a session: connections, CLI requests

ASSUME SessionAssumption == {"reader", "death"} \cap Clients = {}

VARIABLES
  panes,      \* panes in the window manager's windows
  child,      \* the pane's child: none, running, killed (signalled), noticed (its id is on the death channel)
  closing,    \* Session::closing
  permit,     \* the stored permit of Session::notify
  owed,       \* tasks that have changed the session and have yet to call notify_one
  stale,      \* what the last published frame does not show: no, changed (to be
              \* announced), or missed (nobody will announce it any more)
  coord,      \* where render_coordinator is; "none": the session does not exist
  deathTask,  \* the death consumer
  closers     \* progress of each begin_close + terminate_panes

sessionVars ==
  <<panes, child, closing, permit, owed, stale, coord, deathTask, closers>>

Closer    == {"kill", "supervisor"}
Notifier  == Clients \cup {"reader", "death"}
Alive     == {"running", "killed"}

(* frame_tx is dropped when render_coordinator returns or unwinds: every   *)
(* renderer bound to the session then sees its watch channel closed.       *)
FrameClosed(s) == coord[s] \in {"ended", "panicked"}

Exists(s) == coord[s] # "none"

SessionInit ==
  /\ panes     = [s \in Sessions |-> {}]
  /\ child     = [s \in Sessions |-> [p \in Panes |-> "none"]]
  /\ closing   = [s \in Sessions |-> FALSE]
  /\ permit    = [s \in Sessions |-> FALSE]
  /\ owed      = [s \in Sessions |-> {}]
  /\ stale     = [s \in Sessions |-> "no"]
  /\ coord     = [s \in Sessions |-> "none"]
  /\ deathTask = [s \in Sessions |-> "none"]
  /\ closers   = [s \in Sessions |-> [k \in Closer |-> "idle"]]

-----------------------------------------------------------------------------
(* Session::new: one window, one pane, and the two tasks that own the      *)
(* session's channels.  The watch channel already holds a blank frame, so  *)
(* nothing is owed to a renderer yet.                                      *)
Birth(s, p) ==
  /\ coord[s] = "none"
  /\ panes'     = [panes EXCEPT ![s] = {p}]
  /\ child'     = [child EXCEPT ![s][p] = "running"]
  /\ coord'     = [coord EXCEPT ![s] = "parked"]
  /\ deathTask' = [deathTask EXCEPT ![s] = "recv"]
  /\ UNCHANGED <<closing, permit, owed, stale, closers>>

(* Mutant: the verb works on an emptied window manager too.                *)
StructuralOnEmpty(s, k) ==
  /\ Exists(s)
  /\ k \notin owed[s]
  /\ permit' = [permit EXCEPT ![s] = TRUE]
  /\ owed'   = [owed EXCEPT ![s] = @ \cup {k}]
  /\ stale'  = [stale EXCEPT ![s] = "changed"]
  /\ UNCHANGED <<closing, coord, deathTask, closers>>

(* The body of a command that changes the window manager: notify_one is    *)
(* called under the lock, and once more after it is released.              *)
Structural(s, k) ==
  /\ panes[s] # {}
  /\ Exists(s)
  /\ k \notin owed[s]
  /\ permit' = [permit EXCEPT ![s] = TRUE]
  /\ owed'   = [owed EXCEPT ![s] = @ \cup {k}]
  /\ stale'  = [stale EXCEPT ![s] = "changed"]
  /\ UNCHANGED <<closing, coord, deathTask, closers>>

(* Mutant: the pane stays in the layout although its spawn failed.         *)
OpenPaneNoRollback(s, k, p) ==
  /\ child[s][p] = "none"
  /\ panes' = [panes EXCEPT ![s] = @ \cup {p}]
  /\ UNCHANGED child
  /\ Structural(s, k)

Opened(s, p) ==
  /\ child[s][p] = "none"
  /\ panes' = [panes EXCEPT ![s] = @ \cup {p}]
  /\ child' = [child EXCEPT ![s][p] = "running"]

(* split, new-window: the child is spawned and the pane enters a window in *)
(* one hold of the lock.  `closing` is not consulted.                      *)
OpenPane(s, k, p) == Opened(s, p) /\ Structural(s, k)

Signalled(c) == IF c = "running" THEN "killed" ELSE c

(* Mutant: the panes are dropped without their children being signalled.   *)
ClosePanesNoSignal(s, k, P) ==
  /\ P # {} /\ P \subseteq panes[s]
  /\ panes' = [panes EXCEPT ![s] = @ \ P]
  /\ UNCHANGED child
  /\ Structural(s, k)

Closed(s, P) ==
  /\ P # {} /\ P \subseteq panes[s]
  /\ panes' = [panes EXCEPT ![s] = @ \ P]
  /\ child' = [child EXCEPT ![s] =
                 [p \in Panes |-> IF p \in P THEN Signalled(@[p]) ELSE @[p]]]

(* kill-pane and kill-window: the panes leave the window manager at once   *)
(* and their children are signalled; their death notices come later.       *)
ClosePanes(s, k, P) == Closed(s, P) /\ Structural(s, k)

(* break-pane and join-pane drop the pane they have just taken out, its    *)
(* child running, when the window it came from cannot be resized.          *)
Stranded(s, p) ==
  /\ p \in panes[s]
  /\ panes' = [panes EXCEPT ![s] = @ \ {p}]
  /\ UNCHANGED child

(* A terminal cannot be resized at the end of a command: its `?` leaves by *)
(* way of both calls of notify_one, with the change made.  A command that  *)
(* takes the last pane resizes nothing.                                    *)
CommandFails(s, k) ==
  /\ Exists(s) /\ panes[s] # {} /\ k \notin owed[s]
  /\ \/ UNCHANGED <<panes, child>>
     \/ \E p \in Panes : Opened(s, p)
     \/ \E p \in panes[s] : panes[s] # {p} /\ (Closed(s, {p}) \/ Stranded(s, p))
  /\ stale' = [stale EXCEPT ![s] = IF @ = "no" THEN "missed" ELSE @]
  /\ UNCHANGED <<closing, permit, owed, coord, deathTask, closers>>

(* A change made without a notify_one of the window manager's own: an      *)
(* overlay opened or keyed, a status message, a copy-mode move.  Only the  *)
(* call after the lock is released wakes the coordinator.                  *)
ViewChange(s, k) ==
  /\ Exists(s)
  /\ k \notin owed[s]
  /\ stale' = [stale EXCEPT ![s] = "changed"]
  /\ owed'  = [owed EXCEPT ![s] = @ \cup {k}]
  /\ UNCHANGED <<panes, child, closing, permit, coord, deathTask, closers>>

(* Session::notify.notify_one() outside the lock.                          *)
NotifyOne(s, a) ==
  /\ a \in owed[s]
  /\ owed'   = [owed EXCEPT ![s] = @ \ {a}]
  /\ permit' = [permit EXCEPT ![s] = TRUE]
  /\ UNCHANGED <<panes, child, closing, stale, coord, deathTask, closers>>

-----------------------------------------------------------------------------
(* The reader thread advances the emulator, then notifies.                 *)
PaneOutput(s, p) ==
  /\ child[s][p] \in Alive
  /\ "reader" \notin owed[s]
  /\ stale' = [stale EXCEPT ![s] = IF p \in panes[s] THEN "changed" ELSE @]
  /\ owed'  = [owed EXCEPT ![s] = @ \cup {"reader"}]
  /\ UNCHANGED <<panes, child, closing, permit, coord, deathTask, closers>>

(* The child exits: the reader drains the PTY and ends (at EOF it notifies,*)
(* on a read error it does not), the wait thread joins it and puts the     *)
(* pane's id on the death channel.                                         *)
ChildExit(s, p) ==
  /\ child[s][p] \in Alive
  /\ child' = [child EXCEPT ![s][p] = "noticed"]
  /\ \E eof \in BOOLEAN : permit' = [permit EXCEPT ![s] = @ \/ eof]
  /\ UNCHANGED <<panes, closing, owed, stale, coord, deathTask, closers>>

(* Mutant: the slot is refilled without looking whether the pane still has *)
(* one.                                                                    *)
AfterDeathRefillsAny(s, p) ==
  {panes[s] \ {p}} \cup
    {(panes[s] \ {p}) \cup {q} : q \in {r \in Panes : child[s][r] = "none"}}

(* What handle_pane_death leaves: a pane already gone is ignored, a command*)
(* pane is replaced by a shell in its slot (q), any other leaves its window*)
AfterDeath(s, p) ==
  {panes[s] \ {p}} \cup
    (IF p \in panes[s]
     THEN {(panes[s] \ {p}) \cup {q} : q \in {r \in Panes : child[s][r] = "none"}}
     ELSE {})

(* One turn of the death consumer: it takes a notice, handles it under the *)
(* lock, and stops for good once the window manager is empty.              *)
DeathConsume(s, p) ==
  /\ deathTask[s] = "recv" /\ "death" \notin owed[s]
  /\ child[s][p] = "noticed"
  /\ \E left \in AfterDeath(s, p) :
       /\ panes' = [panes EXCEPT ![s] = left]
       /\ child' = [child EXCEPT ![s] = [q \in Panes |->
                      IF q = p THEN "none"
                      ELSE IF q \in left \ panes[s] THEN "running" ELSE @[q]]]
       /\ deathTask' = [deathTask EXCEPT ![s] = IF left = {} THEN "ended" ELSE @]
  /\ permit' = [permit EXCEPT ![s] = TRUE]
  /\ owed'   = [owed EXCEPT ![s] = @ \cup {"death"}]
  /\ stale'  = [stale EXCEPT ![s] = "changed"]
  /\ UNCHANGED <<closing, coord, closers>>

-----------------------------------------------------------------------------
(* render_coordinator: park on the permit, debounce (swallowing permits),  *)
(* look at `closing`, then compose under the lock or tear down.            *)
CoordWake(s) ==
  /\ coord[s] = "parked" /\ permit[s]
  /\ permit' = [permit EXCEPT ![s] = FALSE]
  /\ coord'  = [coord EXCEPT ![s] = "debounce"]
  /\ UNCHANGED <<panes, child, closing, owed, stale, deathTask, closers>>

CoordSwallow(s) ==
  /\ coord[s] = "debounce" /\ permit[s]
  /\ permit' = [permit EXCEPT ![s] = FALSE]
  /\ UNCHANGED <<panes, child, closing, owed, stale, coord, deathTask, closers>>

(* Mutant: a debounce that restarts on every notification.                 *)
CoordCheckWhenQuiet(s) ==
  /\ coord[s] = "debounce" /\ ~permit[s]
  /\ coord' = [coord EXCEPT ![s] = IF closing[s] THEN "leaving" ELSE "compose"]
  /\ UNCHANGED <<panes, child, closing, permit, owed, stale, deathTask, closers>>

CoordCheck(s) ==
  /\ coord[s] = "debounce"
  /\ coord' = [coord EXCEPT ![s] = IF closing[s] THEN "leaving" ELSE "compose"]
  /\ UNCHANGED <<panes, child, closing, permit, owed, stale, deathTask, closers>>

(* Mutant: nothing ends the coordinator of an emptied session.             *)
CoordComposeEmptyToo(s) ==
  /\ coord[s] = "compose"
  /\ stale' = [stale EXCEPT ![s] = "no"]
  /\ coord' = [coord EXCEPT ![s] = "parked"]
  /\ UNCHANGED <<panes, child, closing, permit, owed, deathTask, closers>>

CoordCompose(s) ==
  /\ coord[s] = "compose"
  /\ IF panes[s] = {}
     THEN /\ closing' = [closing EXCEPT ![s] = TRUE]
          /\ coord'   = [coord EXCEPT ![s] = "leaving"]
          /\ UNCHANGED stale
     ELSE /\ stale' = [stale EXCEPT ![s] = "no"]
          /\ coord' = [coord EXCEPT ![s] = "parked"]
          /\ UNCHANGED closing
  /\ UNCHANGED <<panes, child, permit, owed, deathTask, closers>>

(* The composer panics (catch_compose): the frame is skipped, its permit is*)
(* spent, and the coordinator parks.                                       *)
CoordSkip(s) ==
  /\ coord[s] = "compose" /\ panes[s] # {}
  /\ stale' = [stale EXCEPT ![s] = IF @ = "no" THEN "no" ELSE "missed"]
  /\ coord' = [coord EXCEPT ![s] = "parked"]
  /\ UNCHANGED <<panes, child, closing, permit, owed, deathTask, closers>>

(* The final blank frame is out; the coordinator returns and drops frame_tx.*)
CoordLeave(s) ==
  /\ coord[s] = "leaving"
  /\ coord' = [coord EXCEPT ![s] = "ended"]
  /\ UNCHANGED <<panes, child, closing, permit, owed, stale, deathTask, closers>>

(* A core task panics.  The composer itself is under catch_unwind; the rest*)
(* of the coordinator, and the death consumer, are not.                    *)
CorePanic(s) ==
  /\ \/ /\ coord[s] = "compose" /\ panes[s] # {}
        /\ coord' = [coord EXCEPT ![s] = "panicked"]
        /\ UNCHANGED deathTask
     \/ /\ deathTask[s] = "recv" /\ "death" \notin owed[s]
        /\ \E p \in Panes : child[s][p] = "noticed"
        /\ deathTask' = [deathTask EXCEPT ![s] = "panicked"]
        /\ UNCHANGED coord
  /\ UNCHANGED <<panes, child, closing, permit, owed, stale, closers>>

-----------------------------------------------------------------------------
(* begin_close, up to its notify: closing is stored, the death consumer is *)
(* aborted.  The registry's kill runs it once per session it removes; the  *)
(* supervisor when a core task has panicked.                               *)
StartClose(s, k) ==
  /\ Exists(s)
  /\ closers[s][k] = "idle"
  /\ k = "supervisor" => (coord[s] = "panicked" \/ deathTask[s] = "panicked")
  /\ closers'   = [closers EXCEPT ![s][k] = "marked"]
  /\ closing'   = [closing EXCEPT ![s] = TRUE]
  /\ deathTask' = [deathTask EXCEPT ![s] = IF @ = "recv" THEN "ended" ELSE @]
  /\ UNCHANGED <<panes, child, permit, owed, stale, coord>>

(* Mutant: begin_close forgets to wake the coordinator.                    *)
CloseWithoutNotify(s, k) ==
  /\ closers[s][k] = "marked"
  /\ closers' = [closers EXCEPT ![s][k] = "notified"]
  /\ UNCHANGED <<panes, child, closing, permit, owed, stale, coord, deathTask>>

CloseNotify(s, k) ==
  /\ closers[s][k] = "marked"
  /\ closers' = [closers EXCEPT ![s][k] = "notified"]
  /\ permit'  = [permit EXCEPT ![s] = TRUE]
  /\ UNCHANGED <<panes, child, closing, owed, stale, coord, deathTask>>

(* terminate_panes, under the window-manager lock.                         *)
TerminatePanes(s, k) ==
  /\ closers[s][k] = "notified"
  /\ closers' = [closers EXCEPT ![s][k] = "done"]
  /\ child'   = [child EXCEPT ![s] =
                   [p \in Panes |-> IF p \in panes[s] THEN Signalled(@[p]) ELSE @[p]]]
  /\ UNCHANGED <<panes, closing, permit, owed, stale, coord, deathTask>>

-----------------------------------------------------------------------------
(* What the daemon's own tasks do once they can run.                       *)
SessionSystem(s) ==
  \/ \E a \in Notifier : NotifyOne(s, a)
  \/ \E p \in Panes : DeathConsume(s, p)
  \/ CoordWake(s) \/ CoordSwallow(s) \/ CoordCheck(s) \/ CoordCompose(s) \/ CoordLeave(s)
  \/ StartClose(s, "supervisor")
  \/ \E k \in Closer : CloseNotify(s, k) \/ TerminatePanes(s, k)

(* What clients, children and faults do.                                   *)
SessionEnvironment(s) ==
  \/ \E p \in Panes : PaneOutput(s, p) \/ ChildExit(s, p)
  \/ \E k \in Clients :
       \/ \E p \in Panes : OpenPane(s, k, p)
       \/ \E P \in SUBSET Panes : ClosePanes(s, k, P)
       \/ ViewChange(s, k)
       \/ CommandFails(s, k)
  \/ CoordSkip(s) \/ CorePanic(s)

Next ==
  \E s \in Sessions :
    \/ SessionSystem(s)
    \/ SessionEnvironment(s)
    \/ \E p \in Panes : Birth(s, p)
    \/ StartClose(s, "kill")

(* The runtime polls every woken task; a signalled child exits and gives up*)
(* its terminal.                                                           *)
SessionFairness(s) ==
  /\ \A a \in Notifier : WF_sessionVars(NotifyOne(s, a))
  /\ WF_sessionVars(\E p \in Panes : DeathConsume(s, p))
  /\ WF_sessionVars(CoordWake(s))
  /\ WF_sessionVars(CoordCheck(s))
  /\ WF_sessionVars(CoordCompose(s))
  /\ WF_sessionVars(CoordLeave(s))
  /\ WF_sessionVars(StartClose(s, "supervisor"))
  /\ \A k \in Closer : WF_sessionVars(CloseNotify(s, k)) /\ WF_sessionVars(TerminatePanes(s, k))
  /\ \A p \in Panes : WF_sessionVars(child[s][p] = "killed" /\ ChildExit(s, p))

Spec     == SessionInit /\ [][Next]_sessionVars
FairSpec == Spec /\ \A s \in Sessions : SessionFairness(s)

-----------------------------------------------------------------------------
(* Every variable stays in its range, and no pane sits in a window without *)
(* a child having been spawned for it (window.rs: a split whose spawn fails*)
(* is rolled back).                                                        *)
TypeOK ==
  /\ panes     \in [Sessions -> SUBSET Panes]
  /\ child     \in [Sessions -> [Panes -> {"none", "running", "killed", "noticed"}]]
  /\ closing   \in [Sessions -> BOOLEAN]
  /\ permit    \in [Sessions -> BOOLEAN]
  /\ owed      \in [Sessions -> SUBSET Notifier]
  /\ stale     \in [Sessions -> {"no", "changed", "missed"}]
  /\ coord     \in [Sessions -> {"none", "parked", "debounce", "compose", "leaving", "ended", "panicked"}]
  /\ deathTask \in [Sessions -> {"none", "recv", "ended", "panicked"}]
  /\ closers   \in [Sessions -> [Closer -> {"idle", "marked", "notified", "done"}]]
  /\ \A s \in Sessions : \A p \in panes[s] : child[s][p] # "none"

(* A wake-up is on its way to the coordinator.                             *)
WakePending(s) ==
  permit[s] \/ owed[s] # {} \/ \E k \in Closer : closers[s][k] = "marked"

(* No lost wake-up: the coordinator never parks on an ended session or on  *)
(* a change to be announced without a permit stored or a notify_one still  *)
(* to come, although the permit is single, every notifier runs apart from  *)
(* the change it announces, and the debounce throws permits away           *)
(* (session/coordinator.rs, the notified / debounce / closing sequence).   *)
(* Only a change that has been put to a panicking composer, or whose own   *)
(* command failed (session/mod.rs, handle_command), may be left unshown.   *)
NoLostWakeup ==
  \A s \in Sessions :
    coord[s] = "parked" /\ (closing[s] \/ panes[s] = {} \/ stale[s] = "changed")
      => WakePending(s)

(* No command brings panes back into an emptied window manager: its death  *)
(* consumer has stopped, so nobody would notice those panes die            *)
(* (window_manager/commands.rs: every opening verb first needs the active  *)
(* window; session/mod.rs: the consumer breaks on is_empty).               *)
EmptyIsFinal ==
  [][\A s \in Sessions : Exists(s) /\ panes[s] = {} => panes'[s] = {}]_sessionVars

(* However steadily further notifications arrive during the debounce, every*)
(* change that is announced is put to the composer, which shows it unless  *)
(* it panics, or the session ends.  A change that was missed - that panic  *)
(* skipped its frame, or its command failed before it notified - is put to *)
(* the composer at the next wake-up, whatever that announces; without one  *)
(* it stays unshown.                                                       *)
ChangesAreShown ==
  \A s \in Sessions :
    /\ stale[s] = "changed" ~> (stale[s] # "changed" \/ FrameClosed(s))
    /\ (stale[s] = "missed" /\ permit[s]) ~> (coord[s] = "compose" \/ FrameClosed(s))

(* The death consumer holds a strong reference to its session and waits on *)
(* a channel that the session itself keeps open: unless it stops, an ended *)
(* session is never freed.  It does stop, also when the last window was    *)
(* closed by a command and the coordinator alone noticed.                  *)
ConsumerRetires == \A s \in Sessions : FrameClosed(s) ~> deathTask[s] # "recv"

(* The session as the registry and the connections see it.                 *)
Phase ==
  [s \in Sessions |->
     IF ~Exists(s) THEN "none"
     ELSE IF FrameClosed(s) THEN "over"
     ELSE IF closing[s] \/ panes[s] = {} \/ deathTask[s] = "panicked" THEN "doomed"
     ELSE "live"]

Life == INSTANCE SessionLife WITH phase <- Phase

(* Every step of a session is a step of its promised life or leaves it     *)
(* alone: in particular it never comes back from being doomed, and its     *)
(* frame channel is dropped only once it is closing, a panic apart.        *)
KeepsItsLife == Life!LifeSpec

(* A session that is killed, runs out of panes or loses a core task is     *)
(* marked closing and closes its frame channel, so that every attached     *)
(* client is let go: begin_close or the coordinator's is_empty branch, then*)
(* a wake-up that reaches a coordinator which may just have parked.        *)
WindsDown == Life!LifeFairness

(* Once a kill has terminated the panes, no child the session spawned is   *)
(* left running without a signal (registry.rs, kill).                      *)
KillEndsChildren ==
  \A s \in Sessions :
    closers[s]["kill"] = "done" => \A p \in Panes : child[s][p] # "running"
=============================================================================
