----------------------------- MODULE WindowManager -----------------------------
(***************************************************************************)
(* The window manager of one session: the windows in tab order with their  *)
(* panes, the active and the last active window, the marked pane, the      *)
(* floating popup, the children of the panes and the silence tick task.    *)
(*                                                                         *)
(* Every action is one hold of the window-manager lock: a command with the *)
(* reconciliation of the tick task that follows it, a mouse event, a choice*)
(* made in the tree overlay, or one death notice.  All of them but the     *)
(* death notices need a window: the code looks the active window up first  *)
(* and panics without one.  The ids that the code counts up are here any   *)
(* id that nothing uses; a pane's id is in use until its death notice has  *)
(* been handled.  Of resizing the terminals only the failures are kept: the*)
(* error leaves a command where it is, and what the rest of it would have  *)
(* done is not done.                                                       *)
(***************************************************************************)
EXTENDS Window

CONSTANTS
  Windows,     \* window ids
  MonitorCap   \* bound: windows monitored for silence at once

ASSUME ManagerAssumption == MonitorCap \in Nat /\ None \notin Windows

VARIABLES
  order,       \* the open windows as tabs
  win,         \* each window; Closed if it is not open
  active,      \* id of the active window, left dangling when the last one goes
  lastActive,  \* last_active_window
  mark,        \* marked_pane
  popup,       \* pane of the floating popup
  child,       \* child of each pane: none, running, ending (its death notice is to come)
  command,     \* panes with respawn_shell_on_exit
  tick,        \* the silence tick task: off, runs, or overruns (it runs for a window
               \* that is gone, a failing join-pane having skipped the reconciliation)
  stranded     \* not in the code: the panes outside every window whose child runs, or
               \* which the mark refers to, because a resize failed on their way out

vars == <<order, win, active, lastActive, mark, popup, child, command, tick, stranded>>

Init ==
  \E w \in Windows, p \in Panes :
    /\ order = <<w>>
    /\ win = [v \in Windows |-> IF v = w THEN Assemble(p) ELSE Closed]
    /\ active = w
    /\ lastActive = None /\ mark = None /\ popup = None
    /\ child = [q \in Panes |-> IF q = p THEN "running" ELSE "none"]
    /\ command \in {{}, {p}}
    /\ tick = "off"
    /\ stranded = {}

OpenWindows == ToSet(order)
PanesOf(w)  == ToSet(win[w].leaves)
HasWindow   == order # <<>>
Fresh(p)    == child[p] = "none" /\ p # mark
Monitored   == {w \in OpenWindows : win[w].silence}

(* kill_child: the notice of its death comes later.                        *)
Killed(P) ==
  [p \in Panes |-> IF p \in P /\ child[p] = "running" THEN "ending" ELSE child[p]]

(* A pane is spawned; its id stands for no other pane from now on.         *)
Spawn(p) ==
  /\ Fresh(p)
  /\ child'    = [child EXCEPT ![p] = "running"]
  /\ stranded' = stranded \ {p}

(* clear_zoom_restore, which precedes most commands.                       *)
WinUnzoomed == [win EXCEPT ![active] = Unzoomed(@)]

(* Mutant: the tick task is started when needed and never stopped.         *)
ReconcileOnlyStarts ==
  tick' = IF \E w \in ToSet(order') : win'[w].silence THEN "runs" ELSE tick

(* reconcile_silence_task, under the same hold of the lock.                *)
Reconcile ==
  tick' = IF \E w \in ToSet(order') : win'[w].silence THEN "runs" ELSE "off"

(* A command that ends with a resize: if that fails, the error skips the   *)
(* reconciliation.                                                         *)
ReconcileUnlessFailed == Reconcile \/ UNCHANGED tick

-----------------------------------------------------------------------------
(* close_active_window: the focus goes to the window that takes the place  *)
(* of the active one, or to the last.                                      *)
NextAfterKill ==
  LET left == Without(order, active)
      i    == PlaceOf(order, active)
  IN  IF left = <<>> THEN active ELSE left[IF i > Len(left) THEN Len(left) ELSE i]

(* Mutant: a death moves the focus to the previous window.                 *)
NextAfterDeathPrevious(w) ==
  LET left == Without(order, w)
      i    == PlaceOf(order, w)
  IN  IF w # active \/ left = <<>> THEN active ELSE left[IF i > 1 THEN i - 1 ELSE 1]

(* handle_pane_death computes it by itself, for any window w that a death  *)
(* has emptied.                                                            *)
NextAfterDeath(w) ==
  LET left == Without(order, w)
      i    == PlaceOf(order, w)
  IN  IF w = active /\ left # <<>>
      THEN left[IF i <= Len(left) THEN i ELSE Len(left)] ELSE active

(* fixup_last_active_after_removal.                                        *)
LastAfter(w, next) == IF lastActive \in {w, next} THEN None ELSE lastActive

(* Mutant: the last window takes no popup with it.                         *)
DoomedPopupNone(w) == {}

(* close_popup when w is the last window.                                  *)
DoomedPopup(w) == IF Without(order, w) = <<>> THEN {popup} \ {None} ELSE {}

CloseWindow(w, next) ==
  /\ order'      = Without(order, w)
  /\ win'        = [win EXCEPT ![w] = Closed]
  /\ active'     = next
  /\ lastActive' = LastAfter(w, next)
  /\ popup'      = IF order' = <<>> THEN None ELSE popup

(* A command that opens the window w after all others and goes there.      *)
AddWindow(w) ==
  /\ w \notin OpenWindows
  /\ order'      = Append(order, w)
  /\ active'     = w
  /\ lastActive' = active

-----------------------------------------------------------------------------
(* split: the pane is spawned and takes a place next to the active one.    *)
SplitPane(p) ==
  /\ HasWindow
  /\ Spawn(p)
  /\ win' = [WinUnzoomed EXCEPT ![active] = Split(@, p)]
  /\ UNCHANGED <<order, active, lastActive, mark, popup, command>>
  /\ ReconcileUnlessFailed

NewWindow(w, p) ==
  /\ HasWindow
  /\ Spawn(p)
  /\ AddWindow(w)
  /\ win' = [WinUnzoomed EXCEPT ![w] = Assemble(p)]
  /\ UNCHANGED <<mark, popup, command>>
  /\ Reconcile

(* A command that ends a zoom and then does nothing here: a move of focus  *)
(* or a swap in a window with one pane, a switch to the window one is in, a*)
(* join or swap with a mark that is the active pane, a resize of the       *)
(* layout, a split or a new window whose spawn fails and is rolled back, or*)
(* any command that fails already when ending the zoom resizes the panes.  *)
OnlyUnzoom ==
  /\ HasWindow
  /\ win' = WinUnzoomed
  /\ UNCHANGED <<order, active, lastActive, mark, popup, child, command, stranded>>
  /\ ReconcileUnlessFailed

(* select-pane in leaf order, in a direction, or back to the last one.     *)
SelectPane(p) ==
  /\ HasWindow
  /\ p \in PanesOf(active) \ {win[active].active}
  /\ win' = [WinUnzoomed EXCEPT ![active] = Focused(@, p)]
  /\ UNCHANGED <<order, active, lastActive, mark, popup, child, command, stranded>>
  /\ Reconcile

(* next-window, prev-window, select-window and last-window.                *)
SwitchTo(w) ==
  /\ w \in OpenWindows \ {active}
  /\ win'        = WinUnzoomed
  /\ active'     = w
  /\ lastActive' = active
  /\ UNCHANGED <<order, mark, popup, child, command, stranded>>
  /\ Reconcile

KillWindow ==
  /\ HasWindow
  /\ CloseWindow(active, NextAfterKill)
  /\ child' = Killed(PanesOf(active) \cup DoomedPopup(active))
  /\ mark'  = IF mark \in PanesOf(active) THEN None ELSE mark
  /\ UNCHANGED <<command, stranded>>
  /\ Reconcile

(* Mutant: the mark is left on the killed pane.                            *)
KillPaneKeepsMark ==
  LET p == win[active].active IN
  /\ HasWindow
  /\ \/ /\ Len(win[active].leaves) = 1
        /\ KillWindow
     \/ /\ Len(win[active].leaves) > 1
        /\ win'   = [WinUnzoomed EXCEPT ![active] = Removed(@, p)]
        /\ child' = Killed({p})
        /\ UNCHANGED <<order, active, lastActive, mark, popup, command, stranded>>
        /\ Reconcile

(* The mark is taken from the pane p, which has left its window, unless the*)
(* panes that stay cannot be resized.                                      *)
Unmark(p) ==
  \/ mark' = Becomes(mark, p, None) /\ UNCHANGED stranded
  \/ mark = p /\ mark' = mark /\ stranded' = stranded \cup {p}

(* kill-pane: the last pane takes its window with it.                      *)
KillPane ==
  LET p == win[active].active IN
  /\ HasWindow
  /\ \/ /\ Len(win[active].leaves) = 1
        /\ KillWindow
     \/ /\ Len(win[active].leaves) > 1
        /\ win'   = [WinUnzoomed EXCEPT ![active] = Removed(@, p)]
        /\ child' = Killed({p})
        /\ Unmark(p)
        /\ UNCHANGED <<order, active, lastActive, popup, command>>
        /\ ReconcileUnlessFailed

ToggleMark ==
  /\ HasWindow
  /\ mark' = IF mark = win[active].active THEN None ELSE win[active].active
  /\ UNCHANGED <<order, win, active, lastActive, popup, child, command, stranded>>
  /\ Reconcile

(* break-pane: the active pane moves, alive, to a window of its own.       *)
BreakPane(w) ==
  LET p == win[active].active IN
  /\ HasWindow /\ Len(win[active].leaves) > 1
  /\ AddWindow(w)
  /\ win' = [WinUnzoomed EXCEPT ![active] = Removed(@, p), ![w] = Assemble(p)]
  /\ UNCHANGED <<mark, popup, child, command, stranded>>
  /\ Reconcile

(* It fails when the panes that stay, or the new window, cannot be resized:*)
(* the pane has been taken out and is dropped with its child running.      *)
BreakPaneFails ==
  LET p == win[active].active IN
  /\ HasWindow /\ Len(win[active].leaves) > 1
  /\ win'      = [WinUnzoomed EXCEPT ![active] = Removed(@, p)]
  /\ stranded' = stranded \cup {p}
  /\ UNCHANGED <<order, active, lastActive, mark, popup, child, command, tick>>

(* swap-pane next and previous.                                            *)
SwapPane(p) ==
  /\ HasWindow
  /\ p \in NeighborLeaves(win[active])
  /\ win' = [WinUnzoomed EXCEPT ![active] = Swapped(@, @.active, p)]
  /\ UNCHANGED <<order, active, lastActive, mark, popup, child, command, stranded>>
  /\ ReconcileUnlessFailed

(* The marked pane is in the window w and is not the active one.           *)
MarkedIn(w) ==
  /\ w \in OpenWindows /\ mark \in PanesOf(w)
  /\ mark # win[active].active

Parted(w) == [WinUnzoomed EXCEPT ![w] = Removed(@, mark)]

(* What is left to do at the end of join-pane, and is not done when the    *)
(* window that has just taken the pane in cannot be resized: the mark is   *)
(* cleared, and the tick task is reconciled with the windows there are now.*)
JoinEnds ==
  \/ mark' = None /\ Reconcile
  \/ /\ UNCHANGED mark
     /\ tick' = IF tick = "runs" /\ \A v \in ToSet(order') : ~win'[v].silence
                THEN "overruns" ELSE tick

(* join-pane: the marked pane moves, alive, next to the active one; a      *)
(* window it leaves empty is closed.                                       *)
JoinPane(w) ==
  LET joined == [Parted(w) EXCEPT ![active] = Split(@, mark)] IN
  /\ MarkedIn(w)
  /\ IF PanesOf(w) = {mark}
     THEN /\ order'      = Without(order, w)
          /\ win'        = [joined EXCEPT ![w] = Closed]
          /\ lastActive' = LastAfter(w, active)
     ELSE win' = joined /\ UNCHANGED <<order, lastActive>>
  /\ JoinEnds
  /\ UNCHANGED <<active, popup, child, command, stranded>>

(* It fails when the panes that stay in w cannot be resized: the marked    *)
(* pane has been taken out and is dropped with its child running.          *)
JoinPaneFails(w) ==
  /\ MarkedIn(w) /\ PanesOf(w) # {mark}
  /\ win'      = Parted(w)
  /\ stranded' = stranded \cup {mark}
  /\ UNCHANGED <<order, active, lastActive, mark, popup, child, command, tick>>

(* join-pane, or swap-pane with the marked one, finds it in no window.     *)
ForgetMark ==
  /\ HasWindow
  /\ mark # None /\ \A w \in OpenWindows : mark \notin PanesOf(w)
  /\ win'  = WinUnzoomed
  /\ mark' = None
  /\ UNCHANGED <<order, active, lastActive, popup, child, command, stranded>>
  /\ Reconcile

(* Mutant: the marked pane is installed without the other half of the swap.*)
ExchangedHalf(w, p, q) == [WinUnzoomed EXCEPT ![active] = Rekeyed(@, p, q)]

(* The pane p of the active window and the pane q of the window w change   *)
(* places.                                                                 *)
Exchanged(w, p, q) ==
  [WinUnzoomed EXCEPT ![active] = Rekeyed(@, p, q), ![w] = Rekeyed(@, q, p)]

(* swap-pane with the marked one, which may be in another window.          *)
SwapMarkedPane(w) ==
  LET p == win[active].active IN
  /\ MarkedIn(w)
  /\ win' = IF w = active THEN [WinUnzoomed EXCEPT ![active] = Swapped(@, p, mark)]
                          ELSE Exchanged(w, p, mark)
  /\ UNCHANGED <<order, active, lastActive, mark, popup, child, command, stranded>>
  /\ ReconcileUnlessFailed

SetMonitorSilence(on) ==
  /\ HasWindow
  /\ on => Cardinality(Monitored \cup {active}) <= MonitorCap
  /\ win' = [win EXCEPT ![active].silence = on]
  /\ UNCHANGED <<order, active, lastActive, mark, popup, child, command, stranded>>
  /\ Reconcile

ZoomToggle ==
  /\ HasWindow
  /\ win' = [win EXCEPT ![active] = ZoomToggled(@)]
  /\ UNCHANGED <<order, active, lastActive, mark, popup, child, command, stranded>>
  /\ ReconcileUnlessFailed

SelectLayout(main) ==
  /\ HasWindow
  /\ win' = [WinUnzoomed EXCEPT ![active] = Arranged(@, main)]
  /\ UNCHANGED <<order, active, lastActive, mark, popup, child, command, stranded>>
  /\ ReconcileUnlessFailed

(* open_popup: the old popup is closed once the new pane has been spawned. *)
OpenPopup(p) ==
  /\ HasWindow /\ Fresh(p)
  /\ popup'    = p
  /\ child'    = [Killed({popup}) EXCEPT ![p] = "running"]
  /\ stranded' = stranded \ {p}
  /\ UNCHANGED <<order, win, active, lastActive, mark, command, tick>>

ClosePopup ==
  /\ popup # None
  /\ popup' = None
  /\ child' = Killed({popup})
  /\ UNCHANGED <<order, win, active, lastActive, mark, command, tick, stranded>>

-----------------------------------------------------------------------------
(* The mouse.  It addresses a pane of the active window by where the       *)
(* layout puts it, whether or not another pane is zoomed.                  *)
Click(p) ==
  /\ HasWindow
  /\ p \in PanesOf(active)
  /\ win' = [win EXCEPT ![active] = Focus(@, p)]
  /\ UNCHANGED <<order, active, lastActive, mark, popup, child, command, tick, stranded>>

(* A pane dragged onto another one.                                        *)
DropPane(p, q) ==
  /\ HasWindow
  /\ p # q /\ {p, q} \subseteq PanesOf(active)
  /\ win' = [win EXCEPT ![active] = Focus(Swapped(@, p, q), p)]
  /\ UNCHANGED <<order, active, lastActive, mark, popup, child, command, tick, stranded>>

(* move_window: a tab dragged to another position.                         *)
DropTab(w, i) ==
  /\ Len(order) > 1 /\ w \in OpenWindows
  /\ order' = InsertAt(Without(order, w), i, w)
  /\ UNCHANGED <<win, active, lastActive, mark, popup, child, command, tick, stranded>>

(* The tree overlay: by id, from any client that is on this session.       *)
SelectWindowById(w) ==
  /\ w \in OpenWindows
  /\ win'    = WinUnzoomed
  /\ active' = w
  /\ UNCHANGED <<order, lastActive, mark, popup, child, command, tick, stranded>>

FocusPaneById(w, p) ==
  /\ w \in OpenWindows /\ p \in PanesOf(w)
  /\ win'    = [win EXCEPT ![w] = Focus(Unzoomed(@), p)]
  /\ active' = w
  /\ UNCHANGED <<order, lastActive, mark, popup, child, command, tick, stranded>>

KillWindowPanes(w) ==
  /\ w \in OpenWindows
  /\ child' = Killed(PanesOf(w))
  /\ UNCHANGED <<order, win, active, lastActive, mark, popup, command, tick, stranded>>

-----------------------------------------------------------------------------
(* A child exits by itself, or the tree overlay has killed it.             *)
ChildExit(p) ==
  /\ child[p] = "running"
  /\ child' = Killed({p})
  /\ UNCHANGED <<order, win, active, lastActive, mark, popup, command, tick, stranded>>

(* The notice of p is taken from the death channel.                        *)
Notice(p) ==
  /\ child[p] = "ending"
  /\ command' = command \ {p}

(* handle_pane_death: the popup's pane, or one that a command has removed. *)
DeathOutside(p) ==
  /\ Notice(p)
  /\ p = popup \/ \A w \in OpenWindows : p \notin PanesOf(w)
  /\ popup' = Becomes(popup, p, None)
  /\ mark'  = IF p = popup THEN mark ELSE Becomes(mark, p, None)
  /\ child' = [child EXCEPT ![p] = "none"]
  /\ stranded' = stranded \ {p}
  /\ UNCHANGED <<order, win, active, lastActive>>
  /\ Reconcile

(* A command pane is replaced by a shell in its slot, if one can be        *)
(* spawned.                                                                *)
DeathRespawns(p, q, w) ==
  /\ Notice(p)
  /\ p # popup /\ w \in OpenWindows /\ p \in PanesOf(w)
  /\ p \in command /\ Fresh(q)
  /\ win'      = [win EXCEPT ![w] = Rekeyed(@, p, q)]
  /\ mark'     = Becomes(mark, p, q)
  /\ child'    = [child EXCEPT ![p] = "none", ![q] = "running"]
  /\ stranded' = stranded \ {q}
  /\ UNCHANGED <<order, active, lastActive, popup>>
  /\ Reconcile

(* Any other pane leaves its window, and the last one closes it.           *)
DeathCloses(p, w) ==
  /\ Notice(p)
  /\ p # popup /\ w \in OpenWindows /\ p \in PanesOf(w)
  /\ IF PanesOf(w) = {p}
     THEN /\ CloseWindow(w, NextAfterDeath(w))
          /\ child' = [Killed(DoomedPopup(w)) EXCEPT ![p] = "none"]
          /\ mark'  = Becomes(mark, p, None)
          /\ UNCHANGED stranded
     ELSE /\ win'   = [win EXCEPT ![w] = Removed(@, p)]
          /\ child' = [child EXCEPT ![p] = "none"]
          /\ Unmark(p)
          /\ UNCHANGED <<order, active, lastActive, popup>>
  /\ Reconcile

-----------------------------------------------------------------------------
Commands ==
  \/ OnlyUnzoom \/ KillPane \/ KillWindow \/ ToggleMark \/ ZoomToggle \/ ClosePopup
  \/ BreakPaneFails \/ ForgetMark
  \/ \E p \in Panes : SplitPane(p) \/ SelectPane(p) \/ SwapPane(p) \/ OpenPopup(p)
  \/ \E w \in Windows : SwitchTo(w) \/ BreakPane(w) \/ SwapMarkedPane(w)
  \/ \E w \in Windows : JoinPane(w) \/ JoinPaneFails(w)
  \/ \E w \in Windows, p \in Panes : NewWindow(w, p)
  \/ \E b \in BOOLEAN : SetMonitorSilence(b) \/ SelectLayout(b)

MouseAndTree ==
  \/ \E p \in Panes : Click(p)
  \/ \E p, q \in Panes : DropPane(p, q)
  \/ \E w \in Windows : \E i \in DOMAIN order : DropTab(w, i)
  \/ \E w \in Windows : SelectWindowById(w) \/ KillWindowPanes(w)
  \/ \E w \in Windows, p \in Panes : FocusPaneById(w, p)

Deaths ==
  \/ \E p \in Panes : ChildExit(p) \/ DeathOutside(p)
  \/ \E p, q \in Panes, w \in Windows : DeathRespawns(p, q, w)
  \/ \E p \in Panes, w \in Windows : DeathCloses(p, w)

Next == Commands \/ MouseAndTree \/ Deaths

Spec == Init /\ [][Next]_vars

-----------------------------------------------------------------------------
(* Every variable stays in its range, a window that is not open holds      *)
(* nothing, and no focus history outgrows its bound (window.rs,            *)
(* record_focus).                                                          *)
WMTypeOK ==
  /\ order \in Seq(Windows)
  /\ win \in [Windows -> Window]
  /\ active \in Windows
  /\ lastActive \in Windows \cup {None}
  /\ mark \in Panes \cup {None}
  /\ popup \in Panes \cup {None}
  /\ child \in [Panes -> {"none", "running", "ending"}]
  /\ command \subseteq Panes
  /\ tick \in {"off", "runs", "overruns"}
  /\ stranded \subseteq Panes
  /\ \A w \in Windows : Len(win[w].history) <= HistoryCap
  /\ \A w \in Windows \ OpenWindows : win[w] = Closed

(* Whatever the session refers to exists: the active window is open as     *)
(* long as one is (or active_index panics), so is the window to toggle back*)
(* to, and the marked pane is in a window, whichever of the paths that move*)
(* or remove panes and windows has run (window_manager/mod.rs).  Only a    *)
(* resize that fails after the marked pane has left its window leaves the  *)
(* mark behind (kill-pane, break-pane, join-pane, a death).                *)
ReferencesLive ==
  /\ HasWindow => active \in OpenWindows
  /\ lastActive \in OpenWindows \cup {None}
  /\ mark # None => mark \in stranded \/ \E w \in OpenWindows : mark \in PanesOf(w)

(* No open window is empty, its active pane is one of its panes (or        *)
(* active_pane panics), and so is every pane its zoom and its focus history*)
(* refer to, also when panes were exchanged with another window (window.rs,*)
(* fixup_active_after_removal, rekey_pane).                                *)
WindowsWhole ==
  \A w \in OpenWindows :
    /\ win[w].active \in PanesOf(w)
    /\ win[w].zoomed \in PanesOf(w) \cup {None}
    /\ ToSet(win[w].history) \subseteq PanesOf(w)

(* A pane has one place: one leaf of one window, or the popup.             *)
OnePlace ==
  /\ IsInjective(order)
  /\ \A w \in OpenWindows : IsInjective(win[w].leaves) /\ popup \notin PanesOf(w)
  /\ \A v, w \in OpenWindows : v # w => PanesOf(v) \cap PanesOf(w) = {}

(* A pane is never dropped with its child running: dropping it does not end*)
(* the child, so nobody would (commands.rs, the moves between windows;     *)
(* close_active_window and handle_pane_death, the popup of a session that  *)
(* lost its last window).  The exception is the pane that break-pane or    *)
(* join-pane has taken out of its window when a resize fails: the code     *)
(* drops it.                                                               *)
NoLeakedChild ==
  \A p \in Panes :
    child[p] = "running" =>
      p = popup \/ p \in stranded \/ \E w \in OpenWindows : p \in PanesOf(w)

(* The silence tick task runs exactly while an open window is monitored,   *)
(* however that window opens, is merged away or dies                       *)
(* (session/mod.rs, reconcile_silence_task); it overruns only when a       *)
(* join-pane that fails at its end has closed the last monitored window.   *)
TickWhenNeeded == tick = "runs" <=> Monitored # {}

(* When the active window goes, by a command or because its last child     *)
(* exited, the next tab becomes active, or the last if there is no next    *)
(* (window_manager/mod.rs: exit and kill-window used to disagree).         *)
FocusGoesToNext ==
  [][active \notin ToSet(order') /\ order' # <<>> =>
       LET i == PlaceOf(order, active)
       IN  active' = order[IF i < Len(order) THEN i + 1 ELSE i - 1]]_vars

(* The window to toggle back to is never the active one (mod.rs,           *)
(* fixup_last_active_after_removal: toggling to the window you are on is   *)
(* meaningless).                                                           *)
LastIsAnother == HasWindow => lastActive # active

(* What is zoomed has the focus: changing the focus ends a zoom            *)
(* (commands.rs, the comment on command_clears_zoom in handle_command).    *)
ZoomedHasFocus == \A w \in OpenWindows : win[w].zoomed \in {None, win[w].active}
===============================================================================
