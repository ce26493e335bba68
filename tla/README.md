# plexy-glass: a verification project

plexy-glass is a terminal multiplexer: a daemon keeps sessions of windows and
panes, each pane a child process on a PTY, and any number of clients attach to
a session over a Unix socket (or SSH), type into it and see its frames. These
modules model the daemon: its concurrent core, what runs around each pane, and
what its clients share and send. TLC checks them on small instances and TLAPS
proves the main invariants for every instance.

All paths below are under `src/crates/`, those without a crate under
`daemon/src/`.

## 1. The system

| component | state | operations | talks to |
|---|---|---|---|
| **Session core** `session/mod.rs`, `session/coordinator.rs` | window manager (one mutex), clients (another), `closing`, a single-permit `Notify`, the frame `watch` channel, abort handles | `new`, `handle_command`, `handle_prompt_command`, `begin_close`, `terminate_panes`, `register_client`, `deregister_client`, resize, focus; tasks: render coordinator, death consumer, their supervisors, status and silence ticks | panes (death channel, notify), renderers (frames), registry |
| **Registry** `registry.rs` | name → `Arc<Session>` under one mutex, paste buffers, config error, welcome flag | `get`, `list`, `create`, `create_declared`, `build_declared`, `attach_or_create`, `rename_session`, `kill`, `reload_config` | connections, sessions |
| **Connections** `connection.rs`, `renderer.rs` | one task per client: its session, client id, keymap; one renderer task owning the socket's write half | `serve_attach`, `switch_session`, `cleanup_and_exit`, the headless verbs, `serve_exec` | registry, sessions |
| **Window manager** `window_manager/`, `window.rs`, `popup.rs` | windows, active and last-active ids, mark, zoom, popup, gestures, overlay | the command verbs, `handle_pane_death`, monitor flags, resize | panes, layout |
| **Pane I/O** `pane.rs`, `pipe.rs`, `osc_actions.rs` | reader, writer and wait threads, bounded queues, emulator, pipe slot | spawn, input, output, kill, pipe-pane | session (notify, death channel), child |
| **Layout** `mux/src/layout.rs`, `preset.rs` | split tree | split, close, resize, neighbours, presets | window |
| **Keys** `mux/src/keymap.rs`, `mux/src/mouse.rs`, `keys/`, `input_router.rs` | prefix state; what the paste, mouse and key parsers hold back | classify, consume, idle flush | connection |
| **Headless exec** `connection.rs` serve_exec | baseline of the pane's block counter, deadline | check, send, poll, answer | pane, emulator's OSC 133 marks |
| **Emulator**, **compositor**, **diff** | cells | pure transformations | pane, coordinator |
| **Client** `client/` | terminal mode, pump, picker | attach, follow, switch | connection |
| **Config, status, protocol, listener** | configuration, widgets, frames of the wire | load, render, negotiate, bind | all |

The behaviours that are hard to get right, and to test:

* the coordinator sleeps on a single permit while many notifiers, each after
  its own unlock, announce changes; a debounce throws permits away;
* a session ends in four ways (last pane dies, last window is closed by a
  command, `kill`, a core task panics), each seen by a different task first,
  and the death consumer keeps its own session alive by an `Arc` cycle;
* commands do not look at `closing`, so sessions go on changing while they die;
* the registry lock is released between looking a name up and building it,
  between removing a session and closing it, between checking `closing` and
  registering a client;
* a client switching sessions is a client of both for a while, and either may
  end, be killed or be renamed at any step;
* some input is sent to a pane's bounded queue with the window-manager lock in
  hand, and the pane's own reader answers queries into the same queue;
* a pipe may be replaced, stopped, outlive its pane, lag or panic, and each
  path must reap one process and clear one slot;
* several clients share one size, one mouse gesture, one detach request and one
  prefix indicator, none of which carries the client's name;
* bytes of a client may pause anywhere, with a timer that flushes three parsers
  in a row;
* a layout is addressed by coordinates and by names of borders that another
  client's command may have changed since.

What makes each component correct: the session core must never strand a change
or an end (`NoLostWakeup`, `ChangesAreShown`, `WindsDown`, `ConsumerRetires`,
`EmptyIsFinal`); registry and connections must keep names, Arcs and client
lists in agreement (`DaemonTypeOK`, `KeyIsName`, `NoOrphan`, `ClientOfOne`,
`ShownIsServed`) and free what has ended (`EndedIsFreed`); the window manager
must never refer to a window or pane that is gone nor drop a pane whose child
runs (`ReferencesLive`, `WindowsWhole`, `OnePlace`, `NoLeakedChild`) and do the
same whichever way a window goes (`FocusGoesToNext`, `TickWhenNeeded`). Pane
I/O must let frames, kills and senders go on (`InputFlows`), keep the pipe's
slot, its data and its process straight (`SlotIsTheRunning`, `NoGap`,
`ConsumerIsReaped`); exec must answer with its own command, and must answer
(`OwnAnswer`, `FinishedIsNotFailed`, `FinishedIsAnswered`). The view the
clients share must follow them (`SizeHeals`, `DetachIsFresh`,
`GestureHasOwner`, `IndicatorFollows`); input must arrive whole
(`EveryByteArrives`, `FlushDelivers`); and the layout must be what it is
painted as, clicked on, declared, and dragged (`CellsAgree`,
`NeighbourFound`, `TreeAsPromised`, `BorderMovesAlone`, `DragFollows`).

## 2. The modules

```
SessionLife      the life of a session as the daemon sees it (abstract)
   ^ implements          ^ extends
Session          Daemon           registry + connections over abstract sessions
   ^                     ^
SessionProofs    DaemonProofs     TLAPS
MCSession        MCDaemon         TLC

Window           one window as a value: leaves, focus, history, zoom
   ^ extends
WindowManager    windows, focus, mark, popup, children of one session
   ^
WindowProofs, WindowManagerProofs  TLAPS
MCWindowManager                    TLC

PaneInput   PanePipe   Exec        what runs around a pane
       \       |       /
          MCPaneIO                 TLC
PaneIOProofs                       TLAPS

                         Geometry  one split: its cells, a resize, a drag
                          ^ extends
ClientView  InputRouter  Layout    what clients share, send and rearrange
       \       |       /     \
          ClientIO        DeclaredLayout   how a template becomes a tree
               \            /
                MCClientIO         TLC
LayoutProofs, ClientIOProofs       TLAPS

Induction        over numbers and functions by recursion, for WindowProofs,
                 LayoutProofs and ClientIOProofs   TLAPS
```

**SessionLife** is the contract between the two halves: a session is born
live, becomes doomed (nobody need have noticed), is marked `closing`, and is
over when its frame channel closes; it never goes back, and once doomed it winds
down by itself. `Session` is shown to implement it, safety and fairness
(`KeepsItsLife` and `WindsDown` are `SessionLife`'s specification and fairness
under the refinement mapping `Phase`), and `Daemon` is built on it, so that
what is checked of the daemon rests on nothing else about sessions.

**Session** is indexed by the set of sessions. One action is one hold of the
window-manager lock or one stretch between awaits that touches shared state
once.

| state | in the code |
|---|---|
| `panes[s]` | the panes of the window manager's windows |
| `child[s][p]` | the pane's child: running, signalled by `kill_child`, or its id on the death channel |
| `closing`, `permit` | `Session::closing`, the permit stored in `Session::notify` |
| `owed[s]` | tasks between a change under the lock and their `notify_one` after it |
| `stale[s]` | what the last composed frame does not show: nothing, a change that is announced or about to be, or one that nobody will announce any more (`"missed"`) |
| `coord[s]` | the coordinator: parked on `notified()`, in the debounce, about to compose, sending its last frame, returned, panicked |
| `deathTask[s]` | the death consumer: receiving, stopped (by itself or aborted), panicked |
| `closers[s][k]` | how far `kill`'s and the supervisor's `begin_close; terminate_panes` have come |

Actions: `Birth` (Session::new); `OpenPane`, `ClosePanes`, `ViewChange`
(commands), `CommandFails` (one that returns early with an error, past its
notifications, having changed what it had changed) and `NotifyOne`; `PaneOutput`, `ChildExit` (the pane's threads);
`DeathConsume` with `AfterDeath` (handle_pane_death, including the pane that is
replaced by a shell in its slot); `CoordWake`, `CoordSwallow`, `CoordCheck`,
`CoordCompose`, `CoordSkip` (the composer panics under `catch_compose`, the frame
is skipped and the permit is spent), `CoordLeave`; `CorePanic`; `StartClose`, `CloseNotify`,
`TerminatePanes`.

**Daemon**: `reg` is the registry's map, `name`, `conf`, `clients` live in the
sessions, `killing` holds sessions between `kill`'s removal and its
`begin_close`, `todo` the declared sessions that boot or a reload has still to
build; `pc`, `req`, `sess`, `other`, `rend` are the state of one connection
task and its renderer. One action is one hold of the registry lock, or one step
of a connection between two of its awaits. `Attach … RegisterPush, Announce`
are serve_attach up to its loop, `SwitchResolve … SwitchLeave` are
switch_session, `RendererExits`, `StopOnExit`, `Stop`, `Cleanup` the end;
`InputPanic` is a batch of input for a session without windows
(`active_pane_id` → `active_index`, which expects an active window). It is
allowed whenever the session is doomed or over, which includes every case in
which the windows are really gone.

**Window** holds no state: a window is a record, and every method of `Window`
(`window.rs`) that changes leaves, focus, focus history, zoom or the monitor
flag is an operator on it (`Focused`, `Split`, `Removed`, `Rekeyed`, `Swapped`,
`Arranged`, ...).

**WindowManager** looks inside what `Session` takes as a set of panes, for one
session. One action is one hold of the window-manager lock.

| state | in the code |
|---|---|
| `order`, `win` | `WindowManager::windows`: the tabs, and each window's panes |
| `active`, `lastActive` | `active`, `last_active_window` |
| `mark`, `popup` | `marked_pane`, the pane of `popup` |
| `child[p]` | the pane's child: running, signalled or dead with its notice still to come, none |
| `command` | panes with `respawn_shell_on_exit` |
| `tick` | `Session`'s silence tick task: off, runs, or overruns (see below) |
| `stranded` | nothing: a ghost, the panes a failing resize left outside every window with their child running or the mark on them |

The actions under `Commands` are the verbs of `handle_command` with the
`reconcile_silence_task` that `Session::handle_command` runs under the same
lock; those under `MouseAndTree` are mouse events and the tree overlay's by-id
choices; those under `Deaths` are the children's exits and
`handle_pane_death`, in its three outcomes (the pane is in no window; it is
replaced by a shell; it leaves its window and perhaps closes it). Most commands
end with a resize of the terminals, which can fail: the error returns at once, and
what was still to do is not done. It may be the reconciliation of the tick task
(`ReconcileUnlessFailed`), the clearing of the mark (`Unmark`), or both at the end of
join-pane (`JoinEnds`); and break-pane and join-pane resize while they have the
detached pane in hand, which the error drops with its child running
(`BreakPaneFails`, `JoinPaneFails`). A death
notice may be handled any time after the child ended, so the pane it names may
have been killed, moved or exchanged before.

**PaneInput** is the way of input to the children of one session. `lock` is the
task that holds the window-manager lock across an await, `out` the panes a task
has still to send to, `queue` the chunks in each pane's input channel,
`writer`, `child` the pane's writer thread and its program, `waiting` the
coordinator or `terminate_panes` in want of the lock. `Resolve` and
`ResolveLocked` are the two ways the code sends: look up, unlock, send; or
(a focus transition, a mouse report, an arrow burst, a click in the popup) send
with the lock in hand. `ReaderReads` has the reader's `try_send` of an answer.

**PanePipe** has the pipes of one pane: `slot` is `Pane::pipe`; `phase` the place
of each drain task, from `start_pipe` over the biased selects to its exit path or
its panic; `cancel` the watch; `consumer`, `full` the process and its standard
input; `next`, `got`, `sent` the broadcast channel by chunk number; `reader`,
`held` the two senders of it.

**Exec** has `serve_exec` (`pc`, `base`, `reply`), the shell it types into
(`input`, `shell`, `output`), and the screen as the reader thread sees it
(`count`, `prompt`, `alt`). The ghost `calm` is true while no other line was
under way since the check and the screen was neither reset nor switched.

**ClientView** has the client list with the sizes reported (`size`), the size
applied (`host`), each connection's place (`pc`; `want` is the minimum it read
under the clients lock and has still to apply under the other), the latched
`gesture` with the client whose press latched it, `detach`, the `armed` flags,
and the coordinator with its `permit` and the indicator `shown`.

**InputRouter** is one client's three parsers: `paste`, `mouse` and `keys` are
the bytes each holds back, `timed` the timer. One action is one byte (a frame of
one byte is the worst case for the timer), one tick of the timer, or the terminal beginning
another token. **ClientIO** puts the three parts side by side.

**Layout** is the split tree with its ratios, the viewport and a border drag.
The code's tree is boxes within boxes and its functions walk down it; the module
keeps for each pane the way down to its leaf, the splits from the root on, each
with the child to go on to. Every walk that ends at one leaf is then a statement
about that leaf's way: `rect_of` descends it (`Descended`), `pane_at_coord` is
the pane whose way is the one the hit test takes (`PaneAt`), a resize is at the
last split of the axis on it (`Nearest`), and `rightmost_leaf` and
`bottommost_leaf` are a pattern of turns below a split (`IsEdge`). A split of the
tree is the place that the ways of all panes below it share. `IsTree` says which
functions from panes to ways are trees.

| operation | in the code | in `Layout` |
|---|---|---|
| split | `split_in` | the target's way gets one more turn, and so does the new pane's |
| close | `close_in` | the turn goes from the ways of the sibling's panes |
| swap, replace | `swap_in`, `replace_leaf` | two panes exchange ways, one hands its way on |
| resize, drag | `resize_in`, `adjust_split_recurse` | one ratio, in the ways of all panes below |
| preset | `preset.rs`, `build` | the way to member i of n, by halving (`ChainWay`) |
| border under the pointer | `border_at_recurse` | the first split, depth first, whose gutter it is (`BorderAt`) |

What happens at one split is in **Geometry**: how a rectangle is divided, what a
resize or a drag makes of a ratio, and how two rectangles lie to each other.
**DeclaredLayout** is how a declared window is built: a template is made binary,
replayed as splits of leaves by index, and then given its ratios in preorder
(`declared.rs`, `build_window_from_bin`). Its recursions over templates are
RECURSIVE operators, so it stays apart from what is proved. `TreeAsPromised` is what
the two modules owe to `Window`, which keeps of a tree no more than the order of its
leaves: a window just built has the panes and shares of its declaration, and in every
layout reached, each operation, for each pane, makes of that order what `Window`
says, so that a preset loses nobody and moves at most the active pane, to the front.

### Abstractions

* PaneInput: chunks are counted, not told apart. A terminal takes a write once
  the child reads; how much it takes is left to the child. Several queues and
  tasks are interleaved at the sends, which are the only waits.
* PanePipe: the pane's child is not modelled beside the reader, which ends for
  any reason at any time. At most one chunk comes between subscription and
  installation, far less than a fresh pipe of the operating system takes.
  `force_close_after_drain_panic` kills by pid and the runtime reaps: one step.
* Exec: a shell with the full integration, which marks every prompt, start and
  end; a line ends in a newline, so that a prompt and an output do not share a
  row. The answer is who ran the last block; its text is left out.
* ClientView: a size is a number (each axis is minimised by itself in the code,
  the same way). Who else would change the permit is in `Session`.
* InputRouter: bytes are names; digits are three. A complete key sequence is
  delivered as its bytes, not decoded, and the final byte of a mouse report is
  `M`. The parsers' restarts are as in the code: none begins anew at the byte
  that disappoints it.
* Layout: a ratio is in thousandths, which is what declared and preset ratios
  need; the code has a 32-bit float. Pane ids the code counts up are the
  smallest unused. A resize or drag acts on the viewport of the moment.

* Window manager: a layout tree is the sequence of its leaves; which way a
  split runs and how large its parts are is left out, so a move in a direction
  may reach any pane and a drop may name any pane or tab, whatever the latches
  of the drag hold. Selections, overlays, names, and the activity, bell and
  command flags do not decide which panes and windows there are. Of a resize only
  whether it fails is kept. Ids the code counts up are any unused ids; a pane's
  id is in use until its death notice has been handled. A session starts with one window (a
  declared one may start with several, which new-window reaches too). All
  actions but the deaths need a window (`active_index` panics without one;
  `Daemon`'s `InputPanic` is that panic).

* Session: a window manager is a set of panes. A composer panic, caught by
  `catch_compose`, is `CoordSkip`; `CorePanic` is a panic outside it. The
  status and silence ticks only add notifications.
  The bounds of the death channel (16) and of the pane queues are not
  modelled: a full death channel delays a wait thread, which the model allows
  at any time anyway. The floating popup's pane is left out.
* Daemon: names are model values (an invalid name is refused before anything
  changes). `switch_session` compares the names of target and source in the
  same action as the lookup. A reload hands the new configuration to every
  mapped session in one step, as it does under one hold of the registry lock.
  A failed reload changes neither map nor sessions. A build that fails leaves
  nothing (`build_from_template` closes the half-built session itself).
* A freed session's identity can be used again. The renderer of a connection
  that panicked holds no `Arc`; `Drop` waits for it only so that an identity
  never changes its meaning while it is looked at.

## 3. What TLC checks

| run | instance | checks |
|---|---|---|
| `session` | 1 session, 2 panes, 2 commanding tasks (127 917 states) | `TypeOK`, `NoLostWakeup`; `EmptyIsFinal`; `KeepsItsLife`, `WindsDown` (refinement of SessionLife); `ChangesAreShown`, `ConsumerRetires` |
| `daemon` | 2 sessions, 2 names (one declared at boot), 2 connections, symmetric (359 009 states) | `DaemonTypeOK`, `KeyIsName`, `NoOrphan`, `ClientOfOne`, `ShownIsServed` |
| `daemon_live` | 2 sessions, 2 names, 1 connection, 1 reload that declares a name (215 656 states) | `EndedIsFreed` |
| `window_manager` | 3 windows, 3 panes, history of 1, 1 window monitored at once, symmetric (575 778 states) | `WMTypeOK`, `ReferencesLive`, `WindowsWhole`, `OnePlace`, `NoLeakedChild`, `TickWhenNeeded`, `FocusGoesToNext` |
| `pane_io` | 2 tasks, 2 panes, queues of 1; 2 pipes, a channel of 1, 2 chunks; 1 exec, 2 lines of others, 1 reset (88 487 states) | `PaneIOTypeOK`, `InputFlows`; `SlotIsTheRunning`, `NoGap`, `ConsumerIsReaped`; `OwnAnswer`, `FinishedIsNotFailed`, `FinishedIsAnswered` |
| `client_io` | 2 clients, 2 sizes; 3 tokens of 7, pastes cut at 2; 4 panes, 3 viewports, 3 declared layouts, 3 operations (567 460 states) | `ClientIOTypeOK`, `SizeHeals`, `DetachIsFresh`, `GestureHasOwner`, `IndicatorFollows`; `EveryByteArrives`, `FlushDelivers`; `CellsAgree`, `NeighbourFound`, `TreeAsPromised`, `BorderMovesAlone`, `DragFollows` |
| `session_kill` | as `session` | `KillEndsChildren` is violated |
| `attach_race` | as `daemon` | `AttachFindsTheLive` is violated |
| `stale_template` | as `daemon_live` | `BuiltFromCurrent` is violated |
| `lost_client` | 2 sessions, 1 connection | `GoneIsDropped` is violated |
| `last_window` | as `window_manager` | `LastIsAnother` is violated |
| `zoom_click` | as `window_manager` | `ZoomedHasFocus` is violated |

**Bounds.** Sessions do not share state, so one is enough for `Session`. Two
panes let one be closed, killed or replaced while the other lives, and ids come
back, so the number of panes in a behaviour is unbounded. Two commanding tasks
can be between change and `notify_one` at once. In `Daemon` two sessions and
two names let a name pass from one session to another between two holds of the
lock, with the old one still held by a connection; with two connections two
attaches race for one name, or a switch runs against an attach. The
configuration is a number; one reload tells the boot version from the current
one. In `WindowManager` three windows let the active one, the one to toggle
back to and the one that goes be different, and tell the next tab from the
last; three panes let a window of two lose one while the third is marked, in
another window, or the popup. `HistoryCap` (`FOCUS_HISTORY_CAP`, 64 in the
code) is 1, so the oldest entry is dropped within reach; `MonitorCap`, a bound
of the model only, is how many windows may be monitored at once, and one is
enough for the tick task to be started and stopped on every path. The proofs of
section 4 do away with these bounds for all the invariants.

`pane_io` and `client_io` each check three modules that share no state: a
behaviour is one of one part, and the others stay where they began, so the
state space is the sum of the three and not their product. `QueueCap` (64 in
the code) of 1 and two panes let a task wait on one queue with the other full;
two pipes are enough for one to be replaced by another at every place of its
end; `Capacity` (the broadcast channel's) of 1 and `MaxOutput` of 2 let a drain
fall behind. One exec with two lines of others has a line before it, beside it
and after it. Two clients have every pair of steps against each other. Three
tokens are an opener, a content and a closer, or a cut sequence between two
others; `PasteCap` (4 MiB) of 2 is exceeded. Four panes make a grid of two by
two, whose borders cross, and three operations a layout, a change of it, and a
drag over it; the viewports are one in which both axes can be dragged, one
where the clamp of a ratio and the minimum of a pane disagree, and one without
room for two panes.

`CHECK_DEADLOCK FALSE`: a system whose sessions have ended and whose
identities or connections are used up really stops, and so does a window
manager without windows.

**Fairness.** `Session`: the runtime polls every task that was woken (weak
fairness of the coordinator's steps, the pending `notify_one` calls, the death
consumer, the supervisor and the closers), and a child that was signalled exits
and gives up its terminal. Nothing is assumed of commands, output, running
children or panics. `Daemon`: weak fairness of each connection's own steps, of
the renderer seeing its channel closed, of `kill` going on to `begin_close`, of
a doomed session winding down (what `WindsDown` shows of `Session`) and of an
`Arc` that reached zero. `StopOnExit` is strongly fair: the loop's `select!` is
biased to the finished renderer, but one batch of input may hold several
switches before the loop comes back to it. A client that never speaks again is
allowed. `PaneInput`: threads and tasks run, a killed child ends, and mutex and
channel permits are handed out in order of arrival, as tokio does (strong
fairness of a send and of the lock's waiters). `NoneIgnoresInput` is different:
it is an assumption on the programs in the panes and is named apart. Nothing in
the code enforces it: a child that ignores a full queue for ever
does hold the window-manager lock through a sender, and with it every frame of
its session and the kill that would end it (`session/mod.rs:732`,
`window_manager/mouse.rs:540`, `osc_actions.rs:253`). `InputFlows` shows that
nothing else does; and `Session`'s fairness of the coordinator and of
`terminate_panes` rests on it. `PanePipe`: the drain and its supervisor are
polled, and a pane whose reader has ended is dropped by the death consumer; a
consumer need never read. `Exec`: the poll ticks and the reader thread runs;
nobody has to type, finish or exit.

**Limits the models show and no document contradicts.** A change whose frame the
composer panicked over, or whose command failed before it notified, is shown only
with the next wake-up, and not at all if none comes: `NoLostWakeup` and
`ChangesAreShown` are about changes that are announced, and say of a missed one
that the next wake-up puts it to the composer. When a resize fails, break-pane and
join-pane drop the pane they moved with its child running, kill-pane, a death and
these two may leave the mark on a pane that is in no window, and a join-pane that
has closed the last monitored window leaves the tick task on: `stranded` and
`tick = "overruns"` name what is left so, and `NoLeakedChild`, `ReferencesLive` and
`TickWhenNeeded` say that nothing else is. While a border is dragged, another
client may change the layout; pane and side may then name another border or none,
and the drag goes on with that: `DragFollows`, and what `BorderMovesAlone` says of
the border clicked, hold as long as nothing but the drag has changed the layout.
Two recomputations of
the size that overlap may leave an old minimum until the next change
(`SizeHeals` says it is put right then). Another client of the session can take
a detach click that is not its own. A flush that finds more than one event held
delivers the first and loses the others, and a mouse event or a paste overtakes
a key sequence the terminal left incomplete (`order` in `InputRouter`). Two
execs, or an exec and a line typed before it, can both pass the check: the
first block completed then answers for both. An exec whose command resets the
terminal and completes within one poll of 25 ms may miss its own end. A pane of
one row or column that faces the end of a border has no neighbour there.

**Divergences** between the code and what it says of itself, each a run that
TLC must find violated (PROJECT.json, "findings", has the quotations):

* `KillEndsChildren`: a command that opens a pane after `terminate_panes` has
  let go of the lock leaves a child that nobody signals.
* `AttachFindsTheLive`: attach-or-create can answer that the session exists.
* `BuiltFromCurrent`: after a reload, attach still builds from the boot
  configuration.
* `GoneIsDropped`: a client that vanishes before `Attached` is written stays in
  the client list.
* `LastIsAnother`: a choice in the tree overlay leaves the window to toggle back
  to as it was, which can be the one chosen.
* `ZoomedHasFocus`: a click over a zoomed pane focuses the hidden pane whose
  place is under the pointer.

Every property of a passing run has a mutant, an operator kept next to the
definition it replaces and commented as such, under which TLC finds the
property violated.

## 4. What TLAPS proves

For every set of sessions, panes, names, clients and connections, and every
bound on reloads:

* `SessionProofs`: `TypeCorrect`, `NoWakeupIsLost`, `EmptyForGood`,
  `SessionKeepsItsLife`. The inductive invariant is `IInv`: `TypeOK`; `Blank`
  (a session that does not exist has nothing); and `NoLostWakeup` split into
  what holds at every place of the coordinator, not only where it parks
  (`ChangeIsHeard`, `CloseIsHeard`): a change is owed, permitted, or ahead of
  the coordinator. `NoLostWakeup` alone is not inductive, since it says nothing
  of a coordinator that is about to park. The refinement needs no more than
  `IInv`: each action is one disjunct of `LifeNext` or leaves `Phase` alone.
* `DaemonProofs`: `DaemonTypeCorrect` first, which also says that no name, kill
  or connection holds a freed session (`DaemonTypeOK` is in two parts, of the
  registry and the sessions, `WorldTypeOK`, and of the connections,
  `ConnsTypeOK`, since most steps leave one of them alone); the other proofs
  use it. `KeysAreNames`
  and `NoneIsOrphaned` go through `StepOfRegistry`, which reduces the
  next-state relation to the few things it can do to the map: connections only
  look up and build, and they build only under a name that has no live session.
  `ClientsAreServed` and `ServedIsShown` share `ConnInv`, which adds that a
  switch is between two different sessions (leaving the source would leave the
  target otherwise) and where else in a switch the renderer must agree.

* `WindowManagerProofs`: `OpenWindowsAreWhole`, `ReferencesStayLive`,
  `PanesHaveOnePlace`, `NoChildIsLeaked`, `TickRunsWhenNeeded`,
  `WindowManagerTypes` and the action property `FocusGoesOn`, for every set of
  windows and panes and any bound on the history. `WindowProofs` has what they
  rest on: what taking out, putting in and replacing an element does to a
  sequence without repetitions, and that each operator of `Window` keeps a
  window sound. The four invariants are proved together (`IInv`), with
  `TabsSound` and `PanesSound`: none is inductive alone. That a fresh pane is in
  no window needs that a leaf's pane has a child; that a mark survives an
  exchange needs that a pane has one place; that a child is not leaked when a
  window goes needs that its panes are in no other one. Steps that only
  rearrange panes inside their windows share `Rearranging`, those that add or
  take away a tab share `TabAdded` and `TabTaken`, and kill-window and the
  death of a last pane share `CloseWindowKeeps`. That the focus history names
  only panes of its window is part of `Sound`: `RetainedIs` says by induction
  what filtering it (`retain`) leaves, so that a pane that goes is forgotten
  wherever in the history it stood. That the next tab gets the focus is shown of
  both pieces of code that choose it, `close_active_window`'s and
  `handle_pane_death`'s (`BothGoOn`). `WindowManagerTypes` needs one conjunct the
  others do not (`Tidy`): a window that is not open holds nothing.

* `ClientIOProofs`, of `ClientView`: `ViewTypeCorrect`, `SizeComesRight`,
  `DetachStaysFresh`, `GesturesHaveOwners`, `IndicatorKeepsUp`, for any number
  of clients and sizes. `SizeHeals` is not inductive: it says nothing of a
  recomputation under way. `SizeInv` adds that one which has met no other is
  alone (`Alone`) and that what it has read is still true (`ReadIsTrue`).

* `ClientIOProofs`, of `InputRouter`: `RouterTypeCorrect`, `HeldBytesAreTimed`
  and the action property `EscapeIsDelivered`, for any number of tokens and any
  cap on a paste. `RouterInv` says what a parser may hold: the paste parser the
  start of its marker, the others only bytes each of which carries on what is
  before it (`KeyHolds`, `MouseHolds`). One byte of input may hand a whole held
  sequence from one parser to the next, so a step of the router is a recursion
  over a sequence; `FeedKeysIs`, `FeedMiceIs`
  and their like say by induction what every round of it keeps.

* `LayoutProofs`, of `Geometry`: `PanesAreApart` (two panes of one tree share
  no cell, and none leaves the viewport, for any tree, ratios and viewport down
  to no cell at all), `DragKeepsItsBorder` (what a drag reports to have moved
  is what its border has moved, so the anchor and the border never drift apart),
  `DragGoesWhereAsked` (where nothing clamps, that is exactly the cells the
  pointer moved, although a ratio is rounded to thousandths and back to cells;
  for less than 1000 cells) and `ResizeKeepsDirection` (a resize never moves a
  border against its direction).

* `LayoutProofs`, of `Layout`: `TreeStaysWhole`, `ClicksFindWhatIsPainted`,
  `DragFollowsItsBorder`, `ResizeMovesOneBorder` and `FocusFindsNeighbour`, for
  any finite number of panes, any viewports, any declared trees and any number
  of operations. They share the inductive invariant `LayoutInv`, that what the
  code keeps is a tree: the ways of any two leaves part at a split, and every
  split has a leaf on its other side. It has to be kept by every operation
  (`KeptSplit`, `KeptClosed`, `KeptSwapped`, ..., `KeptPreset`), of which the
  presets are most of the work: that halving a list puts every member at the end
  of a way of its own, that the rows of the tiled preset are a partition, and
  that a chain of chains is a tree. Upon it:
  - `ClicksFindWhatIsPainted`: a way is the one the hit test takes exactly when
    the cell is in the rectangle at its end, by induction down the way, and
    `PanesAreApart` leaves at most one.
  - `DragFollowsItsBorder`: two splits on one way cannot be named by the same
    pane and side (`EdgeOfOne`), and the name finds the split that was clicked.
    What the drag keeps as its position is the border's by `DragKeepsItsBorder`.
    The invariant is `DragFollows` with `LayoutInv`.
  - `ResizeMovesOneBorder`: a ratio that changes is that of the innermost split of
    the axis (`NearestIsInnermost`), or of the one a drag names, in all ways below
    it (`OneBorderIs`); that the latter is the border under the drag is
    `DragFollowsItsBorder`. That the resized pane itself does not go the
    wrong way is by induction from the split down to the pane, since every split
    of the axis in between divides a larger or smaller rectangle anew.
  - `FocusFindsNeighbour`: the last split on the pane's way that has it on the
    near side of the direction has another child across the border
    (`SplitApart`), which is as wide as the pane or wider. Down from there some
    leaf touches the border and meets the first two cells of the pane
    (`PaneBeside`): a border inside of it can take one of them and not both, and
    this is what the two cells of `NeighbourFound` are for. The
    search is not by induction down the tree but for the smallest rectangle on
    any way that meets the two cells: it must be a leaf's, for otherwise one of
    its children met them (`MeetsCut`).

* `ClientIOProofs`, of `ClientIO`: `PartsKeepTheirSpecs`, that a behaviour of the
  composition is one of each part, so that all of the above holds of what the
  run `client_io` checks, and `ClientIOTypeCorrect`.

* `PaneIOProofs`: `PaneIOTypes`, `PipeTypeCorrect`, `SlotIsRight` and the action
  property `NothingSkipped`, for any number of tasks, panes and pipes and any
  capacity of the channels. `PipeInv` adds to the type invariant and the slot
  where each drain stands in the stream (`InStep`: what it takes next follows
  what its consumer has got); without it a chunk that was skipped at the write
  could not be told from one that was given. `PaneIOTypes` is of the three parts
  together; the input needs only its own types, the pipes `PipeInv`, and the
  requests that one has an answer exactly when it is over.
* `PaneIOProofs`, of `Exec`: `AnswersItsOwn` and the action property `NoFalseFailure`, for
  any number of requests, lines of others and screen resets, and however far
  the reader thread is behind. `OwnAnswer` speaks of an answer when it has been
  given; `ExecInv` says how it comes about. `PromptInv`: while a command runs,
  the marks still to be read will have covered the prompt by the time the
  screen catches up, and the alternate screen is never up over a prompt, so a
  pane that looks idle with nothing unread is idle. `Unseen`: a request that
  has not typed has left no trace. `CalmInv`: the line of a request that nobody
  disturbs is queued, begun, ended or counted, and no other line is anywhere,
  so the counter has moved past the baseline only in the last of the four,
  when the last block is its own.

`Induction` is what lets the provers reason about a recursion. The library's
induction theorems have an operator for a parameter, which no installed prover
can instantiate; here the predicate is a set of numbers, and the principle
follows from the well-foundedness of the naturals (`NumberInduction`). From it
come that a function defined by recursion over `0 .. m` exists and is the one its
equations say (`IteratesExist`), and that what its start has and each round
keeps, its end has (`IteratesStay`). Hence `Retained`, `FeedKeys`, `FeedMice`,
`Split`, `Descended` and `ChainWay` are recursive functions and not RECURSIVE
operators.

The assumptions are `SessionAssumption`, `DaemonAssumption`,
`WindowAssumption`, `ManagerAssumption`, `ViewAssumption`, `RouterAssumption`,
`InputAssumption`, `PipeAssumption`, `ExecAssumption`, `LayoutAssumption`:
special values are distinct from the members of the sets they are used with, the
declared names are names, no token is empty, the panes are finitely many (in
`Layout` it is those of one tree, and they are numbers), the declared trees are
trees, viewports have a natural number of rows and columns, and the bounds are
numbers. TLC evaluates each of them; that the declared trees are trees it does
for those that `Built` makes of the templates (`DeclaredAssumption`).

Only model-checked:

* liveness (`WindsDown`, `ChangesAreShown`, `ConsumerRetires`, `EndedIsFreed`,
  `InputFlows`, `ConsumerIsReaped`, `FinishedIsAnswered`): fairness is out of
  the prover's reach;
* `TreeAsPromised`: what a template of any depth is built into, and in which
  order a tree of any depth lists its leaves, is the result of recursions over the
  template and of a sort of the ways, induction over data that the provers cannot
  do;
* of `EveryByteArrives`, all but `HeldIsTimed`: which events a whole stream of
  bytes comes to (`Split`, the reference it is compared with) is a statement
  about what two recursions compute for the same input.

## 5. Plan

Modules marked + exist, in the order they were written, most important first.

1. + `SessionLife`, `Session`, `SessionProofs`.
2. + `Daemon` over `SessionLife`, `DaemonProofs`.
3. + `Window`, `WindowManager`, `WindowProofs`, `WindowManagerProofs`.
4. + `ClientView`.
5. + `PaneInput`, `PanePipe`, `PaneIOProofs`.
6. + `Exec`.
7. + `Layout`, `DeclaredLayout`, `Geometry`, `LayoutProofs`; `InputRouter`,
   `ClientIO`, `ClientIOProofs`; `Induction`.
8. `Client`: attach, follow after `Exited`, switch, version negotiation;
   composed with `Daemon`.
9. Aggregate focus and the reports the panes get from it; the keymap's prefix
   machine, status message expiry.

### Not modelled

The emulator, compositor, diff renderer and overlays transform data whose state
space is the data itself, sequentially, inside one hold of a lock; they have
extensive unit tests of their own, and a model of them would be their text in
another language. They are also the larger half of the code. Configuration
parsing, status widgets, start-up file handling and the framing of the wire are
input and output. The paste buffers are a capped list behind a lock of their
own; no operation on it takes two steps. The client is one sequential task per
terminal beside a reader; what it can do to the daemon is in `Daemon` (it
attaches, speaks, switches, vanishes) and `InputRouter` (it sends any bytes, at
any pace).
