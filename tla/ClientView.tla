------------------------------ MODULE ClientView ------------------------------
(***************************************************************************)
(* What the clients of one session share: the list of registered clients,  *)
(* the size the session has been given, the mouse gesture and the detach   *)
(* request latched in the window manager, and the prefix indicator of the  *)
(* status line.                                                            *)
(*                                                                         *)
(* A connection runs its own steps one after the other.  A step holds the  *)
(* clients lock or the window-manager lock once, never both; recomputing   *)
(* the size takes the first and then the second.                           *)
(***************************************************************************)
EXTENDS Naturals, FiniteSets, FiniteSetsExt

CONSTANTS
  Clients,    \* connections
  Sizes,      \* sizes a terminal can have
  None

ASSUME ViewAssumption ==
  /\ Sizes \subseteq Nat /\ Sizes # {}
  /\ None \notin Sizes /\ None \notin Clients

VARIABLES
  size,       \* Session::clients: what each registered client reported
  host,       \* WindowManager::host_size
  pc,         \* where each connection is
  want,       \* the size a recomputation has read and not yet applied
  overlap,    \* history: the recomputation begun last ran into another
  gesture,    \* the client whose press latched the gesture in progress
  detach,     \* WindowManager::detach_requested
  armed,      \* prefix_armed of each client
  permit,     \* the permit of Session::notify
  coord,      \* render_coordinator: parked, or woken and about to compose
  shown       \* the prefix indicator of the last frame

viewVars ==
  <<size, host, pc, want, overlap, gesture, detach, armed, permit, coord, shown>>

Registered == {c \in Clients : size[c] # None}
Smallest   == Min({size[c] : c \in Registered})

(* The client list has changed and the size has yet to follow.             *)
Recomputing == {c \in Clients : pc[c] \in {"reset", "read", "ask", "apply"}}

ViewInit ==
  /\ size    = [c \in Clients |-> None]
  /\ host    \in Sizes
  /\ pc      = [c \in Clients |-> "out"]
  /\ want    = [c \in Clients |-> None]
  /\ overlap = FALSE
  /\ gesture = None
  /\ detach  = FALSE
  /\ armed   = [c \in Clients |-> FALSE]
  /\ permit  = FALSE
  /\ coord   = "parked"
  /\ shown   = FALSE

Goto(c, from, to) == pc[c] = from /\ pc' = [pc EXCEPT ![c] = to]

mouseVars  == <<gesture, detach>>
statusVars == <<armed, coord, shown>>

-----------------------------------------------------------------------------
(* The list changes under the clients lock; the recomputation comes later. *)
Relist(c, s) ==
  /\ size'    = [size EXCEPT ![c] = s]
  /\ overlap' = (Recomputing # {})
  /\ UNCHANGED <<host, want, mouseVars, permit, coord, shown>>

(* register_client: an attach has a fresh keymap, a switch that comes in   *)
(* brings the flag of its own along, perhaps in mid-chord.                 *)
Register(c, s) ==
  /\ Goto(c, "out", "read")
  /\ Relist(c, s)
  /\ armed' \in {armed, [armed EXCEPT ![c] = FALSE]}

Resize(c, s) == Goto(c, "ready", "read") /\ Relist(c, s) /\ UNCHANGED armed

(* cleanup_and_exit, or a switch that goes out: close_popup, then the      *)
(* first half of deregister_client.                                        *)
Leave(c) ==
  /\ \/ Goto(c, "ready", "reset")
     \/ Goto(c, "leave", "reset")
  /\ Relist(c, None)
  /\ UNCHANGED armed

(* Mutant: the departing client's gesture stays.                           *)
ResetGesturesNot(c) ==
  /\ Goto(c, "reset", "read")
  /\ UNCHANGED <<size, host, want, overlap, mouseVars, statusVars, permit>>

(* reset_mouse_gestures, under the window-manager lock: whoever's it is.   *)
ResetGestures(c) ==
  /\ Goto(c, "reset", "read")
  /\ gesture' = None
  /\ UNCHANGED <<size, host, want, overlap, detach, statusVars, permit>>

(* effective_size: the minimum, under the clients lock...                  *)
ReadSizes(c) ==
  /\ Goto(c, "read", IF Registered = {} THEN "ask" ELSE "apply")
  /\ want' = [want EXCEPT ![c] = IF Registered = {} THEN None ELSE Smallest]
  /\ UNCHANGED <<size, host, overlap, mouseVars, statusVars, permit>>

(* ... or, without clients, the present size, under the other lock.        *)
AskHost(c) ==
  /\ Goto(c, "ask", "apply")
  /\ want' = [want EXCEPT ![c] = host]
  /\ UNCHANGED <<size, host, overlap, mouseVars, statusVars, permit>>

(* Mutant: a size that grows is not applied.                               *)
ApplyShrinking(c) ==
  /\ Goto(c, "apply", IF size[c] = None THEN "out" ELSE "ready")
  /\ host'   = IF want[c] < host THEN want[c] ELSE host
  /\ want'   = [want EXCEPT ![c] = None]
  /\ permit' = TRUE
  /\ UNCHANGED <<size, overlap, mouseVars, statusVars>>

(* The rest of recompute_size_and_notify, under the window-manager lock.   *)
Apply(c) ==
  /\ Goto(c, "apply", IF size[c] = None THEN "out" ELSE "ready")
  /\ host'   = want[c]
  /\ want'   = [want EXCEPT ![c] = None]
  /\ permit' = TRUE
  /\ UNCHANGED <<size, overlap, mouseVars, statusVars>>

-----------------------------------------------------------------------------
(* Session::handle_mouse: one hold of the lock in which the event may latch*)
(* or end a gesture or hit the status bar's Detach region.                 *)
Mouse(c) ==
  /\ Goto(c, "ready", "check")
  /\ \/ gesture' \in {c, None} /\ UNCHANGED detach
     \/ detach' = TRUE /\ UNCHANGED gesture
     \/ UNCHANGED mouseVars
  /\ permit' = TRUE
  /\ UNCHANGED <<size, host, want, overlap, statusVars>>

(* A pane dies, or a popup opens: whatever gesture is under way is reset.   *)
GestureCut ==
  /\ gesture' = None
  /\ permit'  = TRUE
  /\ UNCHANGED <<size, host, pc, want, overlap, detach, statusVars>>

(* Mutant: the request is not taken down by the client that obeys it.      *)
CheckDetachKeeps(c) ==
  /\ Goto(c, "check", IF detach THEN "leave" ELSE "ready")
  /\ UNCHANGED <<size, host, want, overlap, mouseVars, statusVars, permit>>

(* dispatch_input_event, after a mouse event: a second hold of the lock.   *)
CheckDetach(c) ==
  /\ Goto(c, "check", IF detach THEN "leave" ELSE "ready")
  /\ detach' = FALSE
  /\ UNCHANGED <<size, host, want, overlap, gesture, statusVars, permit>>

-----------------------------------------------------------------------------
(* A key reaches the keymap: store_prefix_armed swaps the flag, and owes a *)
(* notification if it changed.                                             *)
Chord(c) ==
  /\ Goto(c, "ready", "owes")
  /\ armed' = [armed EXCEPT ![c] = ~@]
  /\ UNCHANGED <<size, host, want, overlap, mouseVars, permit, coord, shown>>

(* Mutant: only arming the prefix wakes the coordinator.                   *)
NotifyChordArmed(c) ==
  /\ Goto(c, "owes", "ready")
  /\ permit' = (permit \/ armed[c])
  /\ UNCHANGED <<size, host, want, overlap, mouseVars, statusVars>>

NotifyChord(c) ==
  /\ Goto(c, "owes", "ready")
  /\ permit' = TRUE
  /\ UNCHANGED <<size, host, want, overlap, mouseVars, statusVars>>

AnyArmed == \E c \in Registered : armed[c]

CoordWakes ==
  /\ coord = "parked" /\ permit
  /\ permit' = FALSE
  /\ coord'  = "compose"
  /\ UNCHANGED <<size, host, pc, want, overlap, mouseVars, armed, shown>>

(* The frame is composed with any_prefix_armed, under both locks.          *)
CoordShows ==
  /\ coord = "compose"
  /\ shown' = AnyArmed
  /\ coord' = "parked"
  /\ UNCHANGED <<size, host, pc, want, overlap, mouseVars, armed, permit>>

-----------------------------------------------------------------------------
ViewNext ==
  \/ \E c \in Clients :
       \/ \E s \in Sizes : Register(c, s) \/ Resize(c, s)
       \/ Leave(c) \/ ResetGestures(c)
       \/ ReadSizes(c) \/ AskHost(c) \/ Apply(c)
       \/ Mouse(c) \/ CheckDetach(c)
       \/ Chord(c) \/ NotifyChord(c)
  \/ GestureCut \/ CoordWakes \/ CoordShows

ViewSpec == ViewInit /\ [][ViewNext]_viewVars

-----------------------------------------------------------------------------
(* A client is registered exactly while its connection serves it, and a    *)
(* recomputation that is about to apply has read a size.                   *)
ViewTypeOK ==
  /\ size    \in [Clients -> Sizes \cup {None}]
  /\ host    \in Sizes
  /\ pc      \in [Clients -> {"out", "read", "ask", "apply", "ready", "leave",
                              "reset", "check", "owes"}]
  /\ want    \in [Clients -> Sizes \cup {None}]
  /\ overlap \in BOOLEAN /\ detach \in BOOLEAN /\ permit \in BOOLEAN /\ shown \in BOOLEAN
  /\ gesture \in Clients \cup {None}
  /\ armed   \in [Clients -> BOOLEAN]
  /\ coord   \in {"parked", "compose"}
  /\ \A c \in Clients :
       /\ pc[c] \in {"ready", "leave", "check", "owes"} => c \in Registered
       /\ pc[c] \in {"out", "reset", "ask"} => c \notin Registered
       /\ want[c] # None <=> pc[c] = "apply"

(* The size of a session is the smallest of its clients' sizes again as    *)
(* soon as one change of the list has been followed through without meeting*)
(* another: however the changes before it ran into each other, and whatever*)
(* old minimum they left, the session does not stay at a wrong size.       *)
(* (session/mod.rs: effective_size reads under the clients lock, the size  *)
(* is applied later under the window-manager lock.)                        *)
SizeHeals ==
  Recomputing = {} /\ ~overlap /\ Registered # {} => host = Smallest

(* A detach request never outlives the event that raised it: while the flag*)
(* is set, a connection of this session is on its way to read it.  A client*)
(* that attaches later is not thrown out by an old click.                  *)
(* (connection.rs, the two holds of the lock around a mouse event)         *)
DetachIsFresh == detach => \E c \in Clients : pc[c] = "check"

(* A latched gesture belongs to a client that is still there, or is about  *)
(* to be reset: the next client's plain click does not complete the drag of*)
(* one that has gone (session/mod.rs, deregister_client).                  *)
GestureHasOwner ==
  gesture # None => gesture \in Registered \/ pc[gesture] = "reset"

(* The prefix indicator is right, or a wake-up that will put it right is   *)
(* stored or still owed: also when a client leaves in mid-chord, and when  *)
(* two clients press the prefix at once (connection.rs, store_prefix_armed)*)
IndicatorFollows ==
  coord = "parked" /\ shown # AnyArmed =>
    permit \/ Recomputing # {} \/ \E c \in Clients : pc[c] = "owes"
=============================================================================
