-------------------------------- MODULE Window --------------------------------
(***************************************************************************)
(* One window as a value: the panes at the leaves of its layout, in the    *)
(* order a depth-first walk meets them, the active pane, the panes that    *)
(* were active before it, the zoomed pane and whether silence is monitored.*)
(* Every method of Window that changes these is an operator on the record. *)
(* Which way a split runs and how large the parts are is left out, so a    *)
(* move in a direction may reach any other pane.                           *)
(***************************************************************************)
EXTENDS Naturals, SequencesExt

CONSTANTS
  Panes,       \* pane ids
  HistoryCap,  \* FOCUS_HISTORY_CAP
  None         \* Option::None

ASSUME WindowAssumption == HistoryCap \in Nat \ {0} /\ None \notin Panes

Window ==
  [leaves : Seq(Panes), active : Panes \cup {None}, history : Seq(Panes),
   zoomed : Panes \cup {None}, silence : BOOLEAN]

Closed ==
  [leaves |-> <<>>, active |-> None, history |-> <<>>, zoomed |-> None, silence |-> FALSE]

(* spawn_first and from_pane: a window with one pane.                      *)
Assemble(p) ==
  [leaves |-> <<p>>, active |-> p, history |-> <<>>, zoomed |-> None, silence |-> FALSE]

PlaceOf(s, x) == CHOOSE i \in DOMAIN s : s[i] = x

InsertAfter(s, x, y) == InsertAt(s, PlaceOf(s, x) + 1, y)

Without(s, x) == RemoveAt(s, PlaceOf(s, x))

-----------------------------------------------------------------------------
(* Mutant: the history is not bounded.                                     *)
FocusedUnbounded(w, p) == [w EXCEPT !.history = Append(@, w.active), !.active = p]

(* record_focus then set_active.                                           *)
Focused(w, p) ==
  LET longer == Append(w.history, w.active)
  IN  [w EXCEPT !.history = IF Len(longer) > HistoryCap THEN Tail(longer) ELSE longer,
                !.active  = p]

(* focus: only a pane of this window that is not active already.           *)
Focus(w, p) == IF p \in ToSet(w.leaves) /\ p # w.active THEN Focused(w, p) ELSE w

(* split and adopt_split: the new pane comes after the active one and      *)
(* becomes active.                                                         *)
Split(w, p) == [Focused(w, p) EXCEPT !.leaves = InsertAfter(w.leaves, w.active, p)]

(* The place in the history of the pane that was active most recently and  *)
(* is still there.                                                         *)
IsMostRecent(history, left, i) ==
  /\ i \in DOMAIN history /\ history[i] \in ToSet(left)
  /\ \A j \in DOMAIN history : j > i => history[j] \notin ToSet(left)

(* Mutant: the active pane stays as it is.                                 *)
FallbackToItself(w, p, left) == w.active

(* fixup_active_after_removal: focus goes to the pane that had it last,    *)
(* else to the first leaf; in an emptied window it is left dangling.       *)
Fallback(w, p, left) ==
  IF w.active # p \/ left = <<>> THEN w.active
  ELSE IF \E i \in DOMAIN w.history : IsMostRecent(w.history, left, i)
       THEN w.history[CHOOSE i \in DOMAIN w.history : IsMostRecent(w.history, left, i)]
       ELSE left[1]

(* retain: the elements of s that are in S, in their order.                *)
Retained(s, S) ==
  LET kept[n \in 0 .. Len(s)] ==
        IF n = 0 THEN <<>>
        ELSE IF s[n] \in S THEN Append(kept[n - 1], s[n]) ELSE kept[n - 1]
  IN  kept[Len(s)]

(* close_pane and detach_pane: the pane leaves the layout, its sibling is  *)
(* promoted, and nothing in the window refers to it any more.              *)
Removed(w, p) ==
  LET left == Without(w.leaves, p)
  IN  [leaves  |-> left,
       active  |-> Fallback(w, p, left),
       history |-> Retained(w.history, ToSet(left)),
       zoomed  |-> IF w.zoomed = p THEN None ELSE w.zoomed,
       silence |-> w.silence]

Becomes(x, old, new) == IF x = old THEN new ELSE x

(* replace_leaf and rekey_pane, as swap_occupant, install_in_slot and      *)
(* respawn_pane_as_shell use them: the slot of old now holds new, and      *)
(* whatever referred to the slot still does.                               *)
Rekeyed(w, old, new) ==
  [w EXCEPT !.leaves  = ReplaceAll(@, old, new),
            !.active  = Becomes(@, old, new),
            !.history = ReplaceAll(@, old, new),
            !.zoomed  = Becomes(@, old, new)]

(* LayoutTree::swap_panes: two leaves change places.                       *)
Swapped(w, p, q) ==
  [w EXCEPT !.leaves =
     [i \in DOMAIN @ |-> IF @[i] = p THEN q ELSE Becomes(@[i], q, p)]]

(* apply_layout_preset: only the two main-* presets reorder the leaves.    *)
Arranged(w, main) ==
  IF main THEN [w EXCEPT !.leaves = <<w.active>> \o Without(@, w.active)] ELSE w

Unzoomed(w) == [w EXCEPT !.zoomed = None]

ZoomToggled(w) == [w EXCEPT !.zoomed = IF @ = None THEN w.active ELSE None]

(* Neighbours of the active pane in leaf order, wrapping.                  *)
NeighborLeaves(w) ==
  LET n == Len(w.leaves)
      i == PlaceOf(w.leaves, w.active)
  IN  IF n < 2 THEN {}
      ELSE {w.leaves[IF i = n THEN 1 ELSE i + 1], w.leaves[IF i = 1 THEN n ELSE i - 1]}
===============================================================================
