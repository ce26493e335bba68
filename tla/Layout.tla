-------------------------------- MODULE Layout --------------------------------
(***************************************************************************)
(* The layout of one window: a binary tree of splits with panes at its     *)
(* leaves, the rectangles it stands for in a viewport, and the operations  *)
(* on it, among them the drag of a border with the mouse, which goes on    *)
(* over many events while other clients change the tree.  Where Window     *)
(* keeps only the order of the leaves, this module keeps the shape; what a *)
(* split does to its rectangle is in Geometry.                             *)
(*                                                                         *)
(* A tree is kept as the way down to each of its leaves: the splits from   *)
(* the root on, each with the child to go on to.  A split of the tree is   *)
(* then a place on the ways of all panes below it.                         *)
(***************************************************************************)
EXTENDS Geometry, Sequences, SequencesExt, FiniteSets

CONSTANTS
  Panes,      \* pane ids
  Views,      \* viewports: <<rows, cols>>
  Declared,   \* the trees of declared windows
  Deltas,     \* cells of one resize or mouse move
  MaxOps,     \* bound of the model
  NoDrag

VARIABLES
  tree,       \* LayoutTree::root
  view,       \* the window manager's viewport
  drag,       \* ResizeDrag: the pane left of or above the border, side, position
  steady,     \* ghost: nothing but the drag has changed the layout since
  ops

layoutVars == <<tree, view, drag, steady, ops>>

Dirs  == {"Horizontal", "Vertical"}
(* A ratio is kept in thousandths, clamped at both ends.                   *)
Ratios == 100 .. 900

Turns == [dir : Dirs, ratio : Ratios, turn : {"first", "second"}]

Turn(dir, ratio, turn) == [dir |-> dir, ratio |-> ratio, turn |-> turn]
Other(s)               == [s EXCEPT !.turn = IF @ = "first" THEN "second" ELSE "first"]

Agree(s, t, n) == \A i \in 1 .. n : s[i] = t[i]

(* Two ways that part at split k, and one that passes by split k of s.     *)
Part(s, t, k)  == /\ k \in 1 .. Len(s) /\ k \in 1 .. Len(t)
                  /\ Agree(s, t, k - 1) /\ t[k] = Other(s[k])
Under(s, k, t) == k \in 1 .. Len(t) /\ Agree(s, t, k - 1)

(* The way to the rectangle that split k of s divides.                     *)
Above(s, k) == SubSeq(s, 1, k - 1)

(* A tree: the ways of any two leaves part at a split, and every split has *)
(* a leaf on its other side.                                               *)
IsTree(t) ==
  /\ DOMAIN t # {} /\ IsFiniteSet(DOMAIN t) /\ DOMAIN t \subseteq Panes
  /\ \A p \in DOMAIN t : t[p] \in Seq(Turns)
  /\ \A p, q \in DOMAIN t : p # q => \E k \in 1 .. Len(t[p]) : Part(t[p], t[q], k)
  /\ \A p \in DOMAIN t : \A k \in 1 .. Len(t[p]) : \E q \in DOMAIN t : Part(t[p], t[q], k)

ASSUME LayoutAssumption ==
  /\ Panes \subseteq Nat /\ Panes # {} /\ Views \subseteq Nat \X Nat
  /\ Deltas \subseteq Int /\ MaxOps \in Nat
  /\ \A t \in Declared : t = [p \in DOMAIN t |-> t[p]] /\ IsTree(t)
  /\ NoDrag \notin [pane : Panes, side : {"Right", "Bottom"}, at : Int]

-----------------------------------------------------------------------------
Leaf(p) == [q \in {p} |-> <<>>]

(* A split with two trees for its children.                                *)
Beside(dir, ratio, a, b) ==
  [p \in DOMAIN a \cup DOMAIN b |->
     IF p \in DOMAIN a THEN <<Turn(dir, ratio, "first")>> \o a[p]
     ELSE <<Turn(dir, ratio, "second")>> \o b[p]]

(* Depth first, first child first: of two leaves, and of two splits.       *)
LeftOf(s, t) ==
  \E k \in 1 .. Len(s) : Part(s, t, k) /\ s[k].turn = "first"
Precedes(s, t) == IsStrictPrefix(s, t) \/ LeftOf(s, t)

(* The i-th leaf has i - 1 others on its left.                             *)
Leaves(t) ==
  [i \in 1 .. Cardinality(DOMAIN t) |->
     CHOOSE p \in DOMAIN t : Cardinality({q \in DOMAIN t : LeftOf(t[q], t[p])}) = i - 1]

InTree == DOMAIN tree

-----------------------------------------------------------------------------
Whole == Rect(1, 1, view[1], view[2])

(* rect_of for every pane, and the rectangle that split k of s divides.    *)
Rects(t)        == [p \in DOMAIN t |-> Descended(Whole, t[p])]
SplitRect(s, k) == Descended(Whole, Above(s, k))

(* pane_at_coord: the set of the pane under a cell, empty on a border.     *)
PaneAt(t, row, col) ==
  {p \in DOMAIN t :
     /\ \A k \in 1 .. Len(t[p]) :
          IF Covers(FirstRect(SplitRect(t[p], k), t[p][k]), row, col)
            THEN t[p][k].turn = "first"
            ELSE /\ t[p][k].turn = "second"
                 /\ Covers(SecondRect(SplitRect(t[p], k), t[p][k]), row, col)
     /\ Covers(Descended(Whole, t[p]), row, col)}

-----------------------------------------------------------------------------
(* split_in, close_in, swap_in and replace_leaf.                           *)
SplitIn(t, target, dir, p, position) ==
  LET turn == Turn(dir, 500, IF position = "Before" THEN "first" ELSE "second")
  IN  [q \in DOMAIN t \cup {p} |->
         IF q = p THEN Append(t[target], turn)
         ELSE IF q = target THEN Append(t[target], Other(turn))
         ELSE t[q]]

(* What is beside the pane takes the place of the split.                   *)
CloseIn(t, target) ==
  LET k == Len(t[target])
  IN  [q \in DOMAIN t \ {target} |->
         IF Under(t[target], k, t[q]) THEN RemoveAt(t[q], k) ELSE t[q]]

Swapped(t, p, q) == [t EXCEPT ![p] = t[q], ![q] = t[p]]

Replaced(t, old, new) ==
  [q \in (DOMAIN t \ {old}) \cup {new} |-> IF q = new THEN t[old] ELSE t[q]]

-----------------------------------------------------------------------------
(* The tree with another ratio at split k on the way to p.                 *)
WithRatio(t, p, k, ratio) ==
  [q \in DOMAIN t |->
     IF Under(t[p], k, t[q]) THEN [t[q] EXCEPT ![k].ratio = ratio] ELSE t[q]]

(* resize_in: the nearest split of the axis above the pane gives it delta  *)
(* cells more.                                                             *)
OnAxis(s, axis) == {k \in 1 .. Len(s) : s[k].dir = axis}

(* Mutant: the outermost split of the axis.                                *)
Outermost(s, axis) == {k \in OnAxis(s, axis) : \A i \in OnAxis(s, axis) : k <= i}

Nearest(s, axis) == {k \in OnAxis(s, axis) : \A i \in OnAxis(s, axis) : i <= k}

Resized(s, k, delta) ==
  LET r     == SplitRect(s, k)
      cells == Larger(1, (IF s[k].dir = "Horizontal" THEN r.rows ELSE r.cols) - 1)
  IN  Adjusted(s[k].ratio, IF s[k].turn = "first" THEN delta ELSE -delta, cells)

ResizeIn(t, p, axis, delta) ==
  IF OnAxis(t[p], axis) = {} THEN t
  ELSE LET k == CHOOSE k \in Nearest(t[p], axis) : TRUE
       IN  WithRatio(t, p, k, Resized(t[p], k, delta))

-----------------------------------------------------------------------------
(* Borders: the last leaf of the first child along the split's direction   *)
(* names the split (rightmost_leaf, bottommost_leaf).                      *)
Side(dir) == IF dir = "Vertical" THEN "Right" ELSE "Bottom"

IsEdge(s, k) ==
  /\ s[k].turn = "first"
  /\ \A i \in k + 1 .. Len(s) : s[i].turn = IF s[i].dir = s[k].dir THEN "second" ELSE "first"

(* The splits, each as <<the pane that names it, its place on the way>>.   *)
Splits(t) ==
  UNION {{<<p, k>> : k \in {i \in 1 .. Len(t[p]) : IsEdge(t[p], i)}} : p \in DOMAIN t}

(* border_at: the first split whose border is at the cell, if there is one.*)
BorderAt(t, row, col) ==
  LET hits == {s \in Splits(t) :
                 OnGutter(t[s[1]][s[2]], SplitRect(t[s[1]], s[2]), row, col)}
  IN  {s \in hits : \A u \in hits \ {s} : Precedes(Above(t[s[1]], s[2]), Above(t[u[1]], u[2]))}

(* The splits that a pane and a side name, by their place on its way.      *)
Named(t, hit) ==
  IF hit.pane \notin DOMAIN t THEN {}
  ELSE {k \in 1 .. Len(t[hit.pane]) :
          IsEdge(t[hit.pane], k) /\ Side(t[hit.pane][k].dir) = hit.side}

-----------------------------------------------------------------------------
(* preset.rs: balanced chains.  A part of a chain is the members lo .. hi  *)
(* and the way there; Halved goes on to the half that member i is in.      *)
Halved(c, i, dir) ==
  LET size == c.hi - c.lo + 1
      half == (size + 1) \div 2
  IN  IF size = 1 THEN c
      ELSE IF i < c.lo + half
      THEN [lo |-> c.lo, hi |-> c.lo + half - 1,
            way |-> Append(c.way, Turn(dir, Ratio(half, size), "first"))]
      ELSE [lo |-> c.lo + half, hi |-> c.hi,
            way |-> Append(c.way, Turn(dir, Ratio(half, size), "second"))]

(* The way to member i of n.                                               *)
ChainWay(n, i, dir) ==
  LET part[d \in 0 .. n] == IF d = 0 THEN [lo |-> 1, hi |-> n, way |-> <<>>]
                            ELSE Halved(part[d - 1], i, dir)
  IN  part[n].way

Place(ps, p) == CHOOSE i \in 1 .. Len(ps) : ps[i] = p

Chain(ps, dir) == [p \in ToSet(ps) |-> ChainWay(Len(ps), Place(ps, p), dir)]

(* Rows of the tiled preset: round(sqrt(n)).                               *)
TiledRows(n) == CHOOSE k \in 1 .. n : (2*k - 1) * (2*k - 1) <= 4*n /\ 4*n < (2*k + 1) * (2*k + 1)

(* The panes before row i, and those of it: the first rows take one more.  *)
TiledBefore(n, i) ==
  LET rows == TiledRows(n)
  IN  (i - 1) * (n \div rows) + Lesser(i - 1, n % rows)

TiledRow(ps, i) == SubSeq(ps, TiledBefore(Len(ps), i) + 1, TiledBefore(Len(ps), i + 1))

Tiled(ps) ==
  LET rows == TiledRows(Len(ps))
  IN  [p \in ToSet(ps) |->
         LET i == CHOOSE i \in 1 .. rows : p \in ToSet(TiledRow(ps, i))
         IN  ChainWay(rows, i, "Horizontal") \o Chain(TiledRow(ps, i), "Vertical")[p]]

Presets == {"EvenHorizontal", "EvenVertical", "MainHorizontal", "MainVertical", "Tiled"}

Preset(preset, ps) ==
  CASE Len(ps) = 1 -> Leaf(ps[1])
    [] Len(ps) > 1 /\ preset = "EvenHorizontal" -> Chain(ps, "Vertical")
    [] Len(ps) > 1 /\ preset = "EvenVertical"   -> Chain(ps, "Horizontal")
    [] Len(ps) > 1 /\ preset = "MainVertical"   ->
         Beside("Vertical", 600, Leaf(ps[1]), Chain(Tail(ps), "Horizontal"))
    [] Len(ps) > 1 /\ preset = "MainHorizontal" ->
         Beside("Horizontal", 600, Leaf(ps[1]), Chain(Tail(ps), "Vertical"))
    [] Len(ps) > 1 /\ preset = "Tiled" -> Tiled(ps)

(* Mutant: a chunk too short loses the last pane.                          *)
ArrangedShort(t, preset, active) ==
  Preset(preset, SubSeq(Leaves(t), 1, Larger(1, Cardinality(DOMAIN t) - 1)))

(* apply_layout_preset: the main presets take the active pane first.       *)
Arranged(t, preset, active) ==
  LET order == Leaves(t)
      panes == IF preset \in {"MainHorizontal", "MainVertical"}
                 THEN <<active>> \o RemoveAt(order, Place(order, active))
                 ELSE order
  IN  Preset(preset, panes)

-----------------------------------------------------------------------------
(* pick_neighbor: panes across the border on the side of the direction,    *)
(* those with the most cells in common with src, the best aligned of them. *)
NextInDirection(rects, p, dir) ==
  LET src     == rects[p]
      own     == Span(src, dir)
      facing  == {q \in DOMAIN rects \ {p} :
                    Faces(src, rects[q], dir) /\ Overlap(Span(rects[q], dir), own) > 0}
      worth(q) == 100000 * Overlap(Span(rects[q], dir), own)
                    - Distance(Span(rects[q], dir), own)
  IN  {q \in facing : \A x \in facing : worth(q) >= worth(x)}

-----------------------------------------------------------------------------
LayoutInit ==
  /\ \E p \in Panes : tree = Leaf(p) /\ \A q \in Panes : p <= q
  /\ view \in Views
  /\ drag = NoDrag /\ steady = TRUE /\ ops = 0

(* An operation on the layout by a command, of any client.                 *)
Becomes(t) ==
  /\ ops < MaxOps /\ ops' = ops + 1
  /\ tree' = t
  /\ steady' = (drag = NoDrag)
  /\ UNCHANGED <<view, drag>>

Fresh == {p \in Panes \ InTree : \A q \in Panes \ InTree : p <= q}

(* A window that a session starts with.                                    *)
BuildDeclared(t) == ops = 0 /\ Cardinality(InTree) = 1 /\ Becomes(t)

SplitPane(target, dir, position) ==
  \E p \in Fresh : Becomes(SplitIn(tree, target, dir, p, position))

(* Not for the only leaf.                                                  *)
ClosePane(p) == tree[p] # <<>> /\ Becomes(CloseIn(tree, p))

SwapPanes(p, q) == Becomes(Swapped(tree, p, q))

ReplaceLeaf(old) == \E p \in Fresh : Becomes(Replaced(tree, old, p))

ApplyPreset(preset, active) == Becomes(Arranged(tree, preset, active))

ResizePane(p, axis, delta) == Becomes(ResizeIn(tree, p, axis, delta))

(* A client's terminal changes the size of the session.                    *)
ViewChanges(v) ==
  /\ ops < MaxOps /\ ops' = ops + 1
  /\ view' = v
  /\ steady' = (drag = NoDrag)
  /\ UNCHANGED <<tree, drag>>

BeginDrag(row, col) ==
  /\ drag = NoDrag /\ ops < MaxOps
  /\ \E s \in BorderAt(tree, row, col) :
       LET side == Side(tree[s[1]][s[2]].dir)
       IN  drag' = [pane |-> s[1], side |-> side, at |-> IF side = "Right" THEN col ELSE row]
  /\ UNCHANGED <<tree, view, steady, ops>>

(* handle_resize_drag_event: the pointer is delta cells from the position  *)
(* the drag has; nothing, when no split has the name any more.             *)
DragMove(delta) ==
  /\ drag # NoDrag /\ ops < MaxOps /\ ops' = ops + 1
  /\ \E k \in Named(tree, drag) :
       LET n == tree[drag.pane][k]
           r == SplitRect(tree[drag.pane], k)
       IN  /\ tree' = WithRatio(tree, drag.pane, k, Dragged(n, r, delta))
           /\ drag' = [drag EXCEPT !.at = @ + Applied(n, r, delta)]
  /\ UNCHANGED <<view, steady>>

(* Release, or reset_mouse_gestures.                                       *)
EndDrag ==
  /\ drag # NoDrag
  /\ drag' = NoDrag /\ steady' = TRUE
  /\ UNCHANGED <<tree, view, ops>>

Commands ==
  \/ \E t \in Declared : BuildDeclared(t)
  \/ \E p \in InTree, dir \in Dirs, position \in {"Before", "After"} :
       SplitPane(p, dir, position)
  \/ \E p \in InTree : ClosePane(p)
  \/ \E p, q \in InTree : p < q /\ SwapPanes(p, q)
  \/ \E p \in InTree : ReplaceLeaf(p)
  \/ \E preset \in Presets, p \in InTree : ApplyPreset(preset, p)

Resizes ==
  \E p \in InTree, axis \in Dirs, delta \in {-3, 3} : ResizePane(p, axis, delta)

LayoutNext ==
  \/ Commands \/ Resizes
  \/ \E v \in Views \ {view} : ViewChanges(v)
  \/ \E row \in 1 .. view[1], col \in 1 .. view[2] : BeginDrag(row, col)
  \/ \E delta \in Deltas : DragMove(delta)
  \/ EndDrag

LayoutSpec == LayoutInit /\ [][LayoutNext]_layoutVars

-----------------------------------------------------------------------------
(* Every pane of the tree is at one leaf, every split has two children and *)
(* every ratio is in its range.                                            *)
LayoutTypeOK ==
  /\ IsTree(tree)
  /\ view \in Views /\ ops \in 0 .. MaxOps /\ steady \in BOOLEAN
  /\ drag = NoDrag \/ drag \in [pane : Panes, side : {"Right", "Bottom"}, at : Int]

(* The rectangles painted and the hit test agree: whatever the viewport,   *)
(* down to one cell, no cell belongs to two panes, none lies outside the   *)
(* viewport, and the pane a click finds is the one painted there.  (Said of*)
(* the states between drags: a drag can end after each of its steps.)      *)
CellsAgree ==
  LET rects == Rects(tree) IN drag = NoDrag =>
    \A row \in 0 .. view[1] + 1, col \in 0 .. view[2] + 1 :
      LET there == {p \in InTree : Covers(rects[p], row, col)} IN
        /\ PaneAt(tree, row, col) = there
        /\ there # {} => Cardinality(there) = 1 /\ Covers(Whole, row, col)

(* What Window keeps of a tree is the order of its leaves, and each        *)
(* operation does to it what Window says: a split puts the new pane next to*)
(* the one it divides, a close takes one out, a swap and a replacement put *)
(* panes in the places of others, a preset loses none and puts at most the *)
(* active one first, and a new ratio moves none.                           *)
InOrder(s, preset, active) ==
  IF preset \in {"MainHorizontal", "MainVertical"}
  THEN <<active>> \o SelectSeq(s, LAMBDA p : p # active) ELSE s

PlacesKept ==
  LET s     == Leaves(tree)
      at(p) == Place(s, p)
  IN
  /\ \A p \in InTree, q \in Fresh, dir \in Dirs :
       /\ Leaves(SplitIn(tree, p, dir, q, "Before")) = InsertAt(s, at(p), q)
       /\ Leaves(SplitIn(tree, p, dir, q, "After")) = InsertAt(s, at(p) + 1, q)
  /\ \A p \in InTree : tree[p] # <<>> => Leaves(CloseIn(tree, p)) = RemoveAt(s, at(p))
  /\ \A p, q \in InTree : Leaves(Swapped(tree, p, q)) = [s EXCEPT ![at(p)] = q, ![at(q)] = p]
  /\ \A p \in InTree, q \in Fresh : Leaves(Replaced(tree, p, q)) = [s EXCEPT ![at(p)] = q]
  /\ \A p \in InTree, preset \in Presets :
       Leaves(Arranged(tree, preset, p)) = InOrder(s, preset, p)
  /\ \A p \in InTree, axis \in Dirs, delta \in Deltas :
       Leaves(ResizeIn(tree, p, axis, delta)) = s

(* A resize moves one border, that of the innermost split of the axis the  *)
(* pane is in, and the pane does not change its extent against the         *)
(* direction asked for; a step of a drag moves the border that the kept    *)
(* pane and side name, and as long as nothing but the drag has changed the *)
(* layout, this is the border under the kept position.  All other ratios   *)
(* stay (resize_in, the single-border contract; handle_resize_drag_event). *)
Extent(t, p, axis) ==
  LET r == Rects(t)[p] IN IF axis = "Horizontal" THEN r.rows ELSE r.cols

Innermost(s, axis) ==
  {k \in 1 .. Len(s) : s[k].dir = axis /\ \A i \in k + 1 .. Len(s) : s[i].dir # axis}

Moved ==
  {Above(tree[s[1]], s[2]) :
     s \in UNION {{<<p, k>> : k \in {i \in 1 .. Len(tree[p]) : tree'[p][i] # tree[p][i]}} :
                    p \in InTree}}

OnlyMoves(p, K) == InTree' = InTree /\ Moved \subseteq {Above(tree[p], k) : k \in K}

BorderMovesAlone ==
  [][ /\ (\E delta \in Deltas : DragMove(delta)) =>
           \E k \in Named(tree, drag) :
             /\ OnlyMoves(drag.pane, {k})
             /\ steady => Gutter(tree[drag.pane][k], SplitRect(tree[drag.pane], k)) = drag.at
      /\ \A p \in InTree, axis \in Dirs, delta \in {-3, 3} :
           ResizePane(p, axis, delta) =>
             /\ OnlyMoves(p, Innermost(tree[p], axis))
             /\ IF delta > 0 THEN Extent(tree', p, axis) >= Extent(tree, p, axis)
                ELSE Extent(tree', p, axis) <= Extent(tree, p, axis) ]_<<tree, view>>

(* As long as nothing but the drag has changed the layout, the pane and the*)
(* side it keeps name one split, and the position it keeps is that of the  *)
(* border of this split, however often the pointer asked for more than the *)
(* minimum sizes and the clamp of the ratio allow.                         *)
DragFollows ==
  drag # NoDrag /\ steady =>
    \E k \in Named(tree, drag) :
      /\ Named(tree, drag) = {k}
      /\ Gutter(tree[drag.pane][k], SplitRect(tree[drag.pane], k)) = drag.at

(* From a pane of at least two cells across, focus can move in a direction *)
(* exactly when the pane does not touch that side of the viewport.         *)
AtEdge(r, dir) ==
  CASE dir = "Right" -> r.col + r.cols = Whole.col + Whole.cols
    [] dir = "Left"  -> r.col = Whole.col
    [] dir = "Down"  -> r.row + r.rows = Whole.row + Whole.rows
    [] dir = "Up"    -> r.row = Whole.row

NeighbourFound ==
  LET rects == Rects(tree) IN
    (\A p \in InTree : rects[p].rows >= 1 /\ rects[p].cols >= 1) =>
      \A p \in InTree, dir \in {"Up", "Down", "Left", "Right"} :
        (IF Sideways(dir) THEN rects[p].rows ELSE rects[p].cols) >= 2
          => (NextInDirection(rects, p, dir) = {} <=> AtEdge(rects[p], dir))
===============================================================================
