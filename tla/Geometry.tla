------------------------------- MODULE Geometry -------------------------------
(***************************************************************************)
(* The arithmetic of the layout: how one split divides its rectangle of    *)
(* cells, what a resize or the drag of its border makes of its ratio, and  *)
(* how two rectangles lie to each other.  Layout does the walks over the   *)
(* tree.  n is a split, of which only dir and ratio matter here; a ratio is*)
(* in thousandths.                                                         *)
(***************************************************************************)
EXTENDS Integers, Sequences

Within(i, lo, hi) == IF i < lo THEN lo ELSE IF i > hi THEN hi ELSE i
Larger(i, j)      == IF i < j THEN j ELSE i
Lesser(i, j)      == IF i < j THEN i ELSE j

(* Ratio::new of a fraction; clamped.                                      *)
Ratio(part, whole) == Within((part * 1000 + whole \div 2) \div whole, 100, 900)

(* Ratio::adjust by a number of cells.                                     *)
Adjusted(ratio, delta, cells) ==
  Within(ratio + (2000 * delta + cells) \div (2 * cells), 100, 900)

-----------------------------------------------------------------------------
(* Rect::subdivide, along one axis of n cells: the lengths of the children *)
(* and where the second begins, one cell for the border between them.      *)
Share(usable, ratio) == Within((usable * ratio + 500) \div 1000, 1, Larger(usable - 1, 1))

(* Mutant: a child is never empty, whatever there is to share.             *)
DividedPhantom(n, ratio) ==
  LET a == Share(Larger(n - 1, 1), ratio)
  IN  [first |-> a, second |-> Larger(n - 1 - a, 1), at |-> a + 1]

Divided(n, ratio) ==
  IF n <= 1 THEN [first |-> n, second |-> 0, at |-> n]
  ELSE LET a == Share(n - 1, ratio)
       IN  [first |-> a, second |-> n - 1 - a, at |-> a + 1]

Rect(row, col, rows, cols) == [row |-> row, col |-> col, rows |-> rows, cols |-> cols]

FirstRect(r, n) ==
  IF n.dir = "Horizontal"
    THEN [r EXCEPT !.rows = Divided(@, n.ratio).first]
    ELSE [r EXCEPT !.cols = Divided(@, n.ratio).first]

SecondRect(r, n) ==
  IF n.dir = "Horizontal"
    THEN LET d == Divided(r.rows, n.ratio)
         IN  [r EXCEPT !.row = @ + d.at, !.rows = d.second]
    ELSE LET d == Divided(r.cols, n.ratio)
         IN  [r EXCEPT !.col = @ + d.at, !.cols = d.second]

(* rect_of: from the root's rectangle down, at every split to one child.   *)
ChildRect(r, s) == IF s.turn = "first" THEN FirstRect(r, s) ELSE SecondRect(r, s)

Descended(r, way) ==
  LET at[i \in 0 .. Len(way)] == IF i = 0 THEN r ELSE ChildRect(at[i - 1], way[i])
  IN  at[Len(way)]

Covers(r, row, col) ==
  /\ row >= r.row /\ row < r.row + r.rows
  /\ col >= r.col /\ col < r.col + r.cols

-----------------------------------------------------------------------------
(* Where the border of split n is on its axis.                             *)
Gutter(n, r) ==
  IF n.dir = "Vertical" THEN FirstRect(r, n).col + FirstRect(r, n).cols
  ELSE FirstRect(r, n).row + FirstRect(r, n).rows

OnGutter(n, r, row, col) ==
  LET a == FirstRect(r, n) IN
    IF n.dir = "Vertical"
      THEN col = Gutter(n, r) /\ row >= a.row /\ row < a.row + a.rows
      ELSE row = Gutter(n, r) /\ col >= a.col /\ col < a.col + a.cols

MinPaneCells == 4   \* MIN_PANE_CELLS

Usable(n, r) == Larger(0, (IF n.dir = "Vertical" THEN r.cols ELSE r.rows) - 1)

FirstCells(n, r) == IF n.dir = "Vertical" THEN FirstRect(r, n).cols ELSE FirstRect(r, n).rows

(* The ratio a drag of delta cells gives a split ...                       *)
Dragged(n, r, delta) ==
  IF Usable(n, r) < 2 * MinPaneCells THEN n.ratio
  ELSE Ratio(Within(FirstCells(n, r) + delta, MinPaneCells, Usable(n, r) - MinPaneCells),
             Usable(n, r))

(* Mutant: in cells asked for, not in cells the border moved.              *)
AppliedAsked(n, r, delta) ==
  IF Usable(n, r) < 2 * MinPaneCells THEN 0
  ELSE Within(FirstCells(n, r) + delta, MinPaneCells, Usable(n, r) - MinPaneCells)
         - FirstCells(n, r)

(* ... and the cells its border moves by, which adjust_split returns.      *)
Applied(n, r, delta) ==
  IF Usable(n, r) < 2 * MinPaneCells THEN 0
  ELSE Share(Usable(n, r), Dragged(n, r, delta)) - FirstCells(n, r)

-----------------------------------------------------------------------------
(* pick_neighbor: how two panes lie to each other.                         *)
BottomEdge(r) == Larger(0, r.row + r.rows - 1)
RightEdge(r)  == Larger(0, r.col + r.cols - 1)

Faces(src, r, dir) ==
  CASE dir = "Right" -> r.col = RightEdge(src) + 2
    [] dir = "Left"  -> RightEdge(r) = src.col - 2
    [] dir = "Down"  -> r.row = BottomEdge(src) + 2
    [] dir = "Up"    -> BottomEdge(r) = src.row - 2

Sideways(dir) == dir \in {"Left", "Right"}

Span(r, dir) ==
  IF Sideways(dir) THEN [lo |-> r.row, hi |-> BottomEdge(r)]
  ELSE [lo |-> r.col, hi |-> RightEdge(r)]

(* Mutant: a span that ends where it begins has no length.                 *)
OverlapShort(s, t) == Larger(0, Lesser(s.hi, t.hi) - Larger(s.lo, t.lo))

Overlap(s, t) == Larger(0, Lesser(s.hi, t.hi) - Larger(s.lo, t.lo) + 1)

Distance(s, t) ==
  LET d == (s.lo + (s.hi - s.lo) \div 2) - (t.lo + (t.hi - t.lo) \div 2)
  IN  Larger(d, -d)
===============================================================================
