---------------------------- MODULE DeclaredLayout ----------------------------
(***************************************************************************)
(* How a declared window comes by its tree.  A template nests splits of any*)
(* number of weighted children; the code makes it binary, replays it as    *)
(* splits of leaves counted from the left, and then sets all ratios in     *)
(* order.                                                                  *)
(***************************************************************************)
EXTENDS Layout

CONSTANT Templates   \* [pane], or [dir, children: Seq([weight, node])]

IsPane(t) == "pane" \in DOMAIN t

(* to_binary: a split of many is a chain of splits of two.                 *)
RECURSIVE Binary(_)
Binary(t) ==
  IF IsPane(t) THEN t
  ELSE [dir    |-> t.dir,
        first  |-> Binary(t.children[1].node),
        second |-> IF Len(t.children) = 2 THEN Binary(t.children[2].node)
                   ELSE Binary([t EXCEPT !.children = Tail(@)])]

RECURSIVE PanesOf(_)
PanesOf(n) == IF IsPane(n) THEN <<n.pane>> ELSE PanesOf(n.first) \o PanesOf(n.second)

(* collect_ops: which leaf of the tree so far to split, and which of the   *)
(* declared panes it makes; both count leaves from the left, from 1.       *)
RECURSIVE Ops(_, _)
Ops(n, base) ==
  IF IsPane(n) THEN <<>>
  ELSE LET next == base + Len(PanesOf(n.first))
       IN <<[target |-> base, new |-> next, dir |-> n.dir]>>
            \o Ops(n.first, base) \o Ops(n.second, next)

(* split_window_at_dfs for each of them, from a window of the first pane.  *)
Replayed(list, ps) ==
  FoldLeft(LAMBDA t, op : SplitIn(t, Leaves(t)[op.target], op.dir, ps[op.new], "After"),
           Leaf(ps[1]), list)

TotalWeight(children) == FoldLeft(LAMBDA sum, c : sum + c.weight, 0, children)

(* preorder_ratios                                                         *)
RECURSIVE DeclaredRatios(_)
DeclaredRatios(t) ==
  IF IsPane(t) THEN <<>>
  ELSE <<Ratio(t.children[1].weight, TotalWeight(t.children))>>
         \o DeclaredRatios(t.children[1].node)
         \o (IF Len(t.children) = 2 THEN DeclaredRatios(t.children[2].node)
             ELSE DeclaredRatios([t EXCEPT !.children = Tail(@)]))

(* set_ratios_preorder: the ratio of a split is that of its place among all*)
(* splits of the tree.                                                     *)
WithRatios(t, ratios) ==
  LET above     == {Above(t[s[1]], s[2]) : s \in Splits(t)}
      before(w) == Cardinality({v \in above : Precedes(v, w)})
  IN  [p \in DOMAIN t |-> [k \in DOMAIN t[p] |->
         [t[p][k] EXCEPT !.ratio = ratios[before(Above(t[p], k)) + 1]]]]

(* build_window_from_bin                                                   *)
Built(t) ==
  LET bin == Binary(t)
  IN  WithRatios(Replayed(Ops(bin, 1), PanesOf(bin)), DeclaredRatios(t))

ASSUME DeclaredAssumption == Declared = {Built(t) : t \in Templates}

-----------------------------------------------------------------------------
RECURSIVE Promised(_)
Promised(t) ==
  IF IsPane(t) THEN Leaf(t.pane)
  ELSE Beside(t.dir, Ratio(t.children[1].weight, TotalWeight(t.children)),
              Promised(t.children[1].node),
              IF Len(t.children) = 2 THEN Promised(t.children[2].node)
              ELSE Promised([t EXCEPT !.children = Tail(@)]))

(* A window that has just been built from its declaration has its panes and*)
(* its shares, although it is built by splitting (restore.rs, declared.rs);*)
(* and every later operation does to the order of the panes what the window*)
(* that owns the tree takes it to do (layout.rs; preset.rs, where a chunk  *)
(* too short would lose a pane).                                           *)
TreeAsPromised ==
  /\ ops = 1 => \A t \in Templates : tree = Built(t) => tree = Promised(t)
  /\ ops \in 1 .. MaxOps - 1 => PlacesKept
===============================================================================
