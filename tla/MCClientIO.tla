------------------------------ MODULE MCClientIO ------------------------------
(* The values of the constants of ClientIO, with the trees of three        *)
(* declared windows.                                                       *)
EXTENDS ClientIO, DeclaredLayout

(* A key, an escape alone, the start of another sequence, a mouse report   *)
(* whole and cut short, and the two ends of a paste.                       *)
MCTokens ==
  {<<"x">>, <<Esc>>, <<Esc, "[">>,
   <<Esc, "[", "<", "2", ";", "1", "M">>, <<Esc, "[", "2", ";">>, Opener, Closer}

Pane(p)       == [pane |-> p]
Weighed(w, n) == [weight |-> w, node |-> n]
RowsOf(cs)    == [dir |-> "Horizontal", children |-> cs]
ColsOf(cs)    == [dir |-> "Vertical", children |-> cs]

(* Three columns; a row of three over one; two columns of two rows that    *)
(* do not meet.                                                            *)
MCTemplates ==
  {ColsOf(<<Weighed(1, Pane(1)), Weighed(2, Pane(2)), Weighed(1, Pane(3))>>),
   RowsOf(<<Weighed(3, ColsOf(<<Weighed(1, Pane(3)), Weighed(2, Pane(1)),
                                Weighed(1, Pane(4))>>)),
            Weighed(1, Pane(2))>>),
   ColsOf(<<Weighed(1, RowsOf(<<Weighed(1, Pane(1)), Weighed(2, Pane(2))>>)),
            Weighed(1, RowsOf(<<Weighed(1, Pane(3)), Weighed(8, Pane(4))>>))>>)}

MCDeclared == {Built(t) : t \in MCTemplates}

(* Both axes can be dragged; the clamp of a ratio and the minimum of a pane*)
(* disagree; there is no room for two panes.                               *)
MCViews == {<<10, 10>>, <<2, 48>>, <<1, 3>>}

MCDeltas == {-40, -3, 3, 40}
===============================================================================
