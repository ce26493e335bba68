---------------------------- MODULE MCWindowManager ----------------------------
(* Three windows and three panes: a pane can be moved out of a window that *)
(* keeps another one and into a third, the mark can be elsewhere than the  *)
(* focus, and a popup can float over two windows.  A focus history of one  *)
(* overflows at the second move.  One window at a time is monitored for    *)
(* silence: it may be the active one, another one, or one that is closed.  *)
(* The ids are interchangeable.                                            *)
EXTENDS WindowManager, TLC

CONSTANTS w1, w2, w3, p1, p2, p3

MCWindows    == {w1, w2, w3}
MCPanes      == {p1, p2, p3}
MCHistoryCap == 1
MCMonitorCap == 1
MCSymmetry   == Permutations(MCWindows) \cup Permutations(MCPanes)
===============================================================================
