------------------------- MODULE WindowManagerProofs --------------------------
(***************************************************************************)
(* The window manager keeps its panes, windows, children and tick task in  *)
(* step, for any number of windows and panes.  The inductive invariant     *)
(* adds to the properties that the windows are sound (WindowProofs) and    *)
(* that the pane of a leaf or of the popup has not been given back yet, and*)
(* that the popup is not stranded.                                         *)
(* The steps that a failing resize cuts short keep it too.                 *)
(***************************************************************************)
EXTENDS WindowManager, WindowProofs

(* The windows by themselves: one tab each, and each of them sound.        *)
TabsSound ==
  /\ order \in Seq(Windows) /\ IsInjective(order)
  /\ win = [w \in Windows |-> win[w]]
  /\ \A w \in OpenWindows : Sound(win[w])
  /\ active \in Windows

(* What refers to a pane, and where its child is.                          *)
PanesSound ==
  /\ mark \in Panes \cup {None}
  /\ popup \in Panes \cup {None}
  /\ child \in [Panes -> {"none", "running", "ending"}]
  /\ popup # None => child[popup] # "none" /\ popup \notin stranded
  /\ \A w \in OpenWindows : \A p \in PanesOf(w) : child[p] # "none"

IInv ==
  /\ TabsSound /\ PanesSound
  /\ ReferencesLive /\ OnePlace /\ NoLeakedChild /\ TickWhenNeeded

LEMMA OpenAreWindows == TabsSound => OpenWindows \subseteq Windows
  BY LenProperties DEF TabsSound, OpenWindows, ToSet

LEMMA OpenHoldPanes ==
  ASSUME TabsSound, NEW w \in OpenWindows PROVE PanesOf(w) \subseteq Panes
  BY LeavesArePanes DEF TabsSound, PanesOf

LEMMA NoneIsEmpty == ASSUME NEW s \in Seq(Windows) PROVE s # <<>> <=> ToSet(s) # {}
  <1>1. DOMAIN s = 1 .. Len(s) /\ Len(s) \in Nat
    BY LenProperties
  <1>2. CASE s = <<>>
    BY <1>2 DEF ToSet
  <1>3. CASE s # <<>>
    <2>1. 1 \in DOMAIN s
      BY <1>1, <1>3, EmptySeq
    <2> QED
      BY <2>1, <1>3 DEF ToSet
  <1> QED
    BY <1>2, <1>3

LEMMA Reconciled == Reconcile => TickWhenNeeded'
  BY DEF Reconcile, TickWhenNeeded, Monitored, OpenWindows

(* A step that leaves every pane in its window, the popup, the children    *)
(* and the monitored windows as they are.                                  *)
LEMMA Rearranging ==
  ASSUME IInv, TabsSound', OpenWindows' = OpenWindows,
         \A w \in OpenWindows :
           ToSet(win'[w].leaves) = PanesOf(w) /\ win'[w].silence = win[w].silence,
         HasWindow => active' \in OpenWindows,
         lastActive' \in OpenWindows \cup {None},
         mark' \in {mark, None} \/ \E w \in OpenWindows : mark' \in PanesOf(w),
         popup' = popup, child' = child, stranded' = stranded, ReconcileUnlessFailed
  PROVE  IInv'
  <1> USE DEF IInv
  <1>1. \A w \in OpenWindows : PanesOf(w)' = PanesOf(w)
    BY DEF PanesOf
  <1>2. PanesSound'
    BY <1>1, OpenHoldPanes DEF PanesSound
  <1>3. ReferencesLive'
    <2>1. HasWindow' <=> OpenWindows # {}
      BY NoneIsEmpty DEF TabsSound, HasWindow, OpenWindows
    <2>2. HasWindow <=> OpenWindows # {}
      BY NoneIsEmpty DEF TabsSound, HasWindow, OpenWindows
    <2> QED
      BY <1>1, <2>1, <2>2 DEF ReferencesLive
  <1>4. OnePlace'
    <2>1. IsInjective(order') /\ \A w \in OpenWindows : IsInjective(win'[w].leaves)
      BY DEF TabsSound, Sound
    <2> QED
      BY <1>1, <2>1 DEF OnePlace
  <1>5. NoLeakedChild'
    BY <1>1 DEF NoLeakedChild
  <1>6. TickWhenNeeded'
    BY Reconciled DEF TickWhenNeeded, Monitored, ReconcileUnlessFailed
  <1> QED
    BY <1>2, <1>3, <1>4, <1>5, <1>6

LEMMA InitIInv == Init => IInv
  <1> SUFFICES ASSUME NEW w \in Windows, NEW p \in Panes, 
    order = <<w>>,
    win = [v \in Windows |-> IF v = w THEN Assemble(p) ELSE Closed],
    active = w,
    lastActive = None, mark = None, popup = None,
    child = [q \in Panes |-> IF q = p THEN "running" ELSE "none"],
    tick = "off", stranded = {} PROVE IInv
    BY DEF Init
  <1>1. OpenWindows = {w} /\ order \in Seq(Windows) /\ IsInjective(order)
    BY DEF OpenWindows, ToSet, IsInjective
  <1>2. win[w] = Assemble(p)
    OBVIOUS
  <1>3. Sound(win[w]) /\ PanesOf(w) = {p} /\ ~win[w].silence
    BY <1>2, AssembleSound DEF PanesOf
  <1> QED
    BY <1>1, <1>3, WindowAssumption DEF IInv, TabsSound, PanesSound, ReferencesLive, OnePlace,
       NoLeakedChild, TickWhenNeeded, Monitored, Sound

-----------------------------------------------------------------------------
(* Ending the zoom of the active window changes nothing else.              *)
LEMMA UnzoomedIs ==
  ASSUME TabsSound, active \in OpenWindows
  PROVE  /\ WinUnzoomed = [w \in Windows |-> WinUnzoomed[w]]
         /\ \A w \in OpenWindows :
              /\ Sound(WinUnzoomed[w]) /\ ToSet(WinUnzoomed[w].leaves) = PanesOf(w)
              /\ WinUnzoomed[w].leaves = win[w].leaves
              /\ WinUnzoomed[w].active = win[w].active
              /\ WinUnzoomed[w].silence = win[w].silence
  BY OpenAreWindows, UnzoomedSound DEF TabsSound, WinUnzoomed, PanesOf

(* The tabs stay as they are.                                              *)
LEMMA SameTabs ==
  ASSUME IInv, HasWindow, order' = order, win' = [w \in Windows |-> win'[w]],
         \A w \in OpenWindows :
           /\ Sound(win'[w]) /\ ToSet(win'[w].leaves) = PanesOf(w)
           /\ win'[w].silence = win[w].silence,
         active' \in OpenWindows, lastActive' \in OpenWindows \cup {None},
         mark' \in {mark, None}, popup' = popup, child' = child, stranded' = stranded,
         ReconcileUnlessFailed
  PROVE  IInv'
  <1>1. TabsSound /\ OpenWindows' = OpenWindows
    BY DEF IInv, OpenWindows
  <1>2. TabsSound'
    BY <1>1, OpenAreWindows DEF TabsSound
  <1> QED
    BY <1>1, <1>2, Rearranging

LEMMA ActiveIsOpen ==
  ASSUME IInv, HasWindow
  PROVE  /\ TabsSound /\ active \in OpenWindows /\ active \in Windows
         /\ Sound(win[active]) /\ win[active].active \in PanesOf(active)
         /\ lastActive \in OpenWindows \cup {None}
  BY DEF IInv, TabsSound, ReferencesLive, PanesOf, Sound

(* One window is rearranged, the active one perhaps unzoomed before that.  *)
LEMMA OneChanges ==
  ASSUME IInv, HasWindow, NEW f \in {win, WinUnzoomed}, NEW w \in OpenWindows, NEW r,
         Sound(r), ToSet(r.leaves) = PanesOf(w), r.silence = win[w].silence,
         win' = [f EXCEPT ![w] = r], order' = order,
         active' \in OpenWindows, lastActive' \in OpenWindows \cup {None},
         mark' \in {mark, None}, popup' = popup, child' = child, stranded' = stranded,
         ReconcileUnlessFailed
  PROVE  IInv'
  <1>1. TabsSound /\ active \in OpenWindows
    BY ActiveIsOpen
  <1>2. /\ f = [v \in Windows |-> f[v]]
        /\ \A v \in OpenWindows :
             Sound(f[v]) /\ f[v].leaves = win[v].leaves /\ f[v].silence = win[v].silence
    BY <1>1, UnzoomedIs DEF TabsSound
  <1>3. win' = [v \in Windows |-> win'[v]]
    BY <1>2
  <1>4. \A v \in OpenWindows : win'[v] = IF v = w THEN r ELSE f[v]
    BY <1>1, <1>2, OpenAreWindows
  <1>5. \A v \in OpenWindows :
           /\ Sound(win'[v]) /\ ToSet(win'[v].leaves) = PanesOf(v)
           /\ win'[v].silence = win[v].silence
    BY <1>2, <1>4 DEF PanesOf
  <1> QED
    BY <1>3, <1>5, SameTabs

LEMMA OnlyUnzoomKeeps == IInv /\ OnlyUnzoom => IInv'
  <1> SUFFICES ASSUME IInv, OnlyUnzoom PROVE IInv'
    OBVIOUS
  <1>1. /\ HasWindow /\ win' = WinUnzoomed /\ order' = order
        /\ active' = active /\ lastActive' = lastActive
        /\ mark' = mark /\ popup' = popup /\ child' = child /\ stranded' = stranded
        /\ ReconcileUnlessFailed
    BY DEF OnlyUnzoom
  <1>2. /\ WinUnzoomed = [w \in Windows |-> WinUnzoomed[w]]
        /\ \A w \in OpenWindows :
             /\ Sound(WinUnzoomed[w]) /\ ToSet(WinUnzoomed[w].leaves) = PanesOf(w)
             /\ WinUnzoomed[w].silence = win[w].silence
    BY <1>1, ActiveIsOpen, UnzoomedIs DEF PanesOf
  <1> QED
    BY <1>1, <1>2, ActiveIsOpen, SameTabs

LEMMA SwitchKeeps ==
  ASSUME IInv, NEW w \in Windows, SwitchTo(w) \/ SelectWindowById(w) PROVE IInv'
  <1>1. /\ w \in OpenWindows /\ win' = WinUnzoomed /\ order' = order
        /\ active' = w /\ lastActive' \in {active, lastActive}
        /\ mark' = mark /\ popup' = popup /\ child' = child /\ stranded' = stranded
        /\ ReconcileUnlessFailed
    BY DEF SwitchTo, SelectWindowById, ReconcileUnlessFailed
  <1>2. HasWindow
    BY <1>1, NoneIsEmpty DEF IInv, TabsSound, HasWindow, OpenWindows
  <1>3. active \in OpenWindows /\ lastActive' \in OpenWindows \cup {None}
    BY <1>1, <1>2, ActiveIsOpen
  <1>4. /\ win' = [v \in Windows |-> win'[v]]
        /\ \A v \in OpenWindows :
             /\ Sound(win'[v]) /\ ToSet(win'[v].leaves) = PanesOf(v)
             /\ win'[v].silence = win[v].silence
    BY <1>1, <1>2, ActiveIsOpen, UnzoomedIs DEF PanesOf
  <1> QED
    BY <1>1, <1>2, <1>3, <1>4, SameTabs

LEMMA FocusPaneByIdKeeps ==
  ASSUME IInv, NEW w \in Windows, NEW p \in Panes, FocusPaneById(w, p) PROVE IInv'
  <1> DEFINE r == Focus(Unzoomed(win[w]), p)
  <1>1. /\ w \in OpenWindows /\ order' = order
        /\ active' = w /\ lastActive' = lastActive
        /\ mark' = mark /\ popup' = popup /\ child' = child /\ stranded' = stranded
        /\ ReconcileUnlessFailed
        /\ win' = [win EXCEPT ![w] = r]
    BY DEF FocusPaneById, ReconcileUnlessFailed
  <1>2. HasWindow
    BY <1>1, NoneIsEmpty DEF IInv, TabsSound, HasWindow, OpenWindows
  <1>3. Sound(r) /\ ToSet(r.leaves) = PanesOf(w) /\ r.silence = win[w].silence
    <2> DEFINE u == Unzoomed(win[w])
    <2>1. Sound(win[w])
      BY <1>1 DEF IInv, TabsSound
    <2>2. Sound(u) /\ u.leaves = win[w].leaves /\ u.silence = win[w].silence
      BY <2>1, UnzoomedSound
    <2> HIDE DEF u
    <2>3. /\ Sound(Focus(u, p)) /\ Focus(u, p).leaves = u.leaves
          /\ Focus(u, p).silence = u.silence
      BY <2>2, FocusSound
    <2>4. r = Focus(u, p)
      BY DEF u
    <2> QED
      BY <2>2, <2>3, <2>4 DEF PanesOf
  <1> HIDE DEF r
  <1> QED
    BY <1>1, <1>2, <1>3, ActiveIsOpen, OneChanges

(* What happens inside the active window.                                  *)
LEMMA ActiveChanges ==
  ASSUME IInv,
         \/ \E p \in Panes : SelectPane(p) \/ SwapPane(p) \/ Click(p)
         \/ \E p, q \in Panes : DropPane(p, q)
         \/ \E main \in BOOLEAN : SelectLayout(main)
         \/ ZoomToggle
  PROVE  IInv'
  <1> DEFINE u == WinUnzoomed[active]
             a == win[active]
  <1>1. /\ HasWindow /\ order' = order /\ active' = active /\ lastActive' = lastActive
        /\ mark' = mark /\ popup' = popup /\ child' = child /\ stranded' = stranded
        /\ ReconcileUnlessFailed
    BY DEF SelectPane, SwapPane, Click, DropPane, SelectLayout, ZoomToggle,
       ReconcileUnlessFailed
  <1>2. /\ TabsSound /\ active \in OpenWindows /\ lastActive \in OpenWindows \cup {None}
        /\ Sound(a) /\ ToSet(a.leaves) = PanesOf(active)
    BY <1>1, ActiveIsOpen DEF PanesOf
  <1>3. /\ Sound(u) /\ ToSet(u.leaves) = PanesOf(active)
        /\ u.active = a.active /\ u.silence = a.silence
    BY <1>2, UnzoomedIs DEF PanesOf
  <1>4. ASSUME NEW f \in {win, WinUnzoomed}, NEW r,
               Sound(r), ToSet(r.leaves) = PanesOf(active), r.silence = a.silence,
               win' = [f EXCEPT ![active] = r]
        PROVE  IInv'
    BY <1>1, <1>2, <1>4, OneChanges
  <1>5. ASSUME NEW p \in Panes, SelectPane(p) PROVE IInv'
    <2>1. win' = [WinUnzoomed EXCEPT ![active] = Focused(u, p)] /\ p \in PanesOf(active)
      BY <1>5 DEF SelectPane
    <2> QED
      BY <2>1, <1>3, <1>4, FocusedSound
  <1>6. ASSUME NEW p \in Panes, SwapPane(p) PROVE IInv'
    <2>1. win' = [WinUnzoomed EXCEPT ![active] = Swapped(u, u.active, p)]
      BY <1>6 DEF SwapPane
    <2>2. p \in PanesOf(active)
      BY <1>2, <1>6, NeighborsAreLeaves DEF SwapPane
    <2>3. u.active \in ToSet(u.leaves) /\ p \in ToSet(u.leaves)
      BY <2>2, <1>3 DEF Sound
    <2>4. /\ Sound(Swapped(u, u.active, p)) /\ Swapped(u, u.active, p).silence = a.silence
          /\ ToSet(Swapped(u, u.active, p).leaves) = PanesOf(active)
      BY <2>3, <1>3, SwappedSound
    <2> QED
      BY <2>1, <2>4, <1>4
  <1>7. ASSUME NEW p \in Panes, Click(p) PROVE IInv'
    <2>1. win' = [win EXCEPT ![active] = Focus(a, p)]
      BY <1>7 DEF Click
    <2> QED
      BY <2>1, <1>2, <1>4, FocusSound
  <1>8. ASSUME NEW p \in Panes, NEW q \in Panes, DropPane(p, q) PROVE IInv'
    <2>1. /\ win' = [win EXCEPT ![active] = Focus(Swapped(a, p, q), p)]
          /\ p \in PanesOf(active) /\ q \in PanesOf(active)
      BY <1>8 DEF DropPane
    <2>2. /\ Sound(Swapped(a, p, q)) /\ Swapped(a, p, q).silence = a.silence
          /\ ToSet(Swapped(a, p, q).leaves) = PanesOf(active)
      BY <2>1, <1>2, SwappedSound
    <2> QED
      BY <2>1, <2>2, <1>4, FocusSound
  <1>9. ASSUME NEW main \in BOOLEAN, SelectLayout(main) PROVE IInv'
    <2>1. win' = [WinUnzoomed EXCEPT ![active] = Arranged(u, main)]
      BY <1>9 DEF SelectLayout
    <2> QED
      BY <2>1, <1>3, <1>4, ArrangedSound
  <1>10. CASE ZoomToggle
    <2>1. win' = [win EXCEPT ![active] = ZoomToggled(a)]
      BY <1>10 DEF ZoomToggle
    <2> QED
      BY <2>1, <1>2, <1>4, ZoomToggledSound
  <1> QED
    BY <1>5, <1>6, <1>7, <1>8, <1>9, <1>10

LEMMA ToggleMarkKeeps == IInv /\ ToggleMark => IInv'
  <1> SUFFICES ASSUME IInv, ToggleMark PROVE IInv'
    OBVIOUS
  <1>1. /\ HasWindow /\ order' = order /\ win' = win /\ active' = active
        /\ lastActive' = lastActive /\ popup' = popup /\ child' = child
        /\ stranded' = stranded /\ ReconcileUnlessFailed
        /\ mark' \in {win[active].active, None}
    BY DEF ToggleMark, ReconcileUnlessFailed
  <1>2. /\ TabsSound /\ active \in OpenWindows /\ lastActive \in OpenWindows \cup {None}
        /\ win[active].active \in PanesOf(active)
    BY <1>1, ActiveIsOpen
  <1>3. TabsSound' /\ OpenWindows' = OpenWindows
    BY <1>1, <1>2 DEF TabsSound, OpenWindows
  <1>4. \A w \in OpenWindows :
           ToSet(win'[w].leaves) = PanesOf(w) /\ win'[w].silence = win[w].silence
    BY <1>1 DEF PanesOf
  <1>5. mark' \in {mark, None} \/ \E w \in OpenWindows : mark' \in PanesOf(w)
    BY <1>1, <1>2
  <1> QED
    BY <1>1, <1>2, <1>3, <1>4, <1>5, Rearranging

LEMMA DroppedTabs ==
  ASSUME IInv, NEW w \in Windows, NEW i \in DOMAIN order, DropTab(w, i)
  PROVE  order' \in Seq(Windows) /\ IsInjective(order') /\ OpenWindows' = OpenWindows
  <1>1. TabsSound /\ w \in OpenWindows /\ order \in Seq(Windows) /\ IsInjective(order)
    BY DEF IInv, TabsSound, DropTab
  <1> DEFINE rest == Without(order, w)
  <1>2. /\ rest \in Seq(Windows) /\ IsInjective(rest) /\ ToSet(rest) = OpenWindows \ {w}
        /\ Len(rest) = Len(order) - 1
    BY <1>1, WithoutIs DEF OpenWindows
  <1>3. i \in 1 .. Len(rest) + 1
    BY <1>1, <1>2, LenProperties
  <1>4. order' = InsertAt(rest, i, w)
    BY DEF DropTab
  <1> HIDE DEF rest
  <1>5. order' \in Seq(Windows) /\ IsInjective(order') /\ ToSet(order') = OpenWindows
    <2>1. w \in Windows \ ToSet(rest)
      BY <1>2
    <2>2. ToSet(order') = ToSet(rest) \cup {w} /\ order' \in Seq(Windows) /\ IsInjective(order')
      BY <1>2, <1>3, <1>4, <2>1, InsertAtIs
    <2> QED
      BY <2>2, <1>1, <1>2
  <1> QED
    BY <1>5 DEF OpenWindows

LEMMA DropTabKeeps ==
  ASSUME IInv, NEW w \in Windows, NEW i \in DOMAIN order, DropTab(w, i) PROVE IInv'
  <1>1. order' \in Seq(Windows) /\ IsInjective(order') /\ OpenWindows' = OpenWindows
    BY DroppedTabs
  <1>2. win' = win /\ active' = active /\ lastActive' = lastActive
        /\ mark' = mark /\ popup' = popup /\ child' = child /\ stranded' = stranded
        /\ ReconcileUnlessFailed
    BY DEF DropTab, ReconcileUnlessFailed
  <1>3. TabsSound'
    BY <1>1, <1>2 DEF IInv, TabsSound
  <1>4. /\ HasWindow => active' \in OpenWindows
        /\ lastActive' \in OpenWindows \cup {None}
    BY <1>2 DEF IInv, ReferencesLive
  <1>5. \A v \in OpenWindows :
           ToSet(win'[v].leaves) = PanesOf(v) /\ win'[v].silence = win[v].silence
    BY <1>2 DEF PanesOf
  <1> QED
    BY <1>1, <1>2, <1>3, <1>4, <1>5, Rearranging


-----------------------------------------------------------------------------
(* Steps that only end children.                                           *)
LEMMA EndingKeeps ==
  ASSUME IInv, NEW P, child' = Killed(P),
         order' = order, win' = win, active' = active, lastActive' = lastActive,
         mark' = mark, tick' = tick, stranded' = stranded, popup' \in {popup, None},
         popup' # popup => popup \in P
  PROVE  IInv'
  <1> USE DEF IInv
  <1>1. OpenWindows' = OpenWindows /\ \A w \in OpenWindows : PanesOf(w)' = PanesOf(w)
    BY DEF OpenWindows, PanesOf
  <1>2. TabsSound'
    BY <1>1 DEF TabsSound
  <1>3. /\ child' \in [Panes -> {"none", "running", "ending"}]
        /\ \A p \in Panes : child[p] # "none" => child'[p] # "none"
        /\ \A p \in Panes : child'[p] = "running" => child[p] = "running" /\ p \notin P
    BY DEF PanesSound, Killed
  <1>4. PanesSound'
    BY <1>1, <1>3, OpenHoldPanes DEF PanesSound
  <1>5. ReferencesLive'
    BY <1>1 DEF ReferencesLive, HasWindow
  <1>6. OnePlace'
    <2>1. None \notin Panes /\ \A w \in OpenWindows : None \notin PanesOf(w)
      BY OpenHoldPanes, WindowAssumption
    <2> QED
      BY <1>1, <2>1 DEF OnePlace
  <1>7. NoLeakedChild'
    BY <1>1, <1>3 DEF NoLeakedChild
  <1>8. TickWhenNeeded'
    BY <1>1 DEF TickWhenNeeded, Monitored
  <1> QED
    BY <1>2, <1>4, <1>5, <1>6, <1>7, <1>8

LEMMA EndingsKeep ==
  ASSUME IInv,
         \/ ClosePopup
         \/ \E w \in Windows : KillWindowPanes(w)
         \/ \E p \in Panes : ChildExit(p)
  PROVE  IInv'
  <1>1. /\ order' = order /\ win' = win /\ active' = active /\ lastActive' = lastActive
        /\ mark' = mark /\ tick' = tick /\ stranded' = stranded
    BY DEF ClosePopup, KillWindowPanes, ChildExit
  <1>2. CASE ClosePopup
    BY <1>1, <1>2, EndingKeeps DEF ClosePopup
  <1>3. ASSUME NEW w \in Windows, KillWindowPanes(w) PROVE IInv'
    BY <1>1, <1>3, EndingKeeps DEF KillWindowPanes
  <1>4. ASSUME NEW p \in Panes, ChildExit(p) PROVE IInv'
    BY <1>1, <1>4, EndingKeeps DEF ChildExit
  <1> QED
    BY <1>2, <1>3, <1>4

(* A pane that nothing uses is nowhere.                                    *)
LEMMA FreshIsNowhere ==
  ASSUME IInv, NEW p \in Panes, Fresh(p)
  PROVE  p # popup /\ p # mark /\ \A w \in OpenWindows : p \notin PanesOf(w)
  BY WindowAssumption DEF IInv, PanesSound, ReferencesLive, Fresh

LEMMA KilledIs ==
  ASSUME PanesSound, NEW P
  PROVE  /\ Killed(P) \in [Panes -> {"none", "running", "ending"}]
         /\ \A p \in Panes :
              /\ Killed(P)[p] = "none" <=> child[p] = "none"
              /\ Killed(P)[p] = "running" <=> child[p] = "running" /\ p \notin P
  BY DEF PanesSound, Killed

-----------------------------------------------------------------------------
(* The tabs after a step that keeps, adds or takes away one.  f is what the*)
(* other windows become.                                                   *)
LEMMA TabsKept ==
  ASSUME TabsSound, NEW f, f = [v \in Windows |-> f[v]], NEW w \in OpenWindows, NEW r, Sound(r),
         \A v \in OpenWindows \ {w} : Sound(f[v]),
         win' = [f EXCEPT ![w] = r], order' = order, active' \in Windows
  PROVE  /\ TabsSound' /\ OpenWindows' = OpenWindows
         /\ \A v \in OpenWindows :
              PanesOf(v)' = IF v = w THEN ToSet(r.leaves) ELSE ToSet(f[v].leaves)
  <1>1. OpenWindows' = OpenWindows
    BY DEF OpenWindows
  <1>2. /\ win' = [v \in Windows |-> win'[v]]
        /\ \A v \in OpenWindows : win'[v] = IF v = w THEN r ELSE f[v]
    BY OpenAreWindows
  <1>3. TabsSound'
    BY <1>1, <1>2 DEF TabsSound
  <1> QED
    BY <1>1, <1>2, <1>3 DEF PanesOf

LEMMA TabAdded ==
  ASSUME TabsSound, NEW f, f = [v \in Windows |-> f[v]], NEW w \in Windows \ OpenWindows,
         NEW r, Sound(r), \A v \in OpenWindows : Sound(f[v]),
         win' = [f EXCEPT ![w] = r], order' = Append(order, w), active' \in Windows
  PROVE  /\ TabsSound' /\ OpenWindows' = OpenWindows \cup {w}
         /\ \A v \in OpenWindows' :
              PanesOf(v)' = IF v = w THEN ToSet(r.leaves) ELSE ToSet(f[v].leaves)
  <1>1. order' \in Seq(Windows) /\ IsInjective(order') /\ ToSet(order') = OpenWindows \cup {w}
    BY AppendIs DEF TabsSound, OpenWindows
  <1>2. OpenWindows' = OpenWindows \cup {w}
    BY <1>1 DEF OpenWindows
  <1>3. /\ win' = [v \in Windows |-> win'[v]]
        /\ \A v \in OpenWindows \cup {w} : win'[v] = IF v = w THEN r ELSE f[v]
    BY OpenAreWindows
  <1>4. TabsSound'
    BY <1>1, <1>2, <1>3 DEF TabsSound
  <1> QED
    BY <1>2, <1>3, <1>4 DEF PanesOf

LEMMA TabTaken ==
  ASSUME TabsSound, NEW f, f = [v \in Windows |-> f[v]], NEW w \in OpenWindows,
         \A v \in OpenWindows \ {w} : Sound(f[v]),
         win' = [f EXCEPT ![w] = Closed], order' = Without(order, w), active' \in Windows
  PROVE  /\ TabsSound' /\ OpenWindows' = OpenWindows \ {w}
         /\ \A v \in OpenWindows' : PanesOf(v)' = ToSet(f[v].leaves)
  <1>1. order' \in Seq(Windows) /\ IsInjective(order') /\ ToSet(order') = OpenWindows \ {w}
    BY WithoutIs DEF TabsSound, OpenWindows
  <1>2. OpenWindows' = OpenWindows \ {w}
    BY <1>1 DEF OpenWindows
  <1>3. /\ win' = [v \in Windows |-> win'[v]]
        /\ \A v \in OpenWindows \ {w} : win'[v] = f[v]
    BY OpenAreWindows
  <1>4. TabsSound'
    BY <1>1, <1>2, <1>3 DEF TabsSound
  <1> QED
    BY <1>2, <1>3, <1>4 DEF PanesOf

(* Where focus goes when a window is taken away.                           *)
LEMMA NextActiveIs ==
  ASSUME TabsSound, active \in OpenWindows, NEW w \in OpenWindows
  PROVE  /\ NextAfterDeath(w) \in Windows
         /\ OpenWindows # {w} => NextAfterDeath(w) \in OpenWindows \ {w}
  <1> DEFINE left == Without(order, w)
             i == PlaceOf(order, w)
             n == Len(left)
  <1>1. /\ order \in Seq(Windows) /\ IsInjective(order) /\ OpenWindows = ToSet(order)
    BY DEF TabsSound, OpenWindows
  <1>2. left \in Seq(Windows) /\ ToSet(left) = OpenWindows \ {w}
    BY <1>1, WithoutIs
  <1>3. i \in 1 .. Len(order)
    BY <1>1, PlaceIs
  <1>4. NextAfterDeath(w) = IF w = active /\ left # <<>>
                            THEN left[IF i <= n THEN i ELSE n] ELSE active
    BY DEF NextAfterDeath
  <1> HIDE DEF left, i
  <1>5. left # <<>> => (IF i <= n THEN i ELSE n) \in 1 .. n
    BY <1>1, <1>2, <1>3, LenProperties, EmptySeq
  <1>6. left # <<>> => left[IF i <= n THEN i ELSE n] \in ToSet(left)
    BY <1>2, <1>5, LenProperties DEF ToSet
  <1>7. left = <<>> <=> ToSet(left) = {}
    BY <1>2, NoneIsEmpty
  <1> QED
    BY <1>2, <1>4, <1>6, <1>7, OpenAreWindows

(* A command that closes the active window and a death that empties it     *)
(* agree on where the focus goes.                                          *)
LEMMA BothGoOn ==
  ASSUME TabsSound, active \in OpenWindows PROVE NextAfterKill = NextAfterDeath(active)
  <1> DEFINE left == Without(order, active)
             i == PlaceOf(order, active)
  <1>1. order \in Seq(Windows) /\ IsInjective(order) /\ OpenWindows = ToSet(order)
    BY DEF TabsSound, OpenWindows
  <1>2. left \in Seq(Windows) /\ i \in 1 .. Len(order)
    BY <1>1, WithoutIs, PlaceIs
  <1>3. i \in Int /\ Len(left) \in Int
    BY <1>1, <1>2, LenProperties
  <1>4. /\ NextAfterKill = IF left = <<>> THEN active
                          ELSE left[IF i > Len(left) THEN Len(left) ELSE i]
        /\ NextAfterDeath(active) = IF left # <<>>
                                   THEN left[IF i <= Len(left) THEN i ELSE Len(left)]
                                   ELSE active
    BY DEF NextAfterKill, NextAfterDeath
  <1> HIDE DEF left, i
  <1>5. (IF i > Len(left) THEN Len(left) ELSE i) = (IF i <= Len(left) THEN i ELSE Len(left))
    BY <1>3
  <1> QED
    BY <1>4, <1>5

(* A pane has one place if the windows are sound and share no pane.        *)
LEMMA Apart ==
  ASSUME TabsSound', \A v \in OpenWindows' : popup' \notin PanesOf(v)',
         \A v, w \in OpenWindows' : v # w => PanesOf(v)' \cap PanesOf(w)' = {}
  PROVE  OnePlace'
  <1>1. IsInjective(order') /\ \A v \in OpenWindows' : IsInjective(win'[v].leaves)
    BY DEF TabsSound, Sound
  <1> QED
    BY <1>1 DEF OnePlace

LEMMA SplitPaneKeeps ==
  ASSUME IInv, NEW p \in Panes, SplitPane(p) PROVE IInv'
  <1> USE DEF IInv
  <1> DEFINE u == WinUnzoomed[active]
             r == Split(u, p)
  <1>1. /\ HasWindow /\ Fresh(p) /\ win' = [WinUnzoomed EXCEPT ![active] = r]
        /\ child' = [child EXCEPT ![p] = "running"] /\ order' = order /\ active' = active
        /\ lastActive' = lastActive /\ mark' = mark /\ popup' = popup
        /\ stranded' = stranded \ {p} /\ ReconcileUnlessFailed
    BY DEF SplitPane, Spawn
  <1>2. /\ TabsSound /\ active \in OpenWindows /\ active \in Windows
        /\ p # popup /\ p # mark /\ \A w \in OpenWindows : p \notin PanesOf(w)
    BY <1>1, ActiveIsOpen, FreshIsNowhere
  <1>3. /\ Sound(r) /\ ToSet(r.leaves) = PanesOf(active) \cup {p}
        /\ r.silence = win[active].silence
    BY <1>2, UnzoomedIs, SplitSound
  <1> HIDE DEF r
  <1>4. /\ WinUnzoomed = [v \in Windows |-> WinUnzoomed[v]]
        /\ \A v \in OpenWindows :
             /\ Sound(WinUnzoomed[v]) /\ ToSet(WinUnzoomed[v].leaves) = PanesOf(v)
             /\ WinUnzoomed[v].silence = win[v].silence
    BY <1>2, UnzoomedIs
  <1>5. /\ TabsSound' /\ OpenWindows' = OpenWindows
        /\ \A v \in OpenWindows :
             PanesOf(v)' = IF v = active THEN PanesOf(v) \cup {p} ELSE PanesOf(v)
    BY <1>1, <1>2, <1>3, <1>4, TabsKept
  <1>6. PanesSound'
    BY <1>1, <1>2, <1>5, OpenHoldPanes DEF PanesSound
  <1>7. ReferencesLive'
    BY <1>1, <1>2, <1>5 DEF ReferencesLive, HasWindow
  <1>8. OnePlace'
    BY <1>1, <1>2, <1>5, Apart DEF OnePlace
  <1>9. NoLeakedChild'
    BY <1>1, <1>2, <1>5 DEF NoLeakedChild, PanesSound
  <1>10. TickWhenNeeded'
    <2>1. \A v \in OpenWindows : win'[v].silence = win[v].silence
      BY <1>1, <1>2, <1>3, <1>4, OpenAreWindows
    <2> QED
      BY <1>1, <1>5, <2>1, Reconciled DEF TickWhenNeeded, Monitored, ReconcileUnlessFailed
  <1> QED
    BY <1>5, <1>6, <1>7, <1>8, <1>9, <1>10

LEMMA NewWindowKeeps ==
  ASSUME IInv, NEW w \in Windows, NEW p \in Panes, NewWindow(w, p) PROVE IInv'
  <1> USE DEF IInv
  <1>1. /\ HasWindow /\ Fresh(p) /\ win' = [WinUnzoomed EXCEPT ![w] = Assemble(p)]
        /\ child' = [child EXCEPT ![p] = "running"] /\ w \notin OpenWindows
        /\ order' = Append(order, w) /\ active' = w /\ lastActive' = active
        /\ mark' = mark /\ popup' = popup /\ stranded' = stranded \ {p} /\ Reconcile
    BY DEF NewWindow, AddWindow, Spawn
  <1>2. /\ TabsSound /\ active \in OpenWindows
        /\ p # popup /\ p # mark /\ \A v \in OpenWindows : p \notin PanesOf(v)
    BY <1>1, ActiveIsOpen, FreshIsNowhere
  <1>3. Sound(Assemble(p)) /\ ToSet(Assemble(p).leaves) = {p}
    BY AssembleSound
  <1>4. /\ TabsSound' /\ OpenWindows' = OpenWindows \cup {w}
        /\ \A v \in OpenWindows' : PanesOf(v)' = IF v = w THEN {p} ELSE PanesOf(v)
    <2>1. /\ WinUnzoomed = [v \in Windows |-> WinUnzoomed[v]]
          /\ \A v \in OpenWindows :
               Sound(WinUnzoomed[v]) /\ ToSet(WinUnzoomed[v].leaves) = PanesOf(v)
      BY <1>2, UnzoomedIs
    <2>2. w \in Windows \ OpenWindows /\ active' \in Windows
      BY <1>1
    <2>3. /\ TabsSound' /\ OpenWindows' = OpenWindows \cup {w}
          /\ \A v \in OpenWindows' : PanesOf(v)' =
               IF v = w THEN ToSet(Assemble(p).leaves) ELSE ToSet(WinUnzoomed[v].leaves)
      <3> DEFINE g == WinUnzoomed
                 a == Assemble(p)
      <3>1. /\ TabsSound /\ Sound(a) /\ g = [v \in Windows |-> g[v]]
            /\ \A v \in OpenWindows : Sound(g[v])
            /\ win' = [g EXCEPT ![w] = a] /\ order' = Append(order, w)
        BY <1>1, <1>2, <1>3, <2>1
      <3> HIDE DEF g, a, IInv
      <3>2. /\ TabsSound' /\ OpenWindows' = OpenWindows \cup {w}
            /\ \A v \in OpenWindows' : PanesOf(v)' =
                 IF v = w THEN ToSet(a.leaves) ELSE ToSet(g[v].leaves)
        BY <2>2, <3>1, TabAdded
      <3> QED
        BY <3>2 DEF g, a
    <2> QED
      BY <1>3, <2>1, <2>3
  <1>5. PanesSound'
    BY <1>1, <1>2, <1>4, OpenHoldPanes DEF PanesSound
  <1>6. ReferencesLive'
    BY <1>1, <1>2, <1>4 DEF ReferencesLive
  <1>7. OnePlace'
    BY <1>1, <1>2, <1>4, Apart DEF OnePlace
  <1>8. NoLeakedChild'
    BY <1>1, <1>2, <1>4 DEF NoLeakedChild, PanesSound
  <1> QED
    BY <1>1, <1>4, <1>5, <1>6, <1>7, <1>8, Reconciled

(* A window goes, with the panes in it, all of which die.                  *)
LEMMA CloseWindowKeeps ==
  ASSUME IInv, NEW w \in OpenWindows, CloseWindow(w, NextAfterDeath(w)), Reconcile,
         stranded' = stranded, mark' = IF mark \in PanesOf(w) THEN None ELSE mark,
         child' \in [Panes -> {"none", "running", "ending"}],
         \A p \in Panes \ PanesOf(w) : child'[p] = "none" <=> child[p] = "none",
         \A p \in Panes : child'[p] = "running" <=>
           child[p] = "running" /\ p \notin PanesOf(w) \cup DoomedPopup(w)
  PROVE  IInv'
  <1> USE DEF IInv
  <1>1. HasWindow
    BY NoneIsEmpty DEF TabsSound, HasWindow, OpenWindows
  <1>2. /\ order' = Without(order, w) /\ win' = [win EXCEPT ![w] = Closed]
        /\ active' = NextAfterDeath(w) /\ lastActive' = LastAfter(w, NextAfterDeath(w))
        /\ popup' = IF order' = <<>> THEN None ELSE popup
    BY DEF CloseWindow
  <1>3. /\ TabsSound' /\ OpenWindows' = OpenWindows \ {w}
        /\ \A v \in OpenWindows' : PanesOf(v)' = PanesOf(v)
    <2>1. \A v \in OpenWindows \ {w} : Sound(win[v])
      BY DEF TabsSound
    <2> QED
      BY <1>1, <1>2, <2>1, ActiveIsOpen, NextActiveIs, TabTaken DEF TabsSound, PanesOf
  <1>4. order' = <<>> <=> OpenWindows' = {}
    BY <1>3, NoneIsEmpty DEF TabsSound, OpenWindows
  <1>5. PanesSound'
    <2>1. mark' \in Panes \cup {None} /\ popup' \in Panes \cup {None}
      BY <1>2 DEF PanesSound
    <2>2. \A v \in OpenWindows' : \A p \in PanesOf(v)' : p \in Panes \ PanesOf(w)
      BY <1>3, OpenHoldPanes DEF OnePlace
    <2>3. popup' # None => popup' \in Panes \ PanesOf(w) /\ popup' = popup
      BY <1>2 DEF PanesSound, OnePlace
    <2> QED
      BY <1>3, <2>1, <2>2, <2>3 DEF PanesSound
  <1>6. ReferencesLive'
    <2>1. HasWindow' => active' \in OpenWindows'
      BY <1>1, <1>2, <1>3, <1>4, ActiveIsOpen, NextActiveIs DEF HasWindow
    <2>2. lastActive' \in OpenWindows' \cup {None}
      BY <1>2, <1>3 DEF ReferencesLive, LastAfter
    <2>3. mark' # None =>
            mark' \in stranded' \/ \E v \in OpenWindows' : mark' \in PanesOf(v)'
      BY <1>3 DEF ReferencesLive
    <2> QED
      BY <2>1, <2>2, <2>3 DEF ReferencesLive
  <1>7. OnePlace'
    <2>1. None \notin Panes /\ \A v \in OpenWindows : None \notin PanesOf(v)
      BY OpenHoldPanes, WindowAssumption
    <2> QED
      BY <1>2, <1>3, <2>1, Apart DEF OnePlace
  <1>8. NoLeakedChild'
    <2>1. ASSUME NEW p \in Panes, child'[p] = "running"
          PROVE  p = popup' \/ p \in stranded' \/ \E v \in OpenWindows' : p \in PanesOf(v)'
      <3>1. child[p] = "running" /\ p \notin PanesOf(w) /\ p \notin DoomedPopup(w)
        BY <2>1
      <3>2. CASE p = popup
        <4>1. order' # <<>>
          BY <1>2, <3>1, <3>2, WindowAssumption DEF DoomedPopup
        <4> QED
          BY <1>2, <3>2, <4>1
      <3>3. CASE p # popup
        BY <1>3, <3>1, <3>3 DEF NoLeakedChild
      <3> QED
        BY <3>2, <3>3
    <2> QED
      BY <2>1 DEF NoLeakedChild
  <1> QED
    BY <1>3, <1>5, <1>6, <1>7, <1>8, Reconciled

LEMMA KillWindowKeeps == IInv /\ KillWindow => IInv'
  <1> SUFFICES ASSUME IInv, KillWindow PROVE IInv'
    OBVIOUS
  <1>1. active \in OpenWindows /\ TabsSound /\ PanesSound
    BY ActiveIsOpen DEF KillWindow, IInv
  <1>2. CloseWindow(active, NextAfterDeath(active))
    BY <1>1, BothGoOn DEF KillWindow
  <1> QED
    BY <1>1, <1>2, KilledIs, CloseWindowKeeps DEF KillWindow

(* A pane is taken out of a window that keeps others; it is stranded if    *)
(* the mark stays on it or its child goes on running.                      *)
LEMMA RemovalKeeps ==
  ASSUME IInv, NEW f \in {win, WinUnzoomed}, NEW w \in OpenWindows, NEW p \in PanesOf(w),
         PanesOf(w) # {p}, win' = [f EXCEPT ![w] = Removed(f[w], p)],
         ReconcileUnlessFailed,
         order' = order, active' = active, lastActive' = lastActive, popup' = popup,
         stranded' \in {stranded, stranded \cup {p}},
         mark' \in {mark, Becomes(mark, p, None)},
         mark' = p => p \in stranded',
         child' \in [Panes -> {"none", "running", "ending"}],
         child'[p] = "running" => p \in stranded',
         \A q \in Panes \ {p} : child'[q] = child[q]
  PROVE  IInv'
  <1> USE DEF IInv
  <1>1. HasWindow
    BY NoneIsEmpty DEF TabsSound, HasWindow, OpenWindows
  <1>2. /\ TabsSound /\ active \in OpenWindows /\ active \in Windows
    BY <1>1, ActiveIsOpen
  <1>3. /\ f = [v \in Windows |-> f[v]]
        /\ \A v \in OpenWindows :
             /\ Sound(f[v]) /\ ToSet(f[v].leaves) = PanesOf(v)
             /\ f[v].silence = win[v].silence
    BY <1>2, UnzoomedIs DEF TabsSound, PanesOf
  <1>4. /\ Sound(Removed(f[w], p)) /\ ToSet(Removed(f[w], p).leaves) = PanesOf(w) \ {p}
        /\ Removed(f[w], p).silence = win[w].silence
    <2>1. Sound(f[w]) /\ p \in ToSet(f[w].leaves) /\ ToSet(f[w].leaves) # {p}
      BY <1>3
    <2> QED
      BY <1>3, <2>1, RemovedSound
  <1>5. /\ TabsSound' /\ OpenWindows' = OpenWindows
        /\ \A v \in OpenWindows : PanesOf(v)' = PanesOf(v) \ {p}
    <2>1. \A v \in OpenWindows \ {w} : p \notin PanesOf(v)
      BY DEF OnePlace
    <2>2. active' \in Windows
      BY <1>2
    <2>3. /\ TabsSound' /\ OpenWindows' = OpenWindows
          /\ \A v \in OpenWindows : PanesOf(v)' =
               IF v = w THEN ToSet(Removed(f[w], p).leaves) ELSE ToSet(f[v].leaves)
      <3> DEFINE r == Removed(f[w], p)
      <3>1. TabsSound /\ win' = [f EXCEPT ![w] = r] /\ order' = order
        BY <1>2
      <3>2. Sound(r)
        BY <1>4
      <3> HIDE DEF r, IInv
      <3>3. f = [v \in Windows |-> f[v]] /\ \A v \in OpenWindows \ {w} : Sound(f[v])
        BY <1>3
      <3>4. /\ TabsSound' /\ OpenWindows' = OpenWindows
            /\ \A v \in OpenWindows : PanesOf(v)' =
                 IF v = w THEN ToSet(r.leaves) ELSE ToSet(f[v].leaves)
        BY <2>2, <3>1, <3>2, <3>3, TabsKept
      <3> QED
        BY <3>4 DEF r
    <2> QED
      BY <1>3, <1>4, <2>1, <2>3
  <1>6. PanesSound'
    <2>1. popup # p
      BY DEF OnePlace
    <2> QED
      BY <1>5, <2>1, OpenHoldPanes DEF PanesSound, Becomes
  <1>7. ReferencesLive'
    BY <1>1, <1>2, <1>5 DEF ReferencesLive, Becomes
  <1>8. OnePlace'
    BY <1>5, Apart DEF OnePlace
  <1>9. NoLeakedChild'
    BY <1>5 DEF NoLeakedChild
  <1>10. TickWhenNeeded'
    <2>1. \A v \in OpenWindows : win'[v].silence = win[v].silence
      BY <1>3, <1>4, OpenAreWindows, <1>2
    <2> QED
      BY <1>5, <2>1, Reconciled DEF TickWhenNeeded, Monitored, ReconcileUnlessFailed
  <1> QED
    BY <1>5, <1>6, <1>7, <1>8, <1>9, <1>10

(* How many leaves there are, against which panes are at them.             *)
LEMMA OnlyLeaf ==
  ASSUME NEW w, Sound(w), NEW p \in ToSet(w.leaves)
  PROVE  Len(w.leaves) > 1 => ToSet(w.leaves) # {p}
  <1>1. /\ Len(w.leaves) \in Nat /\ DOMAIN w.leaves = 1 .. Len(w.leaves)
    BY LenProperties DEF Sound
  <1>2. ASSUME Len(w.leaves) > 1
        PROVE  /\ w.leaves[1] # w.leaves[2]
               /\ {w.leaves[1], w.leaves[2]} \subseteq ToSet(w.leaves)
    BY <1>1, <1>2 DEF Sound, IsInjective, ToSet
  <1> QED
    BY <1>2

(* The mark is off a pane that has left its window, or the pane counts as  *)
(* stranded.                                                               *)
LEMMA Unmarked ==
  ASSUME IInv, NEW w \in OpenWindows, NEW p \in PanesOf(w), Unmark(p)
  PROVE  /\ mark' \in {mark, Becomes(mark, p, None)}
         /\ stranded' \in {stranded, stranded \cup {p}}
         /\ mark' = p => p \in stranded'
  <1>1. p \in Panes /\ None \notin Panes
    BY OpenHoldPanes, WindowAssumption DEF IInv
  <1> QED
    BY <1>1 DEF Unmark, Becomes

LEMMA KillPaneKeeps == IInv /\ KillPane => IInv'
  <1> SUFFICES ASSUME IInv, KillPane PROVE IInv'
    OBVIOUS
  <1> DEFINE p == win[active].active
  <1>1. CASE Len(win[active].leaves) = 1 /\ KillWindow
    BY <1>1, KillWindowKeeps
  <1>2. CASE ~(Len(win[active].leaves) = 1 /\ KillWindow)
    <2>1. /\ HasWindow /\ Len(win[active].leaves) > 1
          /\ win' = [WinUnzoomed EXCEPT ![active] = Removed(WinUnzoomed[active], p)]
          /\ child' = Killed({p}) /\ Unmark(p)
          /\ order' = order /\ active' = active /\ lastActive' = lastActive
          /\ popup' = popup /\ ReconcileUnlessFailed
      BY <1>2 DEF KillPane
    <2>2. active \in OpenWindows /\ Sound(win[active]) /\ p \in PanesOf(active) /\ PanesSound
      BY <2>1, ActiveIsOpen DEF IInv
    <2>3. PanesOf(active) # {p}
      BY <2>1, <2>2, OnlyLeaf DEF PanesOf
    <2>4. /\ child' \in [Panes -> {"none", "running", "ending"}] /\ child'[p] # "running"
          /\ \A q \in Panes \ {p} : child'[q] = child[q]
      BY <2>1, <2>2, OpenHoldPanes DEF PanesSound, Killed, IInv
    <2> HIDE DEF p
    <2>5. /\ mark' \in {mark, Becomes(mark, p, None)}
          /\ stranded' \in {stranded, stranded \cup {p}}
          /\ mark' = p => p \in stranded'
      BY <2>1, <2>2, Unmarked
    <2> QED
      BY <2>1, <2>2, <2>3, <2>4, <2>5, RemovalKeeps
  <1> QED
    BY <1>1, <1>2

LEMMA BreakPaneKeeps ==
  ASSUME IInv, NEW w \in Windows, BreakPane(w) PROVE IInv'
  <1> USE DEF IInv
  <1> DEFINE p == win[active].active
             r == Removed(WinUnzoomed[active], p)
             f == [WinUnzoomed EXCEPT ![active] = r]
  <1>1. /\ HasWindow /\ Len(win[active].leaves) > 1 /\ w \notin OpenWindows
        /\ win' = [f EXCEPT ![w] = Assemble(p)]
        /\ order' = Append(order, w) /\ active' = w /\ lastActive' = active
        /\ mark' = mark /\ popup' = popup /\ child' = child /\ stranded' = stranded
        /\ Reconcile
    BY DEF BreakPane, AddWindow
  <1>2. /\ TabsSound /\ active \in OpenWindows /\ active \in Windows
        /\ p \in PanesOf(active) /\ p \in Panes /\ Sound(win[active])
    BY <1>1, ActiveIsOpen, OpenHoldPanes
  <1>3. /\ WinUnzoomed = [v \in Windows |-> WinUnzoomed[v]]
        /\ \A v \in OpenWindows :
             Sound(WinUnzoomed[v]) /\ ToSet(WinUnzoomed[v].leaves) = PanesOf(v)
    BY <1>2, UnzoomedIs
  <1>4. Sound(r) /\ ToSet(r.leaves) = PanesOf(active) \ {p}
    <2>1. PanesOf(active) # {p}
      BY <1>1, <1>2, OnlyLeaf DEF PanesOf
    <2>2. /\ Sound(WinUnzoomed[active]) /\ p \in ToSet(WinUnzoomed[active].leaves)
          /\ ToSet(WinUnzoomed[active].leaves) # {p}
          /\ ToSet(WinUnzoomed[active].leaves) = PanesOf(active)
      BY <1>2, <1>3, <2>1
    <2> QED
      BY <2>2, RemovedSound
  <1>5. Sound(Assemble(p)) /\ ToSet(Assemble(p).leaves) = {p}
    BY <1>2, AssembleSound
  <1> HIDE DEF r, p
  <1>6. /\ f = [v \in Windows |-> f[v]]
        /\ \A v \in OpenWindows :
             Sound(f[v]) /\ ToSet(f[v].leaves) = PanesOf(v) \ {p}
    <2>1. \A v \in OpenWindows : f[v] = IF v = active THEN r ELSE WinUnzoomed[v]
      BY <1>2, <1>3, OpenAreWindows
    <2>2. \A v \in OpenWindows \ {active} : p \notin PanesOf(v)
      BY <1>2 DEF OnePlace
    <2> QED
      BY <1>2, <1>3, <1>4, <2>1, <2>2
  <1> HIDE DEF f
  <1>7. /\ TabsSound' /\ OpenWindows' = OpenWindows \cup {w}
        /\ \A v \in OpenWindows' : PanesOf(v)' = IF v = w THEN {p} ELSE PanesOf(v) \ {p}
    <2>1. w \in Windows \ OpenWindows /\ active' \in Windows
      BY <1>1
    <2>2. /\ TabsSound' /\ OpenWindows' = OpenWindows \cup {w}
          /\ \A v \in OpenWindows' : PanesOf(v)' =
               IF v = w THEN ToSet(Assemble(p).leaves) ELSE ToSet(f[v].leaves)
      <3> DEFINE a == Assemble(p)
      <3>1. /\ TabsSound /\ Sound(a) /\ f = [v \in Windows |-> f[v]]
            /\ \A v \in OpenWindows : Sound(f[v])
            /\ win' = [f EXCEPT ![w] = a] /\ order' = Append(order, w)
        BY <1>1, <1>2, <1>5, <1>6
      <3> HIDE DEF a, IInv
      <3>2. /\ TabsSound' /\ OpenWindows' = OpenWindows \cup {w}
            /\ \A v \in OpenWindows' : PanesOf(v)' =
                 IF v = w THEN ToSet(a.leaves) ELSE ToSet(f[v].leaves)
        BY <2>1, <3>1, TabAdded
      <3> QED
        BY <3>2 DEF a
    <2> QED
      BY <1>5, <1>6, <2>2
  <1>8. PanesSound'
    BY <1>1, <1>2, <1>7 DEF PanesSound
  <1>9. ReferencesLive'
    BY <1>1, <1>2, <1>7 DEF ReferencesLive
  <1>10. OnePlace'
    BY <1>1, <1>2, <1>7, Apart DEF OnePlace
  <1>11. NoLeakedChild'
    BY <1>1, <1>2, <1>7 DEF NoLeakedChild
  <1> QED
    BY <1>1, <1>7, <1>8, <1>9, <1>10, <1>11, Reconciled

LEMMA BreakPaneFailsKeeps == IInv /\ BreakPaneFails => IInv'
  <1> SUFFICES ASSUME IInv, BreakPaneFails PROVE IInv'
    OBVIOUS
  <1> DEFINE p == win[active].active
  <1>1. /\ HasWindow /\ Len(win[active].leaves) > 1
        /\ win' = [WinUnzoomed EXCEPT ![active] = Removed(WinUnzoomed[active], p)]
        /\ stranded' = stranded \cup {p} /\ mark' = mark /\ child' = child
        /\ order' = order /\ active' = active /\ lastActive' = lastActive
        /\ popup' = popup /\ ReconcileUnlessFailed
    BY DEF BreakPaneFails, ReconcileUnlessFailed
  <1>2. active \in OpenWindows /\ Sound(win[active]) /\ p \in PanesOf(active) /\ PanesSound
    BY <1>1, ActiveIsOpen DEF IInv
  <1>3. PanesOf(active) # {p}
    BY <1>1, <1>2, OnlyLeaf DEF PanesOf
  <1> HIDE DEF p
  <1>4. child' \in [Panes -> {"none", "running", "ending"}]
    BY <1>1, <1>2 DEF PanesSound
  <1> QED
    BY <1>1, <1>2, <1>3, <1>4, RemovalKeeps

LEMMA JoinPaneFailsKeeps ==
  ASSUME IInv, NEW w \in Windows, JoinPaneFails(w) PROVE IInv'
  <1>1. /\ w \in OpenWindows /\ mark \in PanesOf(w) /\ PanesOf(w) # {mark}
        /\ win' = [WinUnzoomed EXCEPT ![w] = Removed(WinUnzoomed[w], mark)]
        /\ stranded' = stranded \cup {mark} /\ mark' = mark /\ child' = child
        /\ order' = order /\ active' = active /\ lastActive' = lastActive
        /\ popup' = popup /\ ReconcileUnlessFailed
    BY DEF JoinPaneFails, MarkedIn, Parted, ReconcileUnlessFailed
  <1>2. child' \in [Panes -> {"none", "running", "ending"}]
    BY <1>1 DEF IInv, PanesSound
  <1> QED
    BY <1>1, <1>2, RemovalKeeps

LEMMA ForgetMarkKeeps == IInv /\ ForgetMark => IInv'
  <1> SUFFICES ASSUME IInv, ForgetMark PROVE IInv'
    OBVIOUS
  <1>1. /\ HasWindow /\ win' = WinUnzoomed /\ order' = order
        /\ active' = active /\ lastActive' = lastActive
        /\ mark' = None /\ popup' = popup /\ child' = child /\ stranded' = stranded
        /\ ReconcileUnlessFailed
    BY DEF ForgetMark, ReconcileUnlessFailed
  <1>2. /\ WinUnzoomed = [w \in Windows |-> WinUnzoomed[w]]
        /\ \A w \in OpenWindows :
             /\ Sound(WinUnzoomed[w]) /\ ToSet(WinUnzoomed[w].leaves) = PanesOf(w)
             /\ WinUnzoomed[w].silence = win[w].silence
    BY <1>1, ActiveIsOpen, UnzoomedIs DEF PanesOf
  <1> QED
    BY <1>1, <1>2, ActiveIsOpen, SameTabs

LEMMA SetMonitorSilenceKeeps ==
  ASSUME IInv, NEW on \in BOOLEAN, SetMonitorSilence(on) PROVE IInv'
  <1> USE DEF IInv
  <1> DEFINE r == [win[active] EXCEPT !.silence = on]
  <1>1. /\ HasWindow /\ win' = [win EXCEPT ![active] = r] /\ order' = order
        /\ active' = active /\ lastActive' = lastActive /\ mark' = mark
        /\ popup' = popup /\ child' = child /\ stranded' = stranded /\ Reconcile
    BY DEF SetMonitorSilence
  <1>2. /\ TabsSound /\ active \in OpenWindows /\ active \in Windows /\ Sound(win[active])
    BY <1>1, ActiveIsOpen
  <1>3. Sound(r) /\ ToSet(r.leaves) = PanesOf(active)
    BY <1>2, MonitoredSound DEF PanesOf
  <1> HIDE DEF r
  <1>4. /\ TabsSound' /\ OpenWindows' = OpenWindows
        /\ \A v \in OpenWindows : PanesOf(v)' = PanesOf(v)
    <2>1. win = [v \in Windows |-> win[v]] /\ \A v \in OpenWindows : Sound(win[v])
      BY <1>2 DEF TabsSound
    <2> QED
      BY <1>1, <1>2, <1>3, <2>1, TabsKept DEF PanesOf
  <1>5. PanesSound'
    BY <1>1, <1>4 DEF PanesSound
  <1>6. ReferencesLive'
    BY <1>1, <1>4 DEF ReferencesLive, HasWindow
  <1>7. OnePlace'
    BY <1>1, <1>4, Apart DEF OnePlace
  <1>8. NoLeakedChild'
    BY <1>1, <1>4 DEF NoLeakedChild
  <1> QED
    BY <1>1, <1>4, <1>5, <1>6, <1>7, <1>8, Reconciled

LEMMA SwapMarkedPaneKeeps ==
  ASSUME IInv, NEW w \in Windows, SwapMarkedPane(w) PROVE IInv'
  <1> USE DEF IInv
  <1> DEFINE p == win[active].active
             u == WinUnzoomed[active]
             x == Rekeyed(u, p, mark)
             y == Rekeyed(WinUnzoomed[w], mark, p)
             f == [WinUnzoomed EXCEPT ![active] = x]
  <1>1. /\ w \in OpenWindows /\ mark \in PanesOf(w) /\ mark # p
        /\ order' = order /\ active' = active /\ lastActive' = lastActive
        /\ mark' = mark /\ popup' = popup /\ child' = child /\ stranded' = stranded
        /\ ReconcileUnlessFailed
    BY DEF SwapMarkedPane, MarkedIn
  <1>2. HasWindow
    BY <1>1, NoneIsEmpty DEF TabsSound, HasWindow, OpenWindows
  <1>3. /\ TabsSound /\ active \in OpenWindows /\ active \in Windows
        /\ p \in PanesOf(active) /\ p \in Panes /\ lastActive \in OpenWindows \cup {None}
    BY <1>2, ActiveIsOpen, OpenHoldPanes
  <1>4. /\ WinUnzoomed = [v \in Windows |-> WinUnzoomed[v]]
        /\ \A v \in OpenWindows :
             /\ Sound(WinUnzoomed[v]) /\ ToSet(WinUnzoomed[v].leaves) = PanesOf(v)
             /\ WinUnzoomed[v].silence = win[v].silence
    BY <1>3, UnzoomedIs
  <1> HIDE DEF p
  <1>5. CASE w = active
    <2>1. win' = [WinUnzoomed EXCEPT ![active] = Swapped(u, p, mark)]
      BY <1>5 DEF SwapMarkedPane, p
    <2>2. /\ Sound(Swapped(u, p, mark)) /\ Swapped(u, p, mark).silence = win[active].silence
          /\ ToSet(Swapped(u, p, mark).leaves) = PanesOf(active)
      BY <1>1, <1>3, <1>4, <1>5, SwappedSound
    <2> HIDE DEF u
    <2> QED
      BY <1>1, <1>2, <1>3, <2>1, <2>2, OneChanges
  <1>6. CASE w # active
    <2>1. mark \notin PanesOf(active) /\ p \notin PanesOf(w) /\ mark \in Panes
      BY <1>1, <1>3, <1>6, OpenHoldPanes DEF OnePlace
    <2>2. win' = [f EXCEPT ![w] = y]
      BY <1>6 DEF SwapMarkedPane, Exchanged, p
    <2>3. /\ Sound(x) /\ ToSet(x.leaves) = (PanesOf(active) \ {p}) \cup {mark}
          /\ x.silence = win[active].silence
      BY <1>3, <1>4, <2>1, RekeyedSound
    <2>4. /\ Sound(y) /\ ToSet(y.leaves) = (PanesOf(w) \ {mark}) \cup {p}
          /\ y.silence = win[w].silence
      <3>1. /\ Sound(WinUnzoomed[w]) /\ mark \in ToSet(WinUnzoomed[w].leaves)
            /\ p \in Panes \ ToSet(WinUnzoomed[w].leaves)
            /\ ToSet(WinUnzoomed[w].leaves) = PanesOf(w)
        BY <1>1, <1>3, <1>4, <2>1
      <3>2. /\ Sound(y) /\ y.silence = WinUnzoomed[w].silence
            /\ ToSet(y.leaves) = (ToSet(WinUnzoomed[w].leaves) \ {mark}) \cup {p}
        BY <3>1, RekeyedSound
      <3> QED
        BY <1>1, <1>4, <3>1, <3>2
    <2> HIDE DEF x, y
    <2>5. /\ f = [v \in Windows |-> f[v]]
          /\ \A v \in OpenWindows : f[v] = IF v = active THEN x ELSE WinUnzoomed[v]
      BY <1>3, <1>4, OpenAreWindows
    <2> HIDE DEF f
    <2>6. /\ TabsSound' /\ OpenWindows' = OpenWindows
          /\ \A v \in OpenWindows : PanesOf(v)' =
               IF v = w THEN (PanesOf(w) \ {mark}) \cup {p}
               ELSE IF v = active THEN (PanesOf(active) \ {p}) \cup {mark} ELSE PanesOf(v)
      <3>1. \A v \in OpenWindows \ {w} : Sound(f[v])
        BY <1>4, <2>3, <2>5
      <3>2. active' \in Windows
        BY <1>1, <1>3
      <3>3. /\ TabsSound' /\ OpenWindows' = OpenWindows
            /\ \A v \in OpenWindows :
                 PanesOf(v)' = IF v = w THEN ToSet(y.leaves) ELSE ToSet(f[v].leaves)
        BY <1>1, <1>3, <2>2, <2>4, <2>5, <3>1, <3>2, TabsKept
      <3> QED
        BY <1>4, <2>3, <2>4, <2>5, <3>3
    <2>7. PanesSound'
      BY <1>1, <1>3, <2>1, <2>6 DEF PanesSound
    <2>8. ReferencesLive'
      BY <1>1, <1>3, <1>6, <2>6 DEF ReferencesLive
    <2>9. OnePlace'
      <3>1. \A v \in OpenWindows' : popup' \notin PanesOf(v)'
        BY <1>1, <1>3, <2>6 DEF OnePlace
      <3>2. \A v \in OpenWindows \ {active} : p \notin PanesOf(v)
        BY <1>3 DEF OnePlace
      <3>3. \A v \in OpenWindows \ {w} : mark \notin PanesOf(v)
        BY <1>1 DEF OnePlace
      <3>4. \A v, z \in OpenWindows' : v # z => PanesOf(v)' \cap PanesOf(z)' = {}
        BY <1>1, <2>6, <3>2, <3>3 DEF OnePlace
      <3> QED
        BY <2>6, <3>1, <3>4, Apart
    <2>10. NoLeakedChild'
      BY <1>1, <1>3, <1>6, <2>6 DEF NoLeakedChild
    <2>11. TickWhenNeeded'
      <3>1. \A v \in OpenWindows : win'[v].silence = win[v].silence
        BY <1>1, <1>3, <1>4, <2>2, <2>3, <2>4, <2>5, OpenAreWindows
      <3> QED
        BY <1>1, <2>6, <3>1, Reconciled DEF TickWhenNeeded, Monitored, ReconcileUnlessFailed
    <2> QED
      BY <2>6, <2>7, <2>8, <2>9, <2>10, <2>11
  <1> QED
    BY <1>5, <1>6

LEMMA OpenPopupKeeps ==
  ASSUME IInv, NEW p \in Panes, OpenPopup(p) PROVE IInv'
  <1> USE DEF IInv
  <1>1. /\ HasWindow /\ Fresh(p) /\ popup' = p
        /\ child' = [Killed({popup}) EXCEPT ![p] = "running"]
        /\ order' = order /\ win' = win /\ active' = active /\ lastActive' = lastActive
        /\ mark' = mark /\ tick' = tick /\ stranded' = stranded \ {p}
    BY DEF OpenPopup
  <1>2. p # popup /\ p # mark /\ \A w \in OpenWindows : p \notin PanesOf(w)
    BY <1>1, FreshIsNowhere
  <1>3. OpenWindows' = OpenWindows /\ \A w \in OpenWindows : PanesOf(w)' = PanesOf(w)
    BY <1>1 DEF OpenWindows, PanesOf
  <1>4. TabsSound'
    BY <1>1, <1>3 DEF TabsSound
  <1>5. /\ child' \in [Panes -> {"none", "running", "ending"}] /\ child'[p] = "running"
        /\ \A q \in Panes \ {p} :
             /\ child'[q] = "none" <=> child[q] = "none"
             /\ child'[q] = "running" <=> child[q] = "running" /\ q # popup
    BY <1>1, KilledIs
  <1>6. PanesSound'
    <2>1. /\ mark' \in Panes \cup {None} /\ popup' = p /\ popup' \notin stranded'
          /\ \A q \in Panes : child[q] # "none" => child'[q] # "none"
      BY <1>1, <1>5 DEF PanesSound
    <2>2. \A w \in OpenWindows : PanesOf(w) \subseteq Panes
      BY OpenHoldPanes
    <2>3. \A w \in OpenWindows : \A q \in PanesOf(w) : child'[q] # "none"
      BY <2>1, <2>2 DEF PanesSound
    <2> QED
      BY <1>3, <1>5, <2>1, <2>3 DEF PanesSound
  <1>7. ReferencesLive'
    BY <1>1, <1>2, <1>3 DEF ReferencesLive, HasWindow
  <1>8. OnePlace'
    BY <1>1, <1>2, <1>3, <1>4, Apart DEF OnePlace
  <1>9. NoLeakedChild'
    BY <1>1, <1>3, <1>5 DEF NoLeakedChild
  <1>10. TickWhenNeeded'
    BY <1>1, <1>3 DEF TickWhenNeeded, Monitored
  <1> QED
    BY <1>4, <1>6, <1>7, <1>8, <1>9, <1>10

LEMMA DeathOutsideKeeps ==
  ASSUME IInv, NEW p \in Panes, DeathOutside(p) PROVE IInv'
  <1> USE DEF IInv
  <1>1. /\ child[p] = "ending" /\ popup' = Becomes(popup, p, None)
        /\ p = popup \/ \A w \in OpenWindows : p \notin PanesOf(w)
        /\ mark' = IF p = popup THEN mark ELSE Becomes(mark, p, None)
        /\ child' = [child EXCEPT ![p] = "none"] /\ stranded' = stranded \ {p} /\ Reconcile
        /\ order' = order /\ win' = win /\ active' = active /\ lastActive' = lastActive
    BY DEF DeathOutside, Notice
  <1>2. \A w \in OpenWindows : p \notin PanesOf(w)
    BY <1>1 DEF OnePlace
  <1>3. OpenWindows' = OpenWindows /\ \A w \in OpenWindows : PanesOf(w)' = PanesOf(w)
    BY <1>1 DEF OpenWindows, PanesOf
  <1>4. TabsSound'
    BY <1>1, <1>3 DEF TabsSound
  <1>5. PanesSound'
    BY <1>1, <1>2, <1>3, OpenHoldPanes DEF PanesSound, Becomes
  <1>6. ReferencesLive'
    BY <1>1, <1>3, WindowAssumption DEF ReferencesLive, PanesSound, HasWindow, Becomes
  <1>7. OnePlace'
    <2>1. \A w \in OpenWindows : None \notin PanesOf(w)
      BY OpenHoldPanes, WindowAssumption
    <2> QED
      BY <1>1, <1>3, <1>4, <2>1, Apart DEF OnePlace, Becomes
  <1>8. NoLeakedChild'
    BY <1>1, <1>3 DEF NoLeakedChild, PanesSound, Becomes
  <1> QED
    BY <1>1, <1>4, <1>5, <1>6, <1>7, <1>8, Reconciled

LEMMA DeathRespawnsKeeps ==
  ASSUME IInv, NEW p \in Panes, NEW q \in Panes, NEW w \in Windows, DeathRespawns(p, q, w)
  PROVE  IInv'
  <1> USE DEF IInv
  <1> DEFINE r == Rekeyed(win[w], p, q)
  <1>1. /\ child[p] = "ending" /\ p # popup /\ w \in OpenWindows /\ p \in PanesOf(w)
        /\ Fresh(q) /\ win' = [win EXCEPT ![w] = r] /\ mark' = Becomes(mark, p, q)
        /\ child' = [child EXCEPT ![p] = "none", ![q] = "running"]
        /\ stranded' = stranded \ {q} /\ Reconcile
        /\ order' = order /\ active' = active /\ lastActive' = lastActive /\ popup' = popup
    BY DEF DeathRespawns, Notice
  <1>2. q # popup /\ q # p /\ q # mark /\ \A v \in OpenWindows : q \notin PanesOf(v)
    BY <1>1, FreshIsNowhere
  <1>3. /\ win = [v \in Windows |-> win[v]] /\ \A v \in OpenWindows : Sound(win[v])
        /\ active' \in Windows
    BY <1>1 DEF TabsSound
  <1>4. Sound(r) /\ ToSet(r.leaves) = (PanesOf(w) \ {p}) \cup {q}
    BY <1>1, <1>2, <1>3, RekeyedSound DEF PanesOf
  <1> HIDE DEF r
  <1>5. /\ TabsSound' /\ OpenWindows' = OpenWindows
        /\ \A v \in OpenWindows :
             PanesOf(v)' = IF v = w THEN (PanesOf(v) \ {p}) \cup {q} ELSE PanesOf(v)
    <2>1. /\ TabsSound' /\ OpenWindows' = OpenWindows
          /\ \A v \in OpenWindows :
               PanesOf(v)' = IF v = w THEN ToSet(r.leaves) ELSE ToSet(win[v].leaves)
      BY <1>1, <1>3, <1>4, TabsKept
    <2> QED
      BY <1>4, <2>1 DEF PanesOf
  <1>6. \A v \in OpenWindows \ {w} : p \notin PanesOf(v)
    BY <1>1 DEF OnePlace
  <1>7. PanesSound'
    BY <1>1, <1>2, <1>5, <1>6, OpenHoldPanes DEF PanesSound, Becomes
  <1>8. ReferencesLive'
    BY <1>1, <1>2, <1>5, <1>6 DEF ReferencesLive, HasWindow, Becomes
  <1>9. OnePlace'
    BY <1>1, <1>2, <1>5, Apart DEF OnePlace
  <1>10. NoLeakedChild'
    BY <1>1, <1>2, <1>5 DEF NoLeakedChild, PanesSound
  <1> QED
    BY <1>1, <1>5, <1>7, <1>8, <1>9, <1>10, Reconciled

LEMMA DeathClosesKeeps ==
  ASSUME IInv, NEW p \in Panes, NEW w \in Windows, DeathCloses(p, w) PROVE IInv'
  <1> USE DEF IInv
  <1>1. /\ child[p] = "ending" /\ p # popup /\ w \in OpenWindows /\ p \in PanesOf(w)
        /\ Reconcile
    BY DEF DeathCloses, Notice
  <1>2. CASE PanesOf(w) = {p}
    <2>1. /\ CloseWindow(w, NextAfterDeath(w)) /\ stranded' = stranded
          /\ child' = [Killed(DoomedPopup(w)) EXCEPT ![p] = "none"]
          /\ mark' = Becomes(mark, p, None)
      BY <1>2 DEF DeathCloses
    <2>2. mark' = IF mark \in PanesOf(w) THEN None ELSE mark
      BY <1>2, <2>1 DEF Becomes
    <2>3. /\ child' \in [Panes -> {"none", "running", "ending"}]
          /\ \A q \in Panes \ PanesOf(w) : child'[q] = "none" <=> child[q] = "none"
          /\ \A q \in Panes : child'[q] = "running" <=>
               child[q] = "running" /\ q \notin PanesOf(w) \cup DoomedPopup(w)
      BY <1>1, <1>2, <2>1, KilledIs
    <2> QED
      BY <1>1, <2>1, <2>2, <2>3, CloseWindowKeeps
  <1>3. CASE PanesOf(w) # {p}
    <2>1. /\ win' = [win EXCEPT ![w] = Removed(win[w], p)]
          /\ child' = [child EXCEPT ![p] = "none"] /\ Unmark(p)
          /\ order' = order /\ active' = active /\ lastActive' = lastActive /\ popup' = popup
          /\ ReconcileUnlessFailed
      BY <1>1, <1>3 DEF DeathCloses, ReconcileUnlessFailed
    <2>2. /\ child' \in [Panes -> {"none", "running", "ending"}] /\ child'[p] # "running"
          /\ \A q \in Panes \ {p} : child'[q] = child[q]
      BY <2>1 DEF PanesSound
    <2>3. /\ mark' \in {mark, Becomes(mark, p, None)}
          /\ stranded' \in {stranded, stranded \cup {p}}
          /\ mark' = p => p \in stranded'
      BY <1>1, <2>1, Unmarked
    <2> QED
      BY <1>1, <1>3, <2>1, <2>2, <2>3, RemovalKeeps
  <1> QED
    BY <1>2, <1>3

LEMMA JoinPaneKeeps ==
  ASSUME IInv, NEW w \in Windows, JoinPane(w) PROVE IInv'
  <1> USE DEF IInv
  <1> DEFINE x == Removed(WinUnzoomed[w], mark)
             f == [WinUnzoomed EXCEPT ![w] = x]
             y == Split(f[active], mark)
             g == [f EXCEPT ![active] = y]
  <1>1. /\ w \in OpenWindows /\ mark \in PanesOf(w) /\ mark # win[active].active
        /\ active' = active /\ mark' \in {mark, None} /\ popup' = popup /\ child' = child
        /\ stranded' = stranded /\ JoinEnds
    BY DEF JoinPane, MarkedIn, JoinEnds
  <1>2. HasWindow
    BY <1>1, NoneIsEmpty DEF TabsSound, HasWindow, OpenWindows
  <1>3. /\ TabsSound /\ active \in OpenWindows /\ active \in Windows
        /\ win[active].active \in PanesOf(active) /\ mark \in Panes
        /\ lastActive \in OpenWindows \cup {None}
        /\ \A v \in OpenWindows \ {w} : mark \notin PanesOf(v)
    BY <1>1, <1>2, ActiveIsOpen, OpenHoldPanes DEF OnePlace
  <1>4. /\ WinUnzoomed = [v \in Windows |-> WinUnzoomed[v]]
        /\ \A v \in OpenWindows :
             /\ Sound(WinUnzoomed[v]) /\ ToSet(WinUnzoomed[v].leaves) = PanesOf(v)
             /\ WinUnzoomed[v].silence = win[v].silence
    BY <1>3, UnzoomedIs
  <1>5. /\ f = [v \in Windows |-> f[v]] /\ f[w] = x
        /\ \A v \in OpenWindows \ {w} : f[v] = WinUnzoomed[v]
    BY <1>1, <1>3, <1>4, OpenAreWindows
  <1>6. PanesOf(w) # {mark} => /\ Sound(x) /\ ToSet(x.leaves) = PanesOf(w) \ {mark}
                               /\ x.silence = win[w].silence
    <2>1. /\ Sound(WinUnzoomed[w]) /\ mark \in ToSet(WinUnzoomed[w].leaves)
          /\ ToSet(WinUnzoomed[w].leaves) = PanesOf(w)
          /\ WinUnzoomed[w].silence = win[w].silence
      BY <1>1, <1>4
    <2> DEFINE u == WinUnzoomed[w]
    <2> HIDE DEF u
    <2>2. ASSUME PanesOf(w) # {mark}
          PROVE  /\ Sound(Removed(u, mark)) /\ Removed(u, mark).silence = u.silence
                 /\ ToSet(Removed(u, mark).leaves) = ToSet(u.leaves) \ {mark}
      BY <2>1, <2>2, RemovedSound DEF u
    <2> QED
      BY <2>1, <2>2 DEF u
  <1> HIDE DEF x, f
  <1>7. PanesOf(w) = {mark} => w # active
    BY <1>1, <1>3
  <1>8. Sound(f[active]) /\ mark \in Panes \ ToSet(f[active].leaves)
    <2>1. CASE active = w
      BY <1>3, <1>5, <1>6, <1>7, <2>1
    <2>2. CASE active # w
      BY <1>3, <1>4, <1>5, <2>2
    <2> QED
      BY <2>1, <2>2
  <1>9. /\ Sound(y) /\ ToSet(y.leaves) = ToSet(f[active].leaves) \cup {mark}
        /\ y.silence = f[active].silence
    BY <1>8, SplitSound
  <1> HIDE DEF y
  <1>10. IF PanesOf(w) = {mark}
         THEN /\ order' = Without(order, w) /\ win' = [g EXCEPT ![w] = Closed]
              /\ lastActive' = LastAfter(w, active)
         ELSE order' = order /\ win' = g /\ lastActive' = lastActive
    BY DEF JoinPane, Parted, g, f, x, y
  <1>11. /\ TabsSound'
         /\ OpenWindows' = IF PanesOf(w) = {mark} THEN OpenWindows \ {w} ELSE OpenWindows
         /\ \A v \in OpenWindows' : PanesOf(v)' =
              IF v = active THEN PanesOf(v) \cup {mark} ELSE PanesOf(v) \ {mark}
    <2>1. CASE PanesOf(w) = {mark}
      <3>1. g = [v \in Windows |-> g[v]]
        BY <1>5
      <3>2. \A v \in OpenWindows \ {w} : g[v] = IF v = active THEN y ELSE WinUnzoomed[v]
        BY <1>3, <1>5, OpenAreWindows
      <3> HIDE DEF g
      <3>3. \A v \in OpenWindows \ {w} :
              /\ Sound(g[v])
              /\ ToSet(g[v].leaves) =
                   IF v = active THEN PanesOf(v) \cup {mark} ELSE PanesOf(v)
        BY <1>3, <1>4, <1>5, <1>9, <3>2
      <3>4. /\ TabsSound' /\ OpenWindows' = OpenWindows \ {w}
            /\ \A v \in OpenWindows' : PanesOf(v)' = ToSet(g[v].leaves)
        <4>1. order' = Without(order, w) /\ win' = [g EXCEPT ![w] = Closed] /\ active' \in Windows
          BY <1>1, <1>3, <1>10, <2>1
        <4> QED
          BY <1>1, <1>3, <3>1, <3>3, <4>1, TabTaken
      <3> QED
        BY <1>3, <2>1, <3>3, <3>4
    <2>2. CASE PanesOf(w) # {mark}
      <3>1. \A v \in OpenWindows :
              Sound(f[v]) /\ ToSet(f[v].leaves) = PanesOf(v) \ {mark}
        BY <1>3, <1>4, <1>5, <1>6, <2>2
      <3>2. order' = order /\ win' = [f EXCEPT ![active] = y] /\ active' \in Windows
        BY <1>1, <1>3, <1>10, <2>2
      <3>3. /\ TabsSound' /\ OpenWindows' = OpenWindows
            /\ \A v \in OpenWindows :
                 PanesOf(v)' = IF v = active THEN ToSet(y.leaves) ELSE ToSet(f[v].leaves)
        <4>1. \A v \in OpenWindows \ {active} : Sound(f[v])
          BY <3>1
        <4> HIDE DEF g
        <4> QED
          BY <1>3, <1>5, <1>9, <3>2, <4>1, TabsKept
      <3> QED
        BY <1>3, <1>9, <2>2, <3>1, <3>3
    <2> QED
      BY <2>1, <2>2
  <1>12. PanesSound'
    BY <1>1, <1>3, <1>11 DEF PanesSound
  <1>13. ReferencesLive'
    <2>1. active' \in OpenWindows'
      BY <1>1, <1>3, <1>7, <1>11
    <2>2. lastActive' \in OpenWindows' \cup {None}
      BY <1>3, <1>10, <1>11 DEF LastAfter
    <2> QED
      BY <1>1, <1>3, <1>11, <2>1, <2>2 DEF ReferencesLive
  <1>14. OnePlace'
    BY <1>1, <1>3, <1>11, Apart DEF OnePlace
  <1>15. NoLeakedChild'
    BY <1>1, <1>3, <1>7, <1>11 DEF NoLeakedChild
  <1>16. TickWhenNeeded'
    <2>1. \A v \in OpenWindows' : win'[v].silence = win[v].silence
      <3>1. \A v \in OpenWindows \ {w} : f[v].silence = win[v].silence
        BY <1>4, <1>5
      <3>2. PanesOf(w) # {mark} => f[w].silence = win[w].silence
        BY <1>5, <1>6
      <3>3. y.silence = f[active].silence
        BY <1>9
      <3>4. \A v \in OpenWindows' : g[v].silence = win[v].silence
        BY <1>3, <1>5, <1>7, <1>11, <3>1, <3>2, <3>3, OpenAreWindows
      <3>5. \A v \in OpenWindows' : win'[v] = g[v]
        <4>1. g = [v \in Windows |-> g[v]] /\ OpenWindows' \subseteq Windows
          BY <1>3, <1>5, <1>11, OpenAreWindows
        <4> HIDE DEF g
        <4> QED
          BY <1>10, <1>11, <4>1
      <3> QED
        BY <3>4, <3>5
    <2>2. CASE Reconcile
      BY <2>2, Reconciled
    <2>3. CASE /\ tick' = IF tick = "runs" /\ \A v \in ToSet(order') : ~win'[v].silence
                          THEN "overruns" ELSE tick
      <3>1. OpenWindows' \subseteq OpenWindows /\ OpenWindows' = ToSet(order')
        BY <1>11 DEF OpenWindows
      <3>2. Monitored' \subseteq Monitored
        BY <2>1, <3>1 DEF Monitored
      <3>3. Monitored' = {} <=> \A v \in ToSet(order') : ~win'[v].silence
        BY <3>1 DEF Monitored
      <3> QED
        BY <2>3, <3>2, <3>3 DEF TickWhenNeeded
    <2> QED
      BY <1>1, <2>2, <2>3 DEF JoinEnds
  <1> QED
    BY <1>11, <1>12, <1>13, <1>14, <1>15, <1>16

-----------------------------------------------------------------------------
LEMMA NextIInv == IInv /\ [Next]_vars => IInv'
  <1> SUFFICES ASSUME IInv, [Next]_vars PROVE IInv'
    OBVIOUS
  <1>1. CASE Commands
    <2>1. CASE \E p \in Panes : SplitPane(p) \/ SelectPane(p) \/ SwapPane(p) \/ OpenPopup(p)
      BY <2>1, SplitPaneKeeps, ActiveChanges, OpenPopupKeeps
    <2>2. CASE \/ \E w \in Windows : SwitchTo(w) \/ BreakPane(w) \/ SwapMarkedPane(w)
               \/ \E w \in Windows : JoinPane(w) \/ JoinPaneFails(w)
      BY <2>2, SwitchKeeps, BreakPaneKeeps, JoinPaneKeeps, JoinPaneFailsKeeps,
         SwapMarkedPaneKeeps
    <2>3. CASE \E b \in BOOLEAN : SetMonitorSilence(b) \/ SelectLayout(b)
      BY <2>3, SetMonitorSilenceKeeps, ActiveChanges
    <2> QED
      BY <1>1, <2>1, <2>2, <2>3, OnlyUnzoomKeeps, KillPaneKeeps, KillWindowKeeps,
         BreakPaneFailsKeeps, ForgetMarkKeeps, ToggleMarkKeeps, ActiveChanges, EndingsKeep,
         NewWindowKeeps DEF Commands
  <1>2. CASE MouseAndTree
    BY <1>2, ActiveChanges, DropTabKeeps, SwitchKeeps, EndingsKeep, FocusPaneByIdKeeps
       DEF MouseAndTree
  <1>3. CASE Deaths
    BY <1>3, EndingsKeep, DeathOutsideKeeps, DeathRespawnsKeeps, DeathClosesKeeps DEF Deaths
  <1>4. CASE UNCHANGED vars
    <2>1. /\ order' = order /\ win' = win /\ active' = active /\ lastActive' = lastActive
          /\ mark' = mark /\ popup' = popup /\ child' = child
          /\ stranded' = stranded /\ tick' = tick
      BY <1>4 DEF vars
    <2>2. child' = Killed({})
      BY <2>1 DEF Killed, IInv, PanesSound
    <2> QED
      BY <2>1, <2>2, EndingKeeps
  <1> QED
    BY <1>1, <1>2, <1>3, <1>4 DEF Next

LEMMA AlwaysIInv == Spec => []IInv
  BY InitIInv, NextIInv, PTL DEF Spec

(* No open window is empty, and its active pane, its zoomed pane and every *)
(* pane its focus history remembers are among its panes, so that looking up*)
(* the active pane never panics and going back to the last one never       *)
(* focuses a pane of another window (window.rs, fixup_active_after_removal,*)
(* rekey_pane).                                                            *)
THEOREM OpenWindowsAreWhole == Spec => []WindowsWhole
  <1>1. IInv => WindowsWhole
    <2> SUFFICES ASSUME IInv, NEW w \in OpenWindows
                 PROVE  /\ win[w].active \in PanesOf(w)
                        /\ win[w].zoomed \in PanesOf(w) \cup {None}
                        /\ ToSet(win[w].history) \subseteq PanesOf(w)
      BY DEF WindowsWhole
    <2>1. Sound(win[w])
      BY DEF IInv, TabsSound
    <2> QED
      BY <2>1, SoundIsWindow DEF Sound, PanesOf
  <1> QED
    BY <1>1, AlwaysIInv, PTL

(* Whatever the session refers to exists, for any number of windows and    *)
(* panes: looking up the active window never panics, and the marked pane   *)
(* is in a window on every path that moves, respawns or removes panes      *)
(* (window_manager/mod.rs).                                                *)
THEOREM ReferencesStayLive == Spec => []ReferencesLive
  BY AlwaysIInv, PTL DEF IInv

(* A pane is at one leaf of one window, or in the popup, however panes are *)
(* split off, broken out, joined, exchanged and respawned (commands.rs).   *)
THEOREM PanesHaveOnePlace == Spec => []OnePlace
  BY AlwaysIInv, PTL DEF IInv

(* No command and no death notice drops a pane whose child runs            *)
(* (commands.rs, close_active_window; window_manager/mod.rs,               *)
(* handle_pane_death).                                                     *)
THEOREM NoChildIsLeaked == Spec => []NoLeakedChild
  BY AlwaysIInv, PTL DEF IInv

(* After every hold of the lock the tick task runs exactly if an open      *)
(* window is monitored (session/mod.rs, reconcile_silence_task).           *)
THEOREM TickRunsWhenNeeded == Spec => []TickWhenNeeded
  BY AlwaysIInv, PTL DEF IInv

-----------------------------------------------------------------------------
(* A step takes the active window away only by closing it.                 *)
LEMMA ActiveStays ==
  ASSUME IInv, Next, order' # <<>>
  PROVE  \/ active \in ToSet(order')
         \/ active \in OpenWindows /\ CloseWindow(active, NextAfterDeath(active))
  <1> USE DEF IInv
  <1>1. CASE order' = order
    BY <1>1, ActiveIsOpen DEF HasWindow, OpenWindows
  <1>2. ASSUME NEW w \in Windows, HasWindow, AddWindow(w) PROVE active \in ToSet(order')
    <2>1. /\ order \in Seq(Windows) /\ IsInjective(order) /\ w \in Windows \ ToSet(order)
          /\ active \in ToSet(order) /\ order' = Append(order, w)
      BY <1>2, ActiveIsOpen DEF AddWindow, TabsSound, OpenWindows
    <2> QED
      BY <2>1, AppendIs
  <1>3. ASSUME NEW w \in OpenWindows, HasWindow, w # active, order' = Without(order, w)
        PROVE  active \in ToSet(order')
    <2>1. /\ order \in Seq(Windows) /\ IsInjective(order) /\ w \in ToSet(order)
          /\ active \in ToSet(order)
      BY <1>3, ActiveIsOpen DEF TabsSound, OpenWindows
    <2>2. ToSet(Without(order, w)) = ToSet(order) \ {w}
      BY <2>1, WithoutIs
    <2> QED
      BY <1>3, <2>1, <2>2
  <1>4. CASE KillWindow
    BY <1>4, ActiveIsOpen, BothGoOn DEF KillWindow
  <1>5. ASSUME NEW w \in Windows, NEW i \in DOMAIN order, DropTab(w, i)
        PROVE  active \in ToSet(order')
    <2>1. HasWindow
      BY <1>5, NoneIsEmpty DEF DropTab, TabsSound, HasWindow, OpenWindows
    <2> QED
      BY <1>5, <2>1, ActiveIsOpen, DroppedTabs DEF OpenWindows
  <1>6. ASSUME NEW w \in Windows, JoinPane(w) PROVE order' = order \/ active \in ToSet(order')
    <2>1. HasWindow
      BY <1>6, NoneIsEmpty DEF JoinPane, MarkedIn, TabsSound, HasWindow, OpenWindows
    <2>2. PanesOf(w) = {mark} => w # active
      BY <1>6, <2>1, ActiveIsOpen DEF JoinPane, MarkedIn
    <2> QED
      BY <1>3, <1>6, <2>1, <2>2 DEF JoinPane, MarkedIn
  <1>7. ASSUME NEW w \in Windows, NEW p \in Panes, DeathCloses(p, w), order' # order,
               active \notin ToSet(order')
        PROVE  active \in OpenWindows /\ CloseWindow(active, NextAfterDeath(active))
    <2>1. /\ w \in OpenWindows /\ CloseWindow(w, NextAfterDeath(w))
          /\ order' = Without(order, w)
      BY <1>7 DEF DeathCloses, CloseWindow
    <2>2. HasWindow
      BY <2>1, NoneIsEmpty DEF TabsSound, HasWindow, OpenWindows
    <2> QED
      BY <1>3, <1>7, <2>1, <2>2
  <1>8. CASE Commands
    <2>1. CASE \E p \in Panes : SplitPane(p) \/ SelectPane(p) \/ SwapPane(p) \/ OpenPopup(p)
      BY <2>1, <1>1 DEF SplitPane, SelectPane, SwapPane, OpenPopup
    <2>2. CASE \/ \E w \in Windows : SwitchTo(w) \/ BreakPane(w) \/ SwapMarkedPane(w)
               \/ \E w \in Windows : JoinPane(w) \/ JoinPaneFails(w)
      BY <2>2, <1>1, <1>2, <1>6 DEF SwitchTo, BreakPane, SwapMarkedPane, JoinPaneFails
    <2>3. CASE \E b \in BOOLEAN : SetMonitorSilence(b) \/ SelectLayout(b)
      BY <2>3, <1>1 DEF SetMonitorSilence, SelectLayout
    <2>4. CASE \E w \in Windows, p \in Panes : NewWindow(w, p)
      BY <2>4, <1>2 DEF NewWindow
    <2>5. CASE OnlyUnzoom \/ ToggleMark \/ ZoomToggle \/ ClosePopup \/ BreakPaneFails
               \/ ForgetMark
      BY <2>5, <1>1 DEF OnlyUnzoom, ToggleMark, ZoomToggle, ClosePopup, BreakPaneFails,
         ForgetMark
    <2>6. CASE KillPane
      BY <2>6, <1>1, <1>4 DEF KillPane
    <2> QED
      BY <1>4, <1>8, <2>1, <2>2, <2>3, <2>4, <2>5, <2>6 DEF Commands
  <1>9. CASE MouseAndTree
    BY <1>9, <1>1, <1>5 DEF MouseAndTree, Click, DropPane, SelectWindowById, KillWindowPanes,
       FocusPaneById
  <1>10. CASE Deaths
    BY <1>10, <1>1, <1>7 DEF Deaths, ChildExit, DeathOutside, DeathRespawns
  <1> QED
    BY <1>8, <1>9, <1>10 DEF Next

LEMMA NextActiveIsNext ==
  ASSUME TabsSound, active \in OpenWindows, Without(order, active) # <<>>
  PROVE  LET i == PlaceOf(order, active)
         IN  NextAfterDeath(active) = order[IF i < Len(order) THEN i + 1 ELSE i - 1]
  <1> DEFINE left == Without(order, active)
             i    == PlaceOf(order, active)
             n    == Len(order)
  <1>1. order \in Seq(Windows) /\ n \in Nat /\ active \in ToSet(order) /\ IsInjective(order)
    BY LenProperties DEF TabsSound, OpenWindows
  <1>2. i \in 1 .. n
    BY <1>1, PlaceIs
  <1>3. /\ left \in Seq(Windows) /\ Len(left) = n - 1
        /\ \A k \in 1 .. n - 1 : left[k] = IF k < i THEN order[k] ELSE order[k + 1]
    BY <1>1, WithoutIs
  <1>4. NextAfterDeath(active) = left[IF i <= Len(left) THEN i ELSE Len(left)]
    BY DEF NextAfterDeath
  <1>5. left # <<>>
    OBVIOUS
  <1> HIDE DEF left, i, n
  <1>6. n - 1 >= 1
    BY <1>1, <1>2, <1>3, <1>5, EmptySeq
  <1>7. NextAfterDeath(active) = order[IF i < n THEN i + 1 ELSE i - 1]
    <2>1. CASE i < n
      BY <1>1, <1>2, <1>3, <1>4, <2>1
    <2>2. CASE i = n
      BY <1>1, <1>2, <1>3, <1>4, <1>6, <2>2
    <2> QED
      BY <1>1, <1>2, <2>1, <2>2
  <1> QED
    BY <1>7 DEF i, n

(* Whenever the active window goes, by a command or because its last child *)
(* exited, focus goes to the next tab, or to the last one if there is none *)
(* (commands.rs, close_active_window; mod.rs, handle_pane_death).          *)
THEOREM FocusGoesOn == Spec => FocusGoesToNext
  <1> DEFINE A == active \notin ToSet(order') /\ order' # <<>> =>
                    LET i == PlaceOf(order, active)
                    IN  active' = order[IF i < Len(order) THEN i + 1 ELSE i - 1]
  <1>1. IInv /\ [Next]_vars => [A]_vars
    <2> SUFFICES ASSUME IInv, Next, active \notin ToSet(order'), order' # <<>>
                 PROVE  LET i == PlaceOf(order, active)
                        IN  active' = order[IF i < Len(order) THEN i + 1 ELSE i - 1]
      OBVIOUS
    <2>1. active \in OpenWindows /\ CloseWindow(active, NextAfterDeath(active))
      BY ActiveStays
    <2>2. active' = NextAfterDeath(active) /\ Without(order, active) # <<>>
      BY <2>1 DEF CloseWindow
    <2> QED
      BY <2>1, <2>2, NextActiveIsNext DEF IInv
  <1> QED
    BY <1>1, AlwaysIInv, PTL DEF Spec, FocusGoesToNext

-----------------------------------------------------------------------------
(* What the properties above do not need: what is not open holds nothing.  *)
ClosedAreEmpty == \A w \in Windows \ OpenWindows : win[w] = Closed

Rest ==
  command \subseteq Panes /\ stranded \subseteq Panes /\ tick \in {"off", "runs", "overruns"}

Tidy == IInv /\ ClosedAreEmpty /\ Rest

LEMMA ClosedIsWindow == Closed \in Window /\ Len(Closed.history) <= HistoryCap
  <1>1. <<>> \in Seq(Panes) /\ Len(<<>>) = 0 /\ HistoryCap \in Nat
    BY EmptySeq, WindowAssumption
  <1> QED
    BY <1>1 DEF Closed, Window

LEMMA TidyTypes == Tidy => WMTypeOK
  <1> SUFFICES ASSUME Tidy PROVE WMTypeOK
    OBVIOUS
  <1>1. /\ TabsSound /\ PanesSound /\ ReferencesLive /\ ClosedAreEmpty
        /\ Rest
    BY DEF Tidy, IInv
  <1>2. ASSUME NEW w \in Windows PROVE win[w] \in Window /\ Len(win[w].history) <= HistoryCap
    <2>1. CASE w \in OpenWindows
      BY <1>1, <2>1, SoundIsWindow DEF TabsSound
    <2>2. CASE w \notin OpenWindows
      BY <1>1, <2>2, ClosedIsWindow DEF ClosedAreEmpty
    <2> QED
      BY <2>1, <2>2
  <1>3. win \in [Windows -> Window]
    BY <1>1, <1>2 DEF TabsSound
  <1>4. lastActive \in Windows \cup {None}
    BY <1>1, OpenAreWindows DEF ReferencesLive
  <1> QED
    BY <1>1, <1>2, <1>3, <1>4 DEF WMTypeOK, TabsSound, PanesSound, ClosedAreEmpty, Rest

LEMMA InitTidy == Init => Tidy
  <1> SUFFICES ASSUME Init PROVE Tidy
    OBVIOUS
  <1>1. PICK w \in Windows, p \in Panes :
          /\ order = <<w>> /\ win = [v \in Windows |-> IF v = w THEN Assemble(p) ELSE Closed]
          /\ command \in {{}, {p}} /\ tick = "off" /\ stranded = {}
    BY DEF Init
  <1>2. OpenWindows = {w}
    BY <1>1 DEF OpenWindows, ToSet
  <1>3. ClosedAreEmpty
    BY <1>1, <1>2 DEF ClosedAreEmpty
  <1> QED
    BY <1>1, <1>3, InitIInv DEF Tidy, Rest

(* Ending a zoom leaves the closed windows as they are.                    *)
LEMMA UnzoomedClosed ==
  ASSUME IInv, ClosedAreEmpty, HasWindow, NEW w \in Windows \ OpenWindows
  PROVE  win[w] = Closed /\ WinUnzoomed[w] = Closed /\ w # active
  BY ActiveIsOpen DEF ClosedAreEmpty, WinUnzoomed, TabsSound

LEMMA SomeOpen == ASSUME IInv, NEW w \in OpenWindows PROVE HasWindow
  BY NoneIsEmpty DEF IInv, TabsSound, HasWindow, OpenWindows

(* Steps of one window, with the tabs as they were.                        *)
LEMMA ClosedKept ==
  ASSUME IInv, ClosedAreEmpty, NEW f \in {win, WinUnzoomed}, NEW w \in OpenWindows, NEW r,
         win' = [f EXCEPT ![w] = r], OpenWindows' = OpenWindows
  PROVE  ClosedAreEmpty'
  <1>1. HasWindow
    BY SomeOpen
  <1>2. ASSUME NEW v \in Windows \ OpenWindows PROVE win'[v] = Closed
    <2>1. f[v] = Closed /\ v # w
      BY <1>1, UnzoomedClosed
    <2>2. f = [x \in Windows |-> f[x]]
      BY <1>1, ActiveIsOpen, UnzoomedIs DEF TabsSound
    <2> QED
      BY <2>1, <2>2
  <1> QED
    BY <1>2 DEF ClosedAreEmpty

LEMMA ClosedUntouched ==
  ASSUME IInv, ClosedAreEmpty, OpenWindows' = OpenWindows,
         win' = win \/ (HasWindow /\ win' = WinUnzoomed)
  PROVE  ClosedAreEmpty'
  BY UnzoomedClosed DEF ClosedAreEmpty

(* A window that is closed is emptied.                                     *)
LEMMA ClosedTaken ==
  ASSUME IInv, ClosedAreEmpty, NEW w \in OpenWindows, NEW f, f = [v \in Windows |-> f[v]],
         \A v \in Windows \ OpenWindows : f[v] = Closed,
         win' = [f EXCEPT ![w] = Closed], order' = Without(order, w)
  PROVE  ClosedAreEmpty'
  <1>1. OpenWindows' = OpenWindows \ {w}
    BY WithoutIs DEF IInv, TabsSound, OpenWindows
  <1> QED
    BY <1>1 DEF ClosedAreEmpty

LEMMA ClosedAdded ==
  ASSUME IInv, ClosedAreEmpty, NEW w \in Windows, AddWindow(w), NEW f,
         f = [v \in Windows |-> f[v]], \A v \in Windows \ OpenWindows : f[v] = Closed,
         NEW r, win' = [f EXCEPT ![w] = r]
  PROVE  ClosedAreEmpty'
  <1>1. OpenWindows' = OpenWindows \cup {w}
    BY AppendIs DEF IInv, TabsSound, OpenWindows, AddWindow
  <1> QED
    BY <1>1 DEF ClosedAreEmpty

LEMMA NextClosed ==
  ASSUME IInv, ClosedAreEmpty, Next PROVE ClosedAreEmpty'
  <1>1. HasWindow => /\ active \in OpenWindows
                     /\ win = [v \in Windows |-> win[v]]
                     /\ WinUnzoomed = [v \in Windows |-> WinUnzoomed[v]]
                     /\ \A v \in Windows \ OpenWindows :
                          win[v] = Closed /\ WinUnzoomed[v] = Closed
    BY ActiveIsOpen, UnzoomedIs, UnzoomedClosed DEF TabsSound
  <1>2. order' = order => OpenWindows' = OpenWindows
    BY DEF OpenWindows
  <1>3. CASE OnlyUnzoom \/ ToggleMark \/ ClosePopup \/ ForgetMark
    BY <1>2, <1>3, ClosedUntouched DEF OnlyUnzoom, ToggleMark, ClosePopup, ForgetMark
  <1>4. CASE ZoomToggle
    BY <1>1, <1>2, <1>4, ClosedKept DEF ZoomToggle
  <1>5. ASSUME NEW w \in OpenWindows, NEW next, CloseWindow(w, next) PROVE ClosedAreEmpty'
    <2>1. win' = [win EXCEPT ![w] = Closed] /\ order' = Without(order, w)
      BY <1>5 DEF CloseWindow
    <2> QED
      BY <1>1, <2>1, SomeOpen, ClosedTaken
  <1>6. CASE KillWindow
    BY <1>1, <1>5, <1>6 DEF KillWindow
  <1>7. CASE KillPane \/ BreakPaneFails
    BY <1>1, <1>2, <1>6, <1>7, ClosedKept DEF KillPane, BreakPaneFails
  <1>8. ASSUME NEW p \in Panes, SplitPane(p) \/ SelectPane(p) \/ SwapPane(p) \/ Click(p)
        PROVE  ClosedAreEmpty'
    BY <1>1, <1>2, <1>8, ClosedKept DEF SplitPane, SelectPane, SwapPane, Click
  <1>9. ASSUME NEW p \in Panes, OpenPopup(p) \/ ChildExit(p) \/ DeathOutside(p)
        PROVE  ClosedAreEmpty'
    BY <1>2, <1>9, ClosedUntouched DEF OpenPopup, ChildExit, DeathOutside
  <1>10. ASSUME NEW w \in Windows, SwitchTo(w) \/ SelectWindowById(w) \/ KillWindowPanes(w)
         PROVE  ClosedAreEmpty'
    BY <1>2, <1>10, SomeOpen, ClosedUntouched DEF SwitchTo, SelectWindowById, KillWindowPanes
  <1>11. ASSUME NEW w \in Windows, BreakPane(w) PROVE ClosedAreEmpty'
    <2> DEFINE f == [WinUnzoomed EXCEPT ![active] = Removed(@, win[active].active)]
    <2>1. HasWindow /\ AddWindow(w) /\ win' = [f EXCEPT ![w] = Assemble(win[active].active)]
      BY <1>11 DEF BreakPane
    <2>2. f = [v \in Windows |-> f[v]] /\ \A v \in Windows \ OpenWindows : f[v] = Closed
      BY <1>1, <2>1
    <2> HIDE DEF f
    <2> QED
      BY <2>1, <2>2, ClosedAdded
  <1>12. ASSUME NEW w \in Windows, JoinPane(w) PROVE ClosedAreEmpty'
    <2> DEFINE f == [WinUnzoomed EXCEPT ![w] = Removed(@, mark)]
               g == [f EXCEPT ![active] = Split(@, mark)]
    <2>1. /\ w \in OpenWindows
          /\ \/ order' = Without(order, w) /\ win' = [g EXCEPT ![w] = Closed]
             \/ order' = order /\ win' = g
      BY <1>12 DEF JoinPane, MarkedIn, Parted
    <2>2. HasWindow
      BY <2>1, SomeOpen
    <2>3. f = [v \in Windows |-> f[v]] /\ \A v \in Windows \ OpenWindows : f[v] = Closed
      BY <1>1, <2>1, <2>2
    <2> HIDE DEF f
    <2>4. g = [v \in Windows |-> g[v]] /\ \A v \in Windows \ OpenWindows : g[v] = Closed
      BY <1>1, <2>2, <2>3
    <2> HIDE DEF g
    <2>5. CASE order' = order /\ win' = g
      BY <1>2, <2>4, <2>5 DEF ClosedAreEmpty
    <2> QED
      BY <2>1, <2>4, <2>5, ClosedTaken
  <1>25. ASSUME NEW w \in Windows, JoinPaneFails(w) PROVE ClosedAreEmpty'
    BY <1>2, <1>25, ClosedKept DEF JoinPaneFails, MarkedIn, Parted
  <1>13. ASSUME NEW w \in Windows, SwapMarkedPane(w) PROVE ClosedAreEmpty'
    <2>1. /\ w \in OpenWindows /\ order' = order
          /\ \/ win' = [WinUnzoomed EXCEPT ![active] = Swapped(@, win[active].active, mark)]
             \/ win' = Exchanged(w, win[active].active, mark)
      BY <1>13 DEF SwapMarkedPane, MarkedIn
    <2>2. HasWindow
      BY <2>1, SomeOpen
    <2>3. CASE win' = [WinUnzoomed EXCEPT ![active] = Swapped(@, win[active].active, mark)]
      BY <1>1, <1>2, <2>1, <2>2, <2>3, ClosedKept
    <2>4. CASE win' = Exchanged(w, win[active].active, mark)
      <3>1. \A v \in Windows \ OpenWindows : win'[v] = Closed
        BY <1>1, <2>1, <2>2, <2>4 DEF Exchanged
      <3> QED
        BY <1>2, <2>1, <3>1 DEF ClosedAreEmpty
    <2> QED
      BY <2>1, <2>3, <2>4
  <1>14. ASSUME NEW w \in Windows, NEW p \in Panes, NewWindow(w, p) PROVE ClosedAreEmpty'
    BY <1>1, <1>14, ClosedAdded DEF NewWindow
  <1>15. ASSUME NEW on \in BOOLEAN, SetMonitorSilence(on) PROVE ClosedAreEmpty'
    <2>1. HasWindow /\ order' = order
          /\ win' = [win EXCEPT ![active] = [win[active] EXCEPT !.silence = on]]
      BY <1>15 DEF SetMonitorSilence
    <2> QED
      BY <1>1, <1>2, <2>1, ClosedKept
  <1>16. ASSUME NEW main \in BOOLEAN, SelectLayout(main) PROVE ClosedAreEmpty'
    BY <1>1, <1>2, <1>16, ClosedKept DEF SelectLayout
  <1>17. ASSUME NEW p \in Panes, NEW q \in Panes, DropPane(p, q) PROVE ClosedAreEmpty'
    BY <1>1, <1>2, <1>17, ClosedKept DEF DropPane
  <1>18. ASSUME NEW w \in Windows, NEW i \in DOMAIN order, DropTab(w, i) PROVE ClosedAreEmpty'
    BY <1>18, DroppedTabs DEF DropTab, ClosedAreEmpty
  <1>19. ASSUME NEW w \in Windows, NEW p \in Panes, FocusPaneById(w, p) PROVE ClosedAreEmpty'
    BY <1>2, <1>19, ClosedKept DEF FocusPaneById
  <1>20. ASSUME NEW p \in Panes, NEW q \in Panes, NEW w \in Windows, DeathRespawns(p, q, w)
         PROVE  ClosedAreEmpty'
    BY <1>2, <1>20, ClosedKept DEF DeathRespawns
  <1>21. ASSUME NEW p \in Panes, NEW w \in Windows, DeathCloses(p, w) PROVE ClosedAreEmpty'
    <2>1. /\ w \in OpenWindows
          /\ \/ CloseWindow(w, NextAfterDeath(w))
             \/ win' = [win EXCEPT ![w] = Removed(@, p)] /\ order' = order
      BY <1>21 DEF DeathCloses
    <2> QED
      BY <1>2, <1>5, <2>1, ClosedKept
  <1>22. CASE Commands
    BY <1>3, <1>4, <1>6, <1>7, <1>8, <1>9, <1>10, <1>11, <1>12, <1>13, <1>14, <1>15, <1>16,
       <1>22, <1>25 DEF Commands
  <1>23. CASE MouseAndTree
    BY <1>8, <1>10, <1>17, <1>18, <1>19, <1>23 DEF MouseAndTree
  <1>24. CASE Deaths
    BY <1>9, <1>20, <1>21, <1>24 DEF Deaths
  <1> QED
    BY <1>22, <1>23, <1>24 DEF Next

(* The panes that respawn a shell, those that are stranded, and the tick   *)
(* task.                                                                   *)
LEMMA NextRest == IInv /\ Rest /\ Next => Rest'
  <1> SUFFICES ASSUME IInv, Rest, Next PROVE Rest'
    OBVIOUS
  <1> USE DEF Rest
  <1>1. Reconcile \/ ReconcileUnlessFailed \/ JoinEnds => tick' \in {"off", "runs", "overruns"}
    BY DEF Reconcile, ReconcileUnlessFailed, JoinEnds
  <1>2. HasWindow => win[active].active \in Panes
    BY ActiveIsOpen, OpenHoldPanes
  <1>3. CASE Commands
    <2>1. CASE OnlyUnzoom \/ KillWindow \/ ToggleMark \/ ZoomToggle \/ ClosePopup \/ ForgetMark
      BY <1>1, <2>1 DEF OnlyUnzoom, KillWindow, ToggleMark, ZoomToggle, ClosePopup, ForgetMark
    <2>2. CASE KillPane \/ BreakPaneFails
      BY <1>1, <1>2, <2>2 DEF KillPane, KillWindow, BreakPaneFails, Unmark
    <2>3. CASE \E p \in Panes : SplitPane(p) \/ SelectPane(p) \/ SwapPane(p) \/ OpenPopup(p)
      BY <1>1, <2>3 DEF SplitPane, SelectPane, SwapPane, OpenPopup, Spawn
    <2>4. CASE \E w \in Windows : SwitchTo(w) \/ BreakPane(w) \/ SwapMarkedPane(w)
      BY <1>1, <2>4 DEF SwitchTo, BreakPane, SwapMarkedPane
    <2>5. CASE \E w \in Windows : JoinPane(w) \/ JoinPaneFails(w)
      <3>1. mark \in Panes
        BY <2>5, OpenHoldPanes DEF JoinPane, JoinPaneFails, MarkedIn, IInv
      <3> QED
        BY <1>1, <2>5, <3>1 DEF JoinPane, JoinPaneFails
    <2>6. CASE \E w \in Windows, p \in Panes : NewWindow(w, p)
      BY <1>1, <2>6 DEF NewWindow, Spawn
    <2>7. CASE \E b \in BOOLEAN : SetMonitorSilence(b) \/ SelectLayout(b)
      BY <1>1, <2>7 DEF SetMonitorSilence, SelectLayout
    <2> QED
      BY <1>3, <2>1, <2>2, <2>3, <2>4, <2>5, <2>6, <2>7 DEF Commands
  <1>4. CASE MouseAndTree
    BY <1>4 DEF MouseAndTree, Click, DropPane, DropTab, SelectWindowById, KillWindowPanes,
       FocusPaneById
  <1>5. CASE Deaths
    BY <1>1, <1>5 DEF Deaths, ChildExit, DeathOutside, DeathRespawns, DeathCloses, Notice,
       Unmark
  <1> QED
    BY <1>3, <1>4, <1>5 DEF Next

LEMMA NextTidy == Tidy /\ [Next]_vars => Tidy'
  <1> SUFFICES ASSUME Tidy, [Next]_vars PROVE Tidy'
    OBVIOUS
  <1>1. IInv'
    BY NextIInv DEF Tidy
  <1>2. CASE Next
    BY <1>1, <1>2, NextClosed, NextRest DEF Tidy
  <1>3. CASE UNCHANGED vars
    BY <1>1, <1>3 DEF Tidy, Rest, vars, ClosedAreEmpty, OpenWindows
  <1> QED
    BY <1>2, <1>3

(* Every variable stays in its range for any number of windows and panes   *)
(* and any bound on the focus history, which no sequence of focus moves,   *)
(* removals and exchanges outgrows; a closed window holds nothing          *)
(* (window.rs, record_focus; window_manager/mod.rs).                       *)
THEOREM WindowManagerTypes == Spec => []WMTypeOK
  BY InitTidy, NextTidy, TidyTypes, PTL DEF Spec

=============================================================================
