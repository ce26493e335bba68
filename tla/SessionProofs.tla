--------------------------- MODULE SessionProofs ----------------------------
(***************************************************************************)
(* Theorems about Session for every set of sessions, panes and clients.    *)
(* The safety argument rests on one inductive invariant, IInv: what the    *)
(* coordinator may assume at the two places where it does not hold a       *)
(* permit it has just consumed (parked, and about to compose).             *)
(***************************************************************************)
EXTENDS Session, TLAPS

(* A session that does not exist yet has no children and nothing to show.  *)
Blank(s) ==
  /\ ~closing[s] /\ stale[s] = "no" /\ panes[s] = {}
  /\ deathTask[s] = "none"
  /\ \A p \in Panes : child[s][p] = "none"

(* From the check of `closing` until it next parks, the coordinator throws *)
(* no permit away: a close that it missed has left one.                    *)
CloseIsHeard(s) == coord[s] \in {"parked", "compose"} /\ closing[s] => WakePending(s)

(* A change to be announced has a wake-up coming.                          *)
ChangeIsHeard(s) ==
  coord[s] = "parked" /\ (panes[s] = {} \/ stale[s] = "changed") => WakePending(s)

IInv ==
  /\ TypeOK
  /\ \A s \in Sessions :
       /\ coord[s] = "none" => Blank(s)
       /\ coord[s] \in {"leaving", "ended"} => closing[s]
       /\ CloseIsHeard(s)
       /\ ChangeIsHeard(s)

-----------------------------------------------------------------------------
LEMMA InitTypeOK == SessionInit => TypeOK
  BY DEF SessionInit, TypeOK

(* Every step keeps every variable in its range, and every pane of a window*)
(* manager has a child that was spawned for it.                            *)
LEMMA NextTypeOK == TypeOK /\ [Next]_sessionVars => TypeOK'
  <1> SUFFICES ASSUME TypeOK, [Next]_sessionVars PROVE TypeOK'
    OBVIOUS
  <1>1. CASE UNCHANGED sessionVars
    BY <1>1 DEF TypeOK, sessionVars
  <1>2. CASE Next
    <2> PICK s \in Sessions : \/ SessionSystem(s)
                              \/ SessionEnvironment(s)
                              \/ \E p \in Panes : Birth(s, p)
                              \/ StartClose(s, "kill")
      BY <1>2 DEF Next
    <2>1. ASSUME NEW p \in Panes, Birth(s, p) PROVE TypeOK'
      BY <2>1 DEF TypeOK, Birth
    <2>2. ASSUME NEW k \in Closer, StartClose(s, k) PROVE TypeOK'
      BY <2>2 DEF TypeOK, StartClose
    <2>3. ASSUME NEW a \in Notifier, NotifyOne(s, a) PROVE TypeOK'
      BY <2>3 DEF TypeOK, NotifyOne
    <2>4. ASSUME NEW p \in Panes, DeathConsume(s, p) PROVE TypeOK'
      BY <2>4 DEF TypeOK, DeathConsume, AfterDeath, Notifier
    <2>5. CASE CoordWake(s)
      BY <2>5 DEF TypeOK, CoordWake
    <2>6. CASE CoordSwallow(s)
      BY <2>6 DEF TypeOK, CoordSwallow
    <2>7. CASE CoordCheck(s)
      BY <2>7 DEF TypeOK, CoordCheck
    <2>8. CASE CoordCompose(s)
      <3>1. stale' \in [Sessions -> {"no", "changed", "missed"}]
        BY <2>8 DEF TypeOK, CoordCompose
      <3>2. closing' \in [Sessions -> BOOLEAN]
        BY <2>8 DEF TypeOK, CoordCompose
      <3>3. coord' \in [Sessions -> {"none", "parked", "debounce", "compose", "leaving", "ended", "panicked"}]
        <4>1. coord' = [coord EXCEPT ![s] = "leaving"] \/ coord' = [coord EXCEPT ![s] = "parked"]
          BY <2>8 DEF CoordCompose
        <4> QED
          BY <4>1 DEF TypeOK
      <3>4. UNCHANGED <<panes, child, permit, owed, deathTask, closers>>
        BY <2>8 DEF CoordCompose
      <3> QED
        BY <3>1, <3>2, <3>3, <3>4 DEF TypeOK
    <2>9. CASE CoordLeave(s)
      BY <2>9 DEF TypeOK, CoordLeave
    <2>10. ASSUME NEW k \in Closer, CloseNotify(s, k) PROVE TypeOK'
      BY <2>10 DEF TypeOK, CloseNotify
    <2>11. ASSUME NEW k \in Closer, TerminatePanes(s, k) PROVE TypeOK'
      BY <2>11 DEF TypeOK, TerminatePanes, Signalled
    <2>12. ASSUME NEW p \in Panes, PaneOutput(s, p) PROVE TypeOK'
      BY <2>12 DEF TypeOK, PaneOutput, Notifier
    <2>13. ASSUME NEW p \in Panes, ChildExit(s, p) PROVE TypeOK'
      BY <2>13 DEF TypeOK, ChildExit
    <2>14. ASSUME NEW k \in Clients, NEW p \in Panes, OpenPane(s, k, p) PROVE TypeOK'
      BY <2>14 DEF TypeOK, OpenPane, Opened, Structural, Notifier
    <2>15. ASSUME NEW k \in Clients, NEW P \in SUBSET Panes, ClosePanes(s, k, P) PROVE TypeOK'
      BY <2>15 DEF TypeOK, ClosePanes, Closed, Structural, Notifier, Signalled
    <2>16. ASSUME NEW k \in Clients, ViewChange(s, k) PROVE TypeOK'
      BY <2>16 DEF TypeOK, ViewChange, Notifier
    <2>17. CASE CorePanic(s)
      <3>1. UNCHANGED <<panes, child, closing, permit, owed, stale, closers>>
        BY <2>17 DEF CorePanic
      <3>2. CASE coord' = [coord EXCEPT ![s] = "panicked"] /\ UNCHANGED deathTask
        BY <3>1, <3>2 DEF TypeOK
      <3>3. CASE deathTask' = [deathTask EXCEPT ![s] = "panicked"] /\ UNCHANGED coord
        BY <3>1, <3>3 DEF TypeOK
      <3> QED
        BY <2>17, <3>2, <3>3 DEF CorePanic
    <2>18. CASE CoordSkip(s)
      <3>1. stale' \in [Sessions -> {"no", "changed", "missed"}]
        BY <2>18 DEF TypeOK, CoordSkip
      <3>2. coord' \in [Sessions -> {"none", "parked", "debounce", "compose", "leaving", "ended", "panicked"}]
        BY <2>18 DEF TypeOK, CoordSkip
      <3>3. UNCHANGED <<panes, child, closing, permit, owed, deathTask, closers>>
        BY <2>18 DEF CoordSkip
      <3> QED
        BY <3>1, <3>2, <3>3 DEF TypeOK
    <2>19. ASSUME NEW k \in Clients, CommandFails(s, k) PROVE TypeOK'
      <3>1. stale' \in [Sessions -> {"no", "changed", "missed"}]
        BY <2>19 DEF TypeOK, CommandFails
      <3>2. UNCHANGED <<closing, permit, owed, coord, deathTask, closers>>
        BY <2>19 DEF CommandFails
      <3>3. CASE UNCHANGED <<panes, child>>
        BY <3>1, <3>2, <3>3 DEF TypeOK
      <3>4. ASSUME NEW p \in Panes, Opened(s, p) PROVE TypeOK'
        BY <3>1, <3>2, <3>4 DEF TypeOK, Opened
      <3>5. ASSUME NEW p \in panes[s], Closed(s, {p}) PROVE TypeOK'
        BY <3>1, <3>2, <3>5 DEF TypeOK, Closed, Signalled
      <3>6. ASSUME NEW p \in panes[s], Stranded(s, p) PROVE TypeOK'
        BY <3>1, <3>2, <3>6 DEF TypeOK, Stranded
      <3> QED
        BY <2>19, <3>3, <3>4, <3>5, <3>6 DEF CommandFails
    <2> QED
      BY <2>1, <2>2, <2>3, <2>4, <2>5, <2>6, <2>7, <2>8, <2>9, <2>10, <2>11, <2>12,
         <2>13, <2>14, <2>15, <2>16, <2>17, <2>18, <2>19
         DEF SessionSystem, SessionEnvironment, Closer
  <1> QED
    BY <1>1, <1>2

(* Every variable of a session stays in its range, and no pane sits in a   *)
(* window without a child having been spawned for it.                      *)
THEOREM TypeCorrect == Spec => []TypeOK
  BY InitTypeOK, NextTypeOK, PTL DEF Spec

-----------------------------------------------------------------------------
LEMMA InitIInv == SessionInit => IInv
  BY InitTypeOK DEF SessionInit, IInv, Blank, CloseIsHeard, ChangeIsHeard

(* Every step keeps the inductive invariant.  The two parts about wake-ups *)
(* are disturbed by exactly two kinds of action: those that take a permit, *)
(* which leave the coordinator where neither part speaks of it, and those  *)
(* that close or change the session, which owe or store a permit.          *)
LEMMA NextIInv == IInv /\ [Next]_sessionVars => IInv'
  <1> SUFFICES ASSUME IInv, [Next]_sessionVars PROVE IInv'
    OBVIOUS
  <1> DEFINE Part(t) ==
        /\ coord[t] = "none" => Blank(t)
        /\ coord[t] \in {"leaving", "ended"} => closing[t]
        /\ CloseIsHeard(t)
        /\ ChangeIsHeard(t)
  <1>0. TypeOK /\ TypeOK'
    BY NextTypeOK DEF IInv
  <1> SUFFICES ASSUME NEW t \in Sessions PROVE Part(t)'
    BY <1>0 DEF IInv
  <1>p. Part(t)
    BY DEF IInv
  <1>1. CASE UNCHANGED sessionVars
    BY <1>1, <1>p DEF sessionVars, Blank, CloseIsHeard, ChangeIsHeard, WakePending
  <1>2. CASE Next
    <2> PICK s \in Sessions : \/ SessionSystem(s)
                              \/ SessionEnvironment(s)
                              \/ \E p \in Panes : Birth(s, p)
                              \/ StartClose(s, "kill")
      BY <1>2 DEF Next
    <2> USE <1>0, <1>p DEF TypeOK, Blank, CloseIsHeard, ChangeIsHeard, WakePending,
          Exists, Alive, Notifier, Closer
    <2>1. ASSUME NEW p \in Panes, Birth(s, p) PROVE Part(t)'
      BY <2>1 DEF Birth
    <2>2. ASSUME NEW k \in Closer, StartClose(s, k) PROVE Part(t)'
      BY <2>2 DEF StartClose
    <2>3. ASSUME NEW a \in Notifier, NotifyOne(s, a) PROVE Part(t)'
      BY <2>3 DEF NotifyOne
    <2>4. ASSUME NEW p \in Panes, DeathConsume(s, p) PROVE Part(t)'
      BY <2>4 DEF DeathConsume
    <2>5. CASE CoordWake(s)
      BY <2>5 DEF CoordWake
    <2>6. CASE CoordSwallow(s)
      BY <2>6 DEF CoordSwallow
    <2>7. CASE CoordCheck(s)
      BY <2>7 DEF CoordCheck
    <2>8. CASE CoordCompose(s)
      BY <2>8 DEF CoordCompose
    <2>9. CASE CoordLeave(s)
      BY <2>9 DEF CoordLeave
    <2>10. ASSUME NEW k \in Closer, CloseNotify(s, k) PROVE Part(t)'
      BY <2>10 DEF CloseNotify
    <2>11. ASSUME NEW k \in Closer, TerminatePanes(s, k) PROVE Part(t)'
      BY <2>11 DEF TerminatePanes
    <2>12. ASSUME NEW p \in Panes, PaneOutput(s, p) PROVE Part(t)'
      BY <2>12 DEF PaneOutput
    <2>13. ASSUME NEW p \in Panes, ChildExit(s, p) PROVE Part(t)'
      BY <2>13 DEF ChildExit
    <2>14. ASSUME NEW k \in Clients, NEW p \in Panes, OpenPane(s, k, p) PROVE Part(t)'
      BY <2>14 DEF OpenPane, Opened, Structural
    <2>15. ASSUME NEW k \in Clients, NEW P \in SUBSET Panes, ClosePanes(s, k, P) PROVE Part(t)'
      BY <2>15 DEF ClosePanes, Closed, Structural
    <2>16. ASSUME NEW k \in Clients, ViewChange(s, k) PROVE Part(t)'
      BY <2>16 DEF ViewChange
    <2>17. CASE CorePanic(s)
      BY <2>17 DEF CorePanic
    <2>18. CASE CoordSkip(s)
      BY <2>18 DEF CoordSkip
    <2>19. ASSUME NEW k \in Clients, CommandFails(s, k) PROVE Part(t)'
      BY <2>19 DEF CommandFails, Opened, Closed, Stranded
    <2> QED
      BY <2>1, <2>2, <2>3, <2>4, <2>5, <2>6, <2>7, <2>8, <2>9, <2>10, <2>11, <2>12,
         <2>13, <2>14, <2>15, <2>16, <2>17, <2>18, <2>19
         DEF SessionSystem, SessionEnvironment, Closer
  <1> QED
    BY <1>1, <1>2

LEMMA Inductive == Spec => []IInv
  BY InitIInv, NextIInv, PTL DEF Spec

(* No lost wake-up (session/coordinator.rs): the coordinator never parks on*)
(* an ended session or on a change to be announced with no permit stored   *)
(* and no notify_one to come, whatever the number of notifiers.            *)
THEOREM NoWakeupIsLost == Spec => []NoLostWakeup
  <1>1. IInv => NoLostWakeup
    BY DEF IInv, CloseIsHeard, ChangeIsHeard, NoLostWakeup
  <1> QED
    BY <1>1, Inductive, PTL

-----------------------------------------------------------------------------
(* An emptied window manager stays empty (window_manager/commands.rs needs *)
(* the active window for every verb that opens a pane; a death notice      *)
(* respawns only into the slot of a pane that is still there).             *)
THEOREM EmptyForGood == Spec => EmptyIsFinal
  <1> DEFINE Stays(t) == Exists(t) /\ panes[t] = {} => panes'[t] = {}
  <1>1. ASSUME TypeOK, [Next]_sessionVars, NEW t \in Sessions PROVE Stays(t)
    <2> USE <1>1 DEF TypeOK, Exists
    <2>0. CASE UNCHANGED sessionVars
      BY <2>0 DEF sessionVars
    <2>00. CASE Next
      <3> PICK s \in Sessions : \/ SessionSystem(s)
                                \/ SessionEnvironment(s)
                                \/ \E p \in Panes : Birth(s, p)
                                \/ StartClose(s, "kill")
        BY <2>00 DEF Next
      <3>1. ASSUME NEW p \in Panes, Birth(s, p) PROVE Stays(t)
        BY <3>1 DEF Birth
      <3>2. ASSUME NEW k \in Closer, StartClose(s, k) PROVE Stays(t)
        BY <3>2 DEF StartClose
      <3>3. ASSUME NEW a \in Notifier, NotifyOne(s, a) PROVE Stays(t)
        BY <3>3 DEF NotifyOne
      <3>4. ASSUME NEW p \in Panes, DeathConsume(s, p) PROVE Stays(t)
        BY <3>4 DEF DeathConsume, AfterDeath
      <3>5. CASE CoordWake(s)
        BY <3>5 DEF CoordWake
      <3>6. CASE CoordSwallow(s)
        BY <3>6 DEF CoordSwallow
      <3>7. CASE CoordCheck(s)
        BY <3>7 DEF CoordCheck
      <3>8. CASE CoordCompose(s)
        BY <3>8 DEF CoordCompose
      <3>9. CASE CoordLeave(s)
        BY <3>9 DEF CoordLeave
      <3>10. ASSUME NEW k \in Closer, CloseNotify(s, k) PROVE Stays(t)
        BY <3>10 DEF CloseNotify
      <3>11. ASSUME NEW k \in Closer, TerminatePanes(s, k) PROVE Stays(t)
        BY <3>11 DEF TerminatePanes
      <3>12. ASSUME NEW p \in Panes, PaneOutput(s, p) PROVE Stays(t)
        BY <3>12 DEF PaneOutput
      <3>13. ASSUME NEW p \in Panes, ChildExit(s, p) PROVE Stays(t)
        BY <3>13 DEF ChildExit
      <3>14. ASSUME NEW k \in Clients, NEW p \in Panes, OpenPane(s, k, p) PROVE Stays(t)
        BY <3>14 DEF OpenPane, Opened, Structural
      <3>15. ASSUME NEW k \in Clients, NEW P \in SUBSET Panes, ClosePanes(s, k, P) PROVE Stays(t)
        BY <3>15 DEF ClosePanes, Closed, Structural
      <3>16. ASSUME NEW k \in Clients, ViewChange(s, k) PROVE Stays(t)
        BY <3>16 DEF ViewChange
      <3>17. CASE CorePanic(s)
        BY <3>17 DEF CorePanic
      <3>18. CASE CoordSkip(s)
        BY <3>18 DEF CoordSkip
      <3>19. ASSUME NEW k \in Clients, CommandFails(s, k) PROVE Stays(t)
        BY <3>19 DEF CommandFails, Opened, Closed, Stranded
      <3> QED
        BY <3>1, <3>2, <3>3, <3>4, <3>5, <3>6, <3>7, <3>8, <3>9, <3>10, <3>11, <3>12,
           <3>13, <3>14, <3>15, <3>16, <3>17, <3>18, <3>19
           DEF SessionSystem, SessionEnvironment, Closer
    <2> QED
      BY <2>0, <2>00
  <1>2. TypeOK /\ [Next]_sessionVars
          => [\A s \in Sessions : Exists(s) /\ panes[s] = {} => panes'[s] = {}]_sessionVars
    BY <1>1
  <1> QED
    BY <1>2, TypeCorrect, PTL DEF Spec, EmptyIsFinal

-----------------------------------------------------------------------------
LEMMA InitLife == SessionInit => Life!LifeInit
  BY DEF SessionInit, Life!LifeInit, Phase, Exists

(* A step that touches one session moves the phase of that session only.   *)
LEMMA PhaseOnlyAt ==
  ASSUME NEW s \in Sessions,
         \A t \in Sessions \ {s} :
            /\ coord'[t] = coord[t] /\ closing'[t] = closing[t]
            /\ panes'[t] = panes[t] /\ deathTask'[t] = deathTask[t]
  PROVE  Phase' = [Phase EXCEPT ![s] = Phase'[s]]
  <1>1. ASSUME NEW t \in Sessions \ {s} PROVE Phase'[t] = Phase[t]
    BY DEF Phase, Exists, FrameClosed
  <1>2. Phase = [t \in Sessions |-> Phase[t]] /\ Phase' = [t \in Sessions |-> Phase'[t]]
    BY DEF Phase
  <1> HIDE DEF Phase
  <1> QED
    BY <1>1, <1>2

LEMMA PhaseUnmoved ==
  ASSUME NEW s \in Sessions, Phase' = [Phase EXCEPT ![s] = Phase'[s]], Phase'[s] = Phase[s]
  PROVE  Phase' = Phase
  <1> Phase \in [Sessions -> {"none", "live", "doomed", "over"}]
    BY DEF Phase
  <1> QED
    OBVIOUS

(* Every step of a session is a step of its promised life, or none.        *)
LEMMA NextLife == IInv /\ [Next]_sessionVars => [Life!LifeNext]_(Life!lifeVars)
  <1> SUFFICES ASSUME IInv, [Next]_sessionVars PROVE [Life!LifeNext]_(Life!lifeVars)
    OBVIOUS
  <1>0. TypeOK /\ TypeOK'
    BY NextTypeOK DEF IInv
  <1>1. CASE UNCHANGED sessionVars
    BY <1>1 DEF sessionVars, Life!lifeVars, Phase, Exists, FrameClosed
  <1>2. CASE Next
    <2> PICK s \in Sessions : \/ SessionSystem(s)
                              \/ SessionEnvironment(s)
                              \/ \E p \in Panes : Birth(s, p)
                              \/ StartClose(s, "kill")
      BY <1>2 DEF Next
    <2> DEFINE Step == \/ Life!Born(s) \/ Life!Doom(s) \/ Life!Close(s) \/ Life!End(s)
                      \/ Life!Break(s) \/ UNCHANGED Life!lifeVars
    <2> SUFFICES Step
      BY DEF Life!LifeNext
    <2> DEFINE Here == Phase' = [Phase EXCEPT ![s] = Phase'[s]]
    <2> USE <1>0 DEF TypeOK
    <2>1. ASSUME NEW p \in Panes, Birth(s, p) PROVE Step
      <3>1. Here
        BY <2>1, PhaseOnlyAt DEF Birth
      <3>2. Phase[s] = "none" /\ Phase'[s] = "live" /\ UNCHANGED closing
        BY <2>1 DEF Birth, IInv, Blank, Phase, Exists, FrameClosed
      <3> QED
        BY <3>1, <3>2 DEF Life!Born
    <2>2. ASSUME NEW k \in Closer, StartClose(s, k) PROVE Step
      <3>1. Here
        BY <2>2, PhaseOnlyAt DEF StartClose
      <3>2. /\ Phase[s] # "none" /\ closing' = [closing EXCEPT ![s] = TRUE]
           /\ Phase'[s] = IF Phase[s] = "live" THEN "doomed" ELSE Phase[s]
        BY <2>2 DEF StartClose, IInv, Blank, Phase, Exists, FrameClosed
      <3> QED
        BY <3>1, <3>2 DEF Life!Close
    <2>3. ASSUME NEW a \in Notifier, NotifyOne(s, a) PROVE Step
      BY <2>3 DEF NotifyOne, Phase, Exists, FrameClosed, Life!lifeVars
    <2>4. ASSUME NEW p \in Panes, DeathConsume(s, p) PROVE Step
      <3>1. Here
        BY <2>4, PhaseOnlyAt DEF DeathConsume, AfterDeath
      <3>2. /\ UNCHANGED closing
           /\ \/ Phase[s] = "live" /\ Phase'[s] = "doomed"
              \/ Phase'[s] = Phase[s]
        BY <2>4 DEF DeathConsume, AfterDeath, IInv, Blank, Phase, Exists, FrameClosed
      <3> QED
        BY <3>1, <3>2, PhaseUnmoved DEF Life!Doom, Life!lifeVars
    <2>5. CASE CoordWake(s)
      BY <2>5 DEF CoordWake, Phase, Exists, FrameClosed, Life!lifeVars
    <2>6. CASE CoordSwallow(s)
      BY <2>6 DEF CoordSwallow, Phase, Exists, FrameClosed, Life!lifeVars
    <2>7. CASE CoordCheck(s)
      BY <2>7 DEF CoordCheck, Phase, Exists, FrameClosed, Life!lifeVars
    <2>8. CASE CoordCompose(s)
      <3>1. Here
        BY <2>8, PhaseOnlyAt DEF CoordCompose
      <3>2. \/ UNCHANGED closing /\ Phase'[s] = Phase[s]
           \/ /\ Phase[s] = "doomed" /\ Phase'[s] = "doomed"
              /\ closing' = [closing EXCEPT ![s] = TRUE]
        BY <2>8 DEF CoordCompose, IInv, Blank, Phase, Exists, FrameClosed
      <3> QED
        BY <3>1, <3>2, PhaseUnmoved DEF Life!Close, Life!lifeVars
    <2>9. CASE CoordLeave(s)
      <3>1. Here
        BY <2>9, PhaseOnlyAt DEF CoordLeave
      <3>2. /\ Phase[s] = "doomed" /\ closing[s] /\ Phase'[s] = "over"
           /\ UNCHANGED closing
        BY <2>9 DEF CoordLeave, IInv, Blank, Phase, Exists, FrameClosed
      <3> QED
        BY <3>1, <3>2 DEF Life!End
    <2>10. ASSUME NEW k \in Closer, CloseNotify(s, k) PROVE Step
      BY <2>10 DEF CloseNotify, Phase, Exists, FrameClosed, Life!lifeVars
    <2>11. ASSUME NEW k \in Closer, TerminatePanes(s, k) PROVE Step
      BY <2>11 DEF TerminatePanes, Phase, Exists, FrameClosed, Life!lifeVars
    <2>12. ASSUME NEW p \in Panes, PaneOutput(s, p) PROVE Step
      BY <2>12 DEF PaneOutput, Phase, Exists, FrameClosed, Life!lifeVars
    <2>13. ASSUME NEW p \in Panes, ChildExit(s, p) PROVE Step
      BY <2>13 DEF ChildExit, Phase, Exists, FrameClosed, Life!lifeVars
    <2>14. ASSUME NEW k \in Clients, NEW p \in Panes, OpenPane(s, k, p) PROVE Step
      BY <2>14 DEF OpenPane, Opened, Structural, Phase, Exists, FrameClosed, Life!lifeVars
    <2>15. ASSUME NEW k \in Clients, NEW P \in SUBSET Panes, ClosePanes(s, k, P) PROVE Step
      <3>1. Here
        BY <2>15, PhaseOnlyAt DEF ClosePanes, Closed, Structural
      <3>2. /\ UNCHANGED closing
           /\ \/ Phase[s] = "live" /\ Phase'[s] = "doomed"
              \/ Phase'[s] = Phase[s]
        BY <2>15 DEF ClosePanes, Closed, Structural, IInv, Blank, Phase, Exists, FrameClosed
      <3> QED
        BY <3>1, <3>2, PhaseUnmoved DEF Life!Doom, Life!lifeVars
    <2>16. ASSUME NEW k \in Clients, ViewChange(s, k) PROVE Step
      BY <2>16 DEF ViewChange, Phase, Exists, FrameClosed, Life!lifeVars
    <2>17. CASE CorePanic(s)
      <3>1. Here
        BY <2>17, PhaseOnlyAt DEF CorePanic
      <3>2. /\ UNCHANGED closing
           /\ \/ Phase[s] = "live" /\ Phase'[s] = "doomed"
              \/ Phase[s] \in {"live", "doomed"} /\ Phase'[s] = "over"
              \/ Phase'[s] = Phase[s]
        BY <2>17 DEF CorePanic, IInv, Blank, Phase, Exists, FrameClosed
      <3> QED
        BY <3>1, <3>2, PhaseUnmoved DEF Life!Doom, Life!Break, Life!lifeVars
    <2>18. CASE CoordSkip(s)
      BY <2>18 DEF CoordSkip, Phase, Exists, FrameClosed, Life!lifeVars
    <2>19. ASSUME NEW k \in Clients, CommandFails(s, k) PROVE Step
      <3>1. Here
        BY <2>19, PhaseOnlyAt DEF CommandFails, Opened, Closed, Stranded
      <3>2. UNCHANGED closing /\ Phase'[s] = Phase[s]
        BY <2>19 DEF CommandFails, Opened, Closed, Stranded, Phase, Exists, FrameClosed
      <3> QED
        BY <3>1, <3>2, PhaseUnmoved DEF Life!lifeVars
    <2> QED
      BY <2>1, <2>2, <2>3, <2>4, <2>5, <2>6, <2>7, <2>8, <2>9, <2>10, <2>11, <2>12,
         <2>13, <2>14, <2>15, <2>16, <2>17, <2>18, <2>19
         DEF SessionSystem, SessionEnvironment, Closer
  <1> QED
    BY <1>1, <1>2

(* The session implements the life it promises to the daemon, for any      *)
(* number of panes and clients: doomed for good once it is, over only once *)
(* it is doomed and marked closing, or broken by a panic.                  *)
THEOREM SessionKeepsItsLife == Spec => KeepsItsLife
  BY InitLife, NextLife, Inductive, PTL DEF Spec, KeepsItsLife, Life!LifeSpec
=============================================================================
