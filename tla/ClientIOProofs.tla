---------------------------- MODULE ClientIOProofs -----------------------------
(***************************************************************************)
(* Theorems about what a client sees and sends: ClientView for any number  *)
(* of clients and sizes, InputRouter for any input, and both with Layout.  *)
(***************************************************************************)
EXTENDS ClientIO, LayoutProofs

(* What SizeHeals rests on: a recomputation that has met no other is the   *)
(* only one, and what it has read is still true.                           *)
Alone == ~overlap => \A c, d \in Recomputing : c = d

ReadIsTrue ==
  ~overlap =>
    \A c \in Clients :
      /\ pc[c] = "ask" => Registered = {}
      /\ pc[c] = "apply" /\ Registered # {} => want[c] = Smallest

SizeInv == ViewTypeOK /\ Alone /\ ReadIsTrue /\ SizeHeals

USE DEF viewVars, mouseVars, statusVars

-----------------------------------------------------------------------------
(* A set of sizes has a smallest, so the session always gets a size that   *)
(* some client has.                                                        *)
LEMMA MinIsMember ==
  ASSUME NEW S, S \subseteq Nat, S # {}
  PROVE  Min(S) \in S
  BY LeastNumber DEF Min

LEMMA SmallestIsSize ==
  ASSUME ViewAssumption, ViewTypeOK, Registered # {}
  PROVE  Smallest \in Sizes
  <1> DEFINE S == {size[c] : c \in Registered}
  <1>1. S \subseteq Sizes /\ S # {}
    BY DEF ViewTypeOK, Registered
  <1>2. Min(S) \in S
    BY <1>1, MinIsMember DEF ViewAssumption
  <1> QED
    BY <1>1, <1>2 DEF Smallest

-----------------------------------------------------------------------------
LEMMA InitViewTypeOK == ViewInit => ViewTypeOK
  BY DEF ViewInit, ViewTypeOK, Registered

(* Every step keeps the types, and with them where a connection may be that*)
(* is, or is not, in the list of clients.                                  *)
LEMMA NextViewTypeOK ==
  ASSUME ViewAssumption, ViewTypeOK, [ViewNext]_viewVars
  PROVE  ViewTypeOK'
  <1>1. CASE UNCHANGED viewVars
    BY <1>1 DEF ViewTypeOK, Registered
  <1>2. ASSUME NEW c \in Clients, NEW s \in Sizes, Register(c, s) PROVE ViewTypeOK'
    BY <1>2 DEF Register, Relist, Goto, ViewTypeOK, Registered, ViewAssumption
  <1>3. ASSUME NEW c \in Clients, NEW s \in Sizes, Resize(c, s) PROVE ViewTypeOK'
    BY <1>3 DEF Resize, Relist, Goto, ViewTypeOK, Registered, ViewAssumption
  <1>4. ASSUME NEW c \in Clients, Leave(c) PROVE ViewTypeOK'
    BY <1>4 DEF Leave, Relist, Goto, ViewTypeOK, Registered, ViewAssumption
  <1>5. ASSUME NEW c \in Clients, ResetGestures(c) PROVE ViewTypeOK'
    BY <1>5 DEF ResetGestures, Goto, ViewTypeOK, Registered
  <1>6. ASSUME NEW c \in Clients, ReadSizes(c) PROVE ViewTypeOK'
    <2>1. CASE Registered = {}
      BY <1>6, <2>1 DEF ReadSizes, Goto, ViewTypeOK, Registered
    <2>2. CASE Registered # {}
      <3>1. Smallest \in Sizes /\ Smallest # None
        BY <2>2, SmallestIsSize DEF ViewAssumption
      <3> QED
        BY <1>6, <2>2, <3>1 DEF ReadSizes, Goto, ViewTypeOK, Registered
    <2> QED
      BY <2>1, <2>2
  <1>7. ASSUME NEW c \in Clients, AskHost(c) PROVE ViewTypeOK'
    BY <1>7 DEF AskHost, Goto, ViewTypeOK, Registered, ViewAssumption
  <1>8. ASSUME NEW c \in Clients, Apply(c) PROVE ViewTypeOK'
    BY <1>8 DEF Apply, Goto, ViewTypeOK, Registered, ViewAssumption
  <1>9. ASSUME NEW c \in Clients, Mouse(c) PROVE ViewTypeOK'
    BY <1>9 DEF Mouse, Goto, ViewTypeOK, Registered
  <1>10. ASSUME NEW c \in Clients, CheckDetach(c) PROVE ViewTypeOK'
    BY <1>10 DEF CheckDetach, Goto, ViewTypeOK, Registered
  <1>11. ASSUME NEW c \in Clients, Chord(c) PROVE ViewTypeOK'
    BY <1>11 DEF Chord, Goto, ViewTypeOK, Registered
  <1>12. ASSUME NEW c \in Clients, NotifyChord(c) PROVE ViewTypeOK'
    BY <1>12 DEF NotifyChord, Goto, ViewTypeOK, Registered
  <1>13. CASE GestureCut \/ CoordWakes
    BY <1>13 DEF GestureCut, CoordWakes, ViewTypeOK, Registered
  <1>14. CASE CoordShows
    BY <1>14 DEF CoordShows, AnyArmed, ViewTypeOK, Registered
  <1> QED
    BY <1>1, <1>2, <1>3, <1>4, <1>5, <1>6, <1>7, <1>8, <1>9, <1>10, <1>11, <1>12,
       <1>13, <1>14 DEF ViewNext

(* The types of ClientView (ViewTypeOK).                                   *)
THEOREM ViewTypeCorrect == ViewSpec => []ViewTypeOK
  BY InitViewTypeOK, NextViewTypeOK, ViewAssumption, PTL DEF ViewSpec

-----------------------------------------------------------------------------
(* While the list stays as it is, so does its minimum.                     *)
LEMMA ListUnchanged ==
  ASSUME size' = size PROVE Registered' = Registered /\ Smallest' = Smallest
  BY DEF Registered, Smallest

(* A change of the list begins a recomputation; it knows whether it is the *)
(* only one.                                                               *)
LEMMA RelistKeeps ==
  ASSUME SizeInv, NEW c \in Clients, NEW s, Relist(c, s),
         NEW d \in {"read", "reset"}, pc' = [pc EXCEPT ![c] = d]
  PROVE  Alone' /\ ReadIsTrue' /\ SizeHeals'
  <1>1. pc = [b \in Clients |-> pc[b]]
    BY DEF SizeInv, ViewTypeOK
  <1>2. c \in Recomputing'
    BY <1>1 DEF Recomputing
  <1>3. ASSUME ~overlap' PROVE \A b \in Clients : b \in Recomputing' => b = c
    BY <1>1, <1>3 DEF Relist, Recomputing
  <1>4. Alone'
    BY <1>3 DEF Alone, Recomputing
  <1>5. ReadIsTrue'
    BY <1>1, <1>3 DEF ReadIsTrue, Recomputing
  <1>6. SizeHeals'
    BY <1>2 DEF SizeHeals
  <1> QED
    BY <1>4, <1>5, <1>6

(* A step that touches neither the list, nor the size, nor a recomputation.*)
LEMMA OtherStepKeeps ==
  ASSUME SizeInv, size' = size, host' = host, want' = want, overlap' = overlap,
         Recomputing' = Recomputing,
         \A c \in Clients : pc'[c] = pc[c] \/ c \notin Recomputing'
  PROVE  Alone' /\ ReadIsTrue' /\ SizeHeals'
  <1>1. Registered' = Registered /\ Smallest' = Smallest
    BY ListUnchanged
  <1>2. Alone'
    BY DEF SizeInv, Alone
  <1>3. \A c \in Clients : pc'[c] \in {"ask", "apply"} => pc'[c] = pc[c]
    BY DEF Recomputing
  <1>4. ReadIsTrue'
    BY <1>1, <1>3 DEF SizeInv, ReadIsTrue
  <1>5. SizeHeals'
    BY <1>1 DEF SizeInv, SizeHeals
  <1> QED
    BY <1>2, <1>4, <1>5

LEMMA InitSizeInv == ViewInit => SizeInv
  BY InitViewTypeOK
     DEF ViewInit, SizeInv, Alone, ReadIsTrue, SizeHeals, Recomputing, Registered

LEMMA NextSizeInv ==
  ASSUME ViewAssumption, SizeInv, [ViewNext]_viewVars
  PROVE  SizeInv'
  <1> DEFINE Goal == Alone' /\ ReadIsTrue' /\ SizeHeals'
  <1>0. pc = [c \in Clients |-> pc[c]] /\ want \in [Clients -> Sizes \cup {None}]
    BY DEF SizeInv, ViewTypeOK
  <1>1. ASSUME UNCHANGED viewVars PROVE Goal
    <2>1. /\ size' = size /\ host' = host /\ want' = want /\ overlap' = overlap
          /\ pc' = pc
      BY <1>1
    <2>2. /\ Recomputing' = Recomputing
          /\ \A d \in Clients : pc'[d] = pc[d] \/ d \notin Recomputing'
      BY <2>1 DEF Recomputing
    <2> QED
      BY <2>1, <2>2, OtherStepKeeps
  <1>2. ASSUME NEW c \in Clients, NEW s \in Sizes, Register(c, s) \/ Resize(c, s)
        PROVE  Goal
    BY <1>2, RelistKeeps DEF Register, Resize, Goto
  <1>3. ASSUME NEW c \in Clients, Leave(c) PROVE Goal
    BY <1>3, RelistKeeps DEF Leave, Goto
  <1>4. ASSUME NEW c \in Clients, ResetGestures(c) PROVE Goal
    <2>1. Registered' = Registered /\ Smallest' = Smallest
      BY <1>4, ListUnchanged DEF ResetGestures
    <2>2. Recomputing' = Recomputing
      BY <1>0, <1>4 DEF ResetGestures, Goto, Recomputing
    <2> QED
      BY <1>0, <1>4, <2>1, <2>2
         DEF ResetGestures, Goto, SizeInv, Alone, ReadIsTrue, SizeHeals
  <1>5. ASSUME NEW c \in Clients, ReadSizes(c) PROVE Goal
    <2>1. Registered' = Registered /\ Smallest' = Smallest
      BY <1>5, ListUnchanged DEF ReadSizes
    <2>2. Recomputing' = Recomputing
      BY <1>0, <1>5 DEF ReadSizes, Goto, Recomputing
    <2>3. ReadIsTrue'
      BY <1>0, <1>5, <2>1 DEF ReadSizes, Goto, SizeInv, ReadIsTrue
    <2> QED
      BY <1>5, <2>1, <2>2, <2>3 DEF ReadSizes, SizeInv, Alone, SizeHeals
  <1>6. ASSUME NEW c \in Clients, AskHost(c) PROVE Goal
    <2>1. Registered' = Registered /\ Smallest' = Smallest
      BY <1>6, ListUnchanged DEF AskHost
    <2>2. Recomputing' = Recomputing
      BY <1>0, <1>6 DEF AskHost, Goto, Recomputing
    <2>3. ReadIsTrue'
      BY <1>0, <1>6, <2>1 DEF AskHost, Goto, SizeInv, ReadIsTrue
    <2> QED
      BY <1>6, <2>1, <2>2, <2>3 DEF AskHost, SizeInv, Alone, SizeHeals
  <1>7. ASSUME NEW c \in Clients, Apply(c) PROVE Goal
    <2>1. Registered' = Registered /\ Smallest' = Smallest
      BY <1>7, ListUnchanged DEF Apply
    <2>2. Recomputing' = Recomputing \ {c} /\ c \in Recomputing
      BY <1>0, <1>7 DEF Apply, Goto, Recomputing
    <2>3. overlap' = overlap /\ host' = want[c] /\ pc[c] = "apply"
      BY <1>7 DEF Apply, Goto
    <2>4. Alone'
      BY <2>2, <2>3 DEF SizeInv, Alone
    <2>5. ASSUME ~overlap PROVE Recomputing' = {}
      BY <2>2, <2>5 DEF SizeInv, Alone
    <2>6. \A d \in Clients : pc'[d] \in {"ask", "apply"} => d \in Recomputing'
      BY DEF Recomputing
    <2>7. ReadIsTrue'
      BY <2>3, <2>5, <2>6 DEF ReadIsTrue
    <2>8. SizeHeals'
      BY <2>1, <2>3 DEF SizeInv, ReadIsTrue, SizeHeals
    <2> QED
      BY <2>4, <2>7, <2>8
  <1>8. ASSUME NEW c \in Clients,
               Mouse(c) \/ CheckDetach(c) \/ Chord(c) \/ NotifyChord(c)
        PROVE  Goal
    <2>1. /\ size' = size /\ host' = host /\ want' = want /\ overlap' = overlap
          /\ pc[c] \in {"ready", "check", "owes"}
          /\ \E d \in {"ready", "check", "owes", "leave"} : pc' = [pc EXCEPT ![c] = d]
      BY <1>8 DEF Mouse, CheckDetach, Chord, NotifyChord, Goto
    <2>2. /\ Recomputing' = Recomputing
          /\ \A d \in Clients : pc'[d] = pc[d] \/ d \notin Recomputing'
      BY <1>0, <2>1 DEF Recomputing
    <2> QED
      BY <2>1, <2>2, OtherStepKeeps
  <1>9. ASSUME GestureCut \/ CoordWakes \/ CoordShows PROVE Goal
    <2>1. /\ size' = size /\ host' = host /\ want' = want /\ overlap' = overlap
          /\ pc' = pc
      BY <1>9 DEF GestureCut, CoordWakes, CoordShows
    <2>2. /\ Recomputing' = Recomputing
          /\ \A d \in Clients : pc'[d] = pc[d] \/ d \notin Recomputing'
      BY <2>1 DEF Recomputing
    <2> QED
      BY <2>1, <2>2, OtherStepKeeps
  <1> HIDE DEF Goal
  <1>10. Goal
    BY <1>1, <1>2, <1>3, <1>4, <1>5, <1>6, <1>7, <1>8, <1>9 DEF ViewNext
  <1>11. ViewTypeOK'
    BY NextViewTypeOK DEF SizeInv
  <1> QED
    BY <1>10, <1>11 DEF SizeInv, Goal

(* SizeHeals: once a change of the client list has been followed through   *)
(* without meeting another, the session has the smallest of its clients'   *)
(* sizes, for any number of clients.                                       *)
THEOREM SizeComesRight == ViewSpec => []SizeHeals
  <1>1. SizeInv => SizeHeals
    BY DEF SizeInv
  <1> QED
    BY <1>1, InitSizeInv, NextSizeInv, ViewAssumption, PTL DEF ViewSpec

-----------------------------------------------------------------------------
(* DetachIsFresh: a detach request is set only while the connection that   *)
(* raised it is about to look.                                             *)
THEOREM DetachStaysFresh == ViewSpec => []DetachIsFresh
  <1>1. ViewInit => DetachIsFresh
    BY DEF ViewInit, DetachIsFresh
  <1>2. ASSUME ViewTypeOK, DetachIsFresh, [ViewNext]_viewVars PROVE DetachIsFresh'
    <2>0. pc = [c \in Clients |-> pc[c]]
      BY <1>2 DEF ViewTypeOK
    <2>1. ASSUME NEW c \in Clients, Mouse(c) PROVE DetachIsFresh'
      BY <2>0, <2>1 DEF Mouse, Goto, DetachIsFresh
    <2>2. ASSUME NEW c \in Clients, CheckDetach(c) PROVE DetachIsFresh'
      BY <2>2 DEF CheckDetach, DetachIsFresh
    <2>3. ASSUME detach' = detach, NEW c \in Clients, pc[c] # "check",
                 NEW d, pc' = [pc EXCEPT ![c] = d]
          PROVE  DetachIsFresh'
      BY <1>2, <2>0, <2>3 DEF DetachIsFresh
    <2>4. ASSUME detach' = detach, pc' = pc PROVE DetachIsFresh'
      BY <1>2, <2>4 DEF DetachIsFresh
    <2>5. ASSUME NEW c \in Clients,
                 \/ \E s \in Sizes : Register(c, s) \/ Resize(c, s)
                 \/ Leave(c) \/ ResetGestures(c) \/ ReadSizes(c) \/ AskHost(c)
                 \/ Apply(c) \/ Chord(c) \/ NotifyChord(c)
          PROVE  DetachIsFresh'
      BY <2>3, <2>5 DEF Register, Resize, Leave, ResetGestures, ReadSizes, AskHost,
                       Apply, Chord, NotifyChord, Goto, Relist
    <2>6. CASE GestureCut \/ CoordWakes \/ CoordShows \/ UNCHANGED viewVars
      BY <2>4, <2>6 DEF GestureCut, CoordWakes, CoordShows
    <2> QED
      BY <1>2, <2>1, <2>2, <2>5, <2>6 DEF ViewNext
  <1> QED
    BY <1>1, <1>2, ViewTypeCorrect, PTL DEF ViewSpec

-----------------------------------------------------------------------------
(* GestureHasOwner: whoever's press latched the gesture is still a client, *)
(* or its departure has the reset yet to come.                             *)
THEOREM GesturesHaveOwners == ViewSpec => []GestureHasOwner
  <1>1. ViewInit => GestureHasOwner
    BY DEF ViewInit, GestureHasOwner
  <1>2. ASSUME ViewAssumption, ViewTypeOK, GestureHasOwner, [ViewNext]_viewVars
        PROVE  GestureHasOwner'
    <2>0. /\ pc = [c \in Clients |-> pc[c]] /\ size = [c \in Clients |-> size[c]]
          /\ gesture \in Clients \cup {None} /\ None \notin Clients
          /\ \A c \in Clients : pc[c] = "ready" => c \in Registered
      BY <1>2 DEF ViewTypeOK, ViewAssumption
    <2>1. ASSUME NEW c \in Clients, NEW s \in Sizes, Register(c, s) \/ Resize(c, s)
          PROVE  GestureHasOwner'
      BY <1>2, <2>0, <2>1
         DEF Register, Resize, Relist, Goto, GestureHasOwner, Registered, ViewAssumption
    <2>2. ASSUME NEW c \in Clients, Leave(c) PROVE GestureHasOwner'
      BY <1>2, <2>0, <2>2 DEF Leave, Relist, Goto, GestureHasOwner, Registered
    <2>3. CASE GestureCut \/ \E c \in Clients : ResetGestures(c)
      BY <2>3 DEF GestureCut, ResetGestures, GestureHasOwner
    <2>4. ASSUME NEW c \in Clients, Mouse(c) PROVE GestureHasOwner'
      <3>1. /\ size' = size /\ gesture' \in {gesture, c, None}
            /\ pc[c] = "ready" /\ pc' = [pc EXCEPT ![c] = "check"]
        BY <2>4 DEF Mouse, Goto
      <3>2. Registered' = Registered /\ c \in Registered
        BY <2>0, <3>1, ListUnchanged
      <3> QED
        BY <1>2, <2>0, <3>1, <3>2 DEF GestureHasOwner
    <2>5. ASSUME size' = size, gesture' = gesture,
                 \A c \in Clients : pc[c] = "reset" => pc'[c] = "reset"
          PROVE  GestureHasOwner'
      BY <1>2, <2>0, <2>5 DEF GestureHasOwner, Registered
    <2>6. ASSUME NEW c \in Clients,
                 \/ ReadSizes(c) \/ AskHost(c) \/ Apply(c)
                 \/ CheckDetach(c) \/ Chord(c) \/ NotifyChord(c)
          PROVE  GestureHasOwner'
      <3>1. size' = size /\ gesture' = gesture
        BY <2>6 DEF ReadSizes, AskHost, Apply, CheckDetach, Chord, NotifyChord
      <3>2. pc[c] # "reset" /\ \A d \in Clients \ {c} : pc'[d] = pc[d]
        BY <2>0, <2>6 DEF ReadSizes, AskHost, Apply, CheckDetach, Chord, NotifyChord, Goto
      <3>3. \A d \in Clients : pc[d] = "reset" => pc'[d] = "reset"
        BY <3>2
      <3> QED
        BY <2>5, <3>1, <3>3
    <2>7. CASE CoordWakes \/ CoordShows \/ UNCHANGED viewVars
      BY <2>5, <2>7 DEF CoordWakes, CoordShows
    <2> QED
      BY <1>2, <2>1, <2>2, <2>3, <2>4, <2>6, <2>7 DEF ViewNext
  <1> QED
    BY <1>1, <1>2, ViewTypeCorrect, ViewAssumption, PTL DEF ViewSpec

(* IndicatorFollows: a wrong prefix indicator never stays, for any number  *)
(* of clients and however the coordinator's wake-ups run together.         *)
THEOREM IndicatorKeepsUp == ViewSpec => []IndicatorFollows
  <1>1. ViewInit => IndicatorFollows
    BY DEF ViewInit, IndicatorFollows, AnyArmed, Registered
  <1>2. ASSUME ViewTypeOK, IndicatorFollows, [ViewNext]_viewVars
        PROVE  IndicatorFollows'
    <2>0. pc = [c \in Clients |-> pc[c]]
      BY <1>2 DEF ViewTypeOK
    <2>1. ASSUME NEW c \in Clients,
                 \/ (\E s \in Sizes : Register(c, s) \/ Resize(c, s))
                 \/ Leave(c) \/ ResetGestures(c) \/ ReadSizes(c) \/ AskHost(c)
          PROVE  IndicatorFollows'
      <3>1. pc'[c] \in {"read", "reset", "ask", "apply"}
        BY <2>0, <2>1
           DEF Register, Resize, Leave, ResetGestures, ReadSizes, AskHost, Goto
      <3> QED
        BY <3>1 DEF Recomputing, IndicatorFollows
    <2>2. ASSUME NEW c \in Clients, Apply(c) \/ Mouse(c) \/ NotifyChord(c)
          PROVE  IndicatorFollows'
      BY <2>2 DEF Apply, Mouse, NotifyChord, IndicatorFollows
    <2>3. ASSUME NEW c \in Clients, CheckDetach(c) PROVE IndicatorFollows'
      <3>1. /\ size' = size /\ armed' = armed /\ coord' = coord /\ shown' = shown
            /\ permit' = permit /\ pc[c] = "check"
            /\ \E d \in {"leave", "ready"} : pc' = [pc EXCEPT ![c] = d]
        BY <2>3 DEF CheckDetach, Goto
      <3>2. /\ Recomputing' = Recomputing
            /\ \A d \in Clients : pc[d] = "owes" => pc'[d] = "owes"
        <4> PICK d \in {"leave", "ready"} : pc' = [pc EXCEPT ![c] = d]
          BY <3>1
        <4>1. \A b \in Clients : pc'[b] = pc[b] \/ (b = c /\ pc'[b] = d)
          BY <2>0
        <4> QED
          BY <3>1, <4>1 DEF Recomputing
      <3>3. AnyArmed' = AnyArmed
        BY <3>1 DEF AnyArmed, Registered
      <3> QED
        BY <1>2, <3>1, <3>2, <3>3 DEF IndicatorFollows
    <2>4. ASSUME NEW c \in Clients, Chord(c) PROVE IndicatorFollows'
      BY <2>0, <2>4 DEF Chord, Goto, IndicatorFollows
    <2>5. CASE GestureCut \/ CoordWakes
      BY <2>5 DEF GestureCut, CoordWakes, IndicatorFollows
    <2>6. CASE CoordShows
      <3>1. shown' = AnyArmed /\ AnyArmed' = AnyArmed
        BY <2>6 DEF CoordShows, AnyArmed, Registered
      <3> QED
        BY <3>1 DEF IndicatorFollows
    <2>7. CASE UNCHANGED viewVars
      <3>1. AnyArmed' = AnyArmed /\ Recomputing' = Recomputing
        BY <2>7 DEF AnyArmed, Registered, Recomputing
      <3> QED
        BY <1>2, <2>7, <3>1 DEF IndicatorFollows
    <2> QED
      BY <1>2, <2>1, <2>2, <2>3, <2>4, <2>5, <2>6, <2>7 DEF ViewNext
  <1> QED
    BY <1>1, <1>2, ViewTypeCorrect, PTL DEF ViewSpec

-----------------------------------------------------------------------------
(* InputRouter.                                                            *)

(* The bytes.  Of a string that is written out the provers do not know that*)
(* it is in STRING.                                                        *)
Char == STRING \cup {Esc, "[", "2", "0", "1", "~", "tick"}

(* What the parsers hold, and the events: a sequence each of whose bytes   *)
(* carries on what is before it.                                           *)
Event == {"key", "mouse", "paste"} \X Seq(Char)

KeyHolds ==
  {k \in Seq(Char) : \A n \in 1 .. Len(k) : KeyGoesOn(SubSeq(k, 1, n - 1), k[n])}

MouseHolds ==
  {m \in Seq(Char) : \A n \in 1 .. Len(m) : MouseGoesOn(SubSeq(m, 1, n - 1), m[n])}

States == [mouse : MouseHolds, keys : KeyHolds, out : Seq(Event)]

LEMMA BytesAreChars ==
  /\ Esc \in Char /\ Esc # "tick" /\ "tick" \in Char
  /\ <<>> \in Seq(Char) /\ <<Esc>> \in Seq(Char)
  /\ Opener \in Seq(Char) /\ Closer \in Seq(Char)
  /\ Opener # <<>> /\ Closer # <<>>
  <1>1. {Esc, "[", "2", "0", "1", "~", "tick"} \subseteq Char
    BY DEF Char
  <1>2. Esc # "tick"
    BY DEF Esc
  <1>3. <<>> \in Seq(Char) /\ <<Esc>> \in Seq(Char)
    BY <1>1, EmptySeq
  <1>4. Opener \in Seq(Char) /\ Opener # <<>>
    BY <1>1 DEF Opener
  <1>5. Closer \in Seq(Char) /\ Closer # <<>>
    BY <1>1 DEF Closer
  <1> QED
    BY <1>1, <1>2, <1>3, <1>4, <1>5

(* The bytes before one that is appended stay what they were.              *)
LEMMA PrefixOfAppend ==
  ASSUME NEW S, NEW s \in Seq(S), NEW e \in S, NEW n \in 0 .. Len(s)
  PROVE  SubSeq(Append(s, e), 1, n) = SubSeq(s, 1, n)
  <1> DEFINE t == Append(s, e)
  <1>1. /\ t \in Seq(S) /\ Len(t) = Len(s) + 1 /\ Len(s) \in Nat
        /\ \A i \in 1 .. Len(s) : t[i] = s[i] /\ s[i] \in S
    BY AppendProperties, LenProperties
  <1> HIDE DEF t
  <1>2. \A i \in 1 .. n : i \in 1 .. Len(s)
    BY <1>1
  <1>3. \A i \in 1 .. n : t[i] \in S /\ s[i] \in S
    BY <1>1, <1>2
  <1>4. n \in Int /\ 1 \in Int /\ n - 1 + 1 = n
    BY <1>1
  <1>5. /\ SubSeq(t, 1, n) \in Seq(S)
        /\ Len(SubSeq(t, 1, n)) = IF 1 <= n THEN n - 1 + 1 ELSE 0
        /\ \A i \in 1 .. n - 1 + 1 : SubSeq(t, 1, n)[i] = t[1 + i - 1]
    BY <1>3, <1>4, SubSeqProperties
  <1>6. /\ SubSeq(s, 1, n) \in Seq(S)
        /\ Len(SubSeq(s, 1, n)) = IF 1 <= n THEN n - 1 + 1 ELSE 0
        /\ \A i \in 1 .. n - 1 + 1 : SubSeq(s, 1, n)[i] = s[1 + i - 1]
    BY <1>3, <1>4, SubSeqProperties
  <1>7. Len(SubSeq(t, 1, n)) = Len(SubSeq(s, 1, n)) /\ Len(SubSeq(t, 1, n)) = n
    BY <1>4, <1>5, <1>6
  <1>8. ASSUME NEW i \in 1 .. n PROVE SubSeq(t, 1, n)[i] = SubSeq(s, 1, n)[i]
    <2>1. 1 + i - 1 = i /\ i \in 1 .. n - 1 + 1
      BY <1>4
    <2> QED
      BY <1>1, <1>2, <1>5, <1>6, <2>1
  <1>9. SubSeq(t, 1, n) = SubSeq(s, 1, n)
    BY <1>5, <1>6, <1>7, <1>8, SeqEqual
  <1> QED
    BY <1>9 DEF t

(* A byte of a sequence with one more is one of before, or the new one.     *)
LEMMA AppendedAt ==
  ASSUME NEW S, NEW s \in Seq(S), NEW e \in S, NEW n \in 1 .. Len(Append(s, e))
  PROVE  /\ n \in 1 .. Len(s) => /\ SubSeq(Append(s, e), 1, n - 1) = SubSeq(s, 1, n - 1)
                                 /\ Append(s, e)[n] = s[n]
         /\ n \notin 1 .. Len(s) => /\ SubSeq(Append(s, e), 1, n - 1) = s
                                    /\ Append(s, e)[n] = e
  <1>1. Len(s) \in Nat
    BY LenProperties
  <1>2. Len(Append(s, e)) = Len(s) + 1
    BY AppendProperties
  <1>3. CASE n \in 1 .. Len(s)
    <2>1. n - 1 \in 0 .. Len(s)
      BY <1>1, <1>3
    <2>2. SubSeq(Append(s, e), 1, n - 1) = SubSeq(s, 1, n - 1)
      BY <2>1, PrefixOfAppend
    <2>3. Append(s, e)[n] = s[n]
      BY <1>3, AppendProperties
    <2> QED
      BY <1>3, <2>2, <2>3
  <1>4. CASE n \notin 1 .. Len(s)
    <2>1. n = Len(s) + 1 /\ n - 1 = Len(s) /\ Len(s) \in 0 .. Len(s)
      BY <1>1, <1>2, <1>4
    <2>2. SubSeq(Append(s, e), 1, Len(s)) = SubSeq(s, 1, Len(s))
      BY <2>1, PrefixOfAppend
    <2>3. SubSeq(s, 1, Len(s)) = s
      BY SubSeqFull
    <2>4. Append(s, e)[Len(s) + 1] = e
      BY AppendProperties
    <2> QED
      BY <1>4, <2>1, <2>2, <2>3, <2>4
  <1> QED
    BY <1>3, <1>4

LEMMA KeyHoldGrows ==
  ASSUME NEW k \in KeyHolds, NEW b \in Char, KeyGoesOn(k, b)
  PROVE  Append(k, b) \in KeyHolds
  <1> DEFINE t == Append(k, b)
  <1>1. k \in Seq(Char)
    BY DEF KeyHolds
  <1>2. t \in Seq(Char)
    BY <1>1, AppendProperties
  <1>3. ASSUME NEW n \in 1 .. Len(t)
       PROVE  KeyGoesOn(SubSeq(t, 1, n - 1), t[n])
    <2>1. CASE n \in 1 .. Len(k)
      <3>1. SubSeq(t, 1, n - 1) = SubSeq(k, 1, n - 1)
        <4>1. n - 1 \in 0 .. Len(k)
          BY <1>1, <2>1, LenProperties
        <4> QED
          BY <1>1, <4>1, PrefixOfAppend
      <3>3. t[n] = k[n]
        BY <1>1, <2>1, AppendProperties
      <3>2. KeyGoesOn(SubSeq(k, 1, n - 1), k[n])
        BY <2>1 DEF KeyHolds
      <3> QED
        BY <3>1, <3>2, <3>3
    <2>2. CASE n \notin 1 .. Len(k)
      <3>1. SubSeq(t, 1, n - 1) = k /\ t[n] = b
        BY <1>1, <2>2, AppendedAt
      <3> QED
        BY <3>1
    <2> QED
      BY <2>1, <2>2
  <1> HIDE DEF t
  <1>4. t \in KeyHolds
    BY <1>2, <1>3 DEF KeyHolds
  <1> QED
    BY <1>4 DEF t

LEMMA MouseHoldGrows ==
  ASSUME NEW k \in MouseHolds, NEW b \in Char, MouseGoesOn(k, b)
  PROVE  Append(k, b) \in MouseHolds
  <1> DEFINE t == Append(k, b)
  <1>1. k \in Seq(Char)
    BY DEF MouseHolds
  <1>2. t \in Seq(Char)
    BY <1>1, AppendProperties
  <1>3. ASSUME NEW n \in 1 .. Len(t)
       PROVE  MouseGoesOn(SubSeq(t, 1, n - 1), t[n])
    <2>1. CASE n \in 1 .. Len(k)
      <3>1. SubSeq(t, 1, n - 1) = SubSeq(k, 1, n - 1)
        <4>1. n - 1 \in 0 .. Len(k)
          BY <1>1, <2>1, LenProperties
        <4> QED
          BY <1>1, <4>1, PrefixOfAppend
      <3>3. t[n] = k[n]
        BY <1>1, <2>1, AppendProperties
      <3>2. MouseGoesOn(SubSeq(k, 1, n - 1), k[n])
        BY <2>1 DEF MouseHolds
      <3> QED
        BY <3>1, <3>2, <3>3
    <2>2. CASE n \notin 1 .. Len(k)
      <3>1. SubSeq(t, 1, n - 1) = k /\ t[n] = b
        BY <1>1, <2>2, AppendedAt
      <3> QED
        BY <3>1
    <2> QED
      BY <2>1, <2>2
  <1> HIDE DEF t
  <1>4. t \in MouseHolds
    BY <1>2, <1>3 DEF MouseHolds
  <1> QED
    BY <1>4 DEF t

LEMMA NothingHeld == <<>> \in KeyHolds /\ <<>> \in MouseHolds
  <1>1. <<>> \in Seq(Char) /\ Len(<<>>) = 0
    BY EmptySeq
  <1>2. 1 .. 0 = {}
    OBVIOUS
  <1> QED
    BY <1>1, <1>2 DEF KeyHolds, MouseHolds

-----------------------------------------------------------------------------
(* What one byte does to the key parser, and what several do.              *)
LEMMA FeedKeyIs ==
  ASSUME NEW s \in States, NEW b \in Char
  PROVE  FeedKey(s, b) \in States /\ FeedKey(s, b).mouse = s.mouse
  <1>1. s.mouse \in MouseHolds /\ s.keys \in KeyHolds /\ s.out \in Seq(Event)
    BY DEF States
  <1>2. CASE KeyGoesOn(s.keys, b)
    <2>1. Append(s.keys, b) \in KeyHolds
      BY <1>1, <1>2, KeyHoldGrows
    <2> QED
      BY <1>1, <1>2, <2>1 DEF FeedKey, States
  <1>3. CASE ~KeyGoesOn(s.keys, b)
    <2>1. Append(s.keys, b) \in Seq(Char)
      BY <1>1, AppendProperties DEF KeyHolds
    <2>2. <<"key", Append(s.keys, b)>> \in Event
      BY <2>1 DEF Event
    <2>3. Append(s.out, <<"key", Append(s.keys, b)>>) \in Seq(Event)
      BY <1>1, <2>2, AppendProperties
    <2>4. <<>> \in KeyHolds
      BY NothingHeld
    <2> QED
      BY <1>1, <1>3, <2>3, <2>4 DEF FeedKey, States
  <1> QED
    BY <1>2, <1>3

LEMMA FeedKeysIs ==
  ASSUME NEW s \in States, NEW bs \in Seq(Char)
  PROVE  /\ FeedKeys(s, bs) \in States /\ FeedKeys(s, bs).mouse = s.mouse
         /\ Len(bs) = 0 => FeedKeys(s, bs) = s
         /\ Len(bs) = 1 => FeedKeys(s, bs) = FeedKey(s, bs[1])
  <1> DEFINE m == Len(bs)
             X == {u \in States : u.mouse = s.mouse}
             Step(f, n) == IF n = 0 THEN s ELSE FeedKey(f[n - 1], bs[n])
             Fed(f) == f = [n \in 0 .. m |-> Step(f, n)]
             after[n \in 0 .. m] == Step(after, n)
             F == [n \in 1 .. m |-> [u \in X |-> FeedKey(u, bs[n])]]
  <1>1. m \in Nat /\ \A n \in 1 .. m : bs[n] \in Char
    BY LenProperties
  <1>2. FeedKeys(s, bs) = after[m]
    BY DEF FeedKeys
  <1>3. after = CHOOSE f : Fed(f)
    BY DEF after
  <1>4. s \in X
    OBVIOUS
  <1> HIDE DEF m, after
  <1>5. \A n \in 1 .. m, u \in X : FeedKey(u, bs[n]) \in X
    BY <1>1, FeedKeyIs
  <1>6. F \in [1 .. m -> [X -> X]]
    BY <1>5
  <1>7. \A n \in 1 .. m, u \in X : F[n][u] = FeedKey(u, bs[n])
    OBVIOUS
  <1> HIDE DEF X, F, Step
  <1>8. PICK f : AreIterates(f, X, m, s, F)
    BY <1>1, <1>4, <1>6, IteratesExist
  <1>9. ASSUME NEW n \in 0 .. m PROVE f[n] = Step(f, n)
    <2>1. CASE n = 0
      BY <1>8, <2>1 DEF Step, AreIterates
    <2>2. CASE n # 0
      <3>1. n \in 1 .. m /\ n - 1 \in 0 .. m
        BY <1>1, <2>2
      <3>2. f[n - 1] \in X /\ f[n] = F[n][f[n - 1]]
        BY <1>8, <3>1 DEF AreIterates
      <3> QED
        BY <1>7, <2>2, <3>1, <3>2 DEF Step
    <2> QED
      BY <2>1, <2>2
  <1>10. Fed(f)
    BY <1>8, <1>9 DEF AreIterates
  <1> HIDE DEF Fed
  <1>11. Fed(after)
    BY <1>3, <1>10
  <1>12. \A n \in 0 .. m : after[n] = Step(after, n)
    BY <1>11 DEF Fed
  <1>13. after[0] = s
    <2>1. 0 \in 0 .. m
      BY <1>1
    <2> QED
      BY <1>12, <2>1 DEF Step
  <1>14. ASSUME NEW n \in 1 .. m PROVE after[n] = FeedKey(after[n - 1], bs[n])
    <2>1. n \in 0 .. m /\ n # 0
      BY <1>1
    <2> QED
      BY <1>12, <2>1 DEF Step
  <1>15. after[m] \in X
    <2>1. \A n \in 1 .. m : after[n - 1] \in X => after[n] \in X
      BY <1>5, <1>14
    <2> QED
      BY <1>1, <1>4, <1>13, <2>1, IteratesStay
  <1>16. ASSUME m = 1 PROVE after[m] = FeedKey(s, bs[1])
    <2>1. 1 \in 1 .. m /\ 1 - 1 = 0
      BY <1>16
    <2> QED
      BY <1>13, <1>14, <1>16, <2>1
  <1> QED
    BY <1>2, <1>13, <1>15, <1>16 DEF X, m

LEMMA FeedMouseIs ==
  ASSUME NEW s \in States, NEW b \in Char
  PROVE  FeedMouse(s, b) \in States
  <1>1. s.mouse \in MouseHolds /\ s.keys \in KeyHolds /\ s.out \in Seq(Event)
    BY DEF States
  <1>2. Append(s.mouse, b) \in Seq(Char) /\ <<>> \in MouseHolds
    BY <1>1, AppendProperties, NothingHeld DEF MouseHolds
  <1>3. CASE MouseGoesOn(s.mouse, b)
    <2>1. Append(s.mouse, b) \in MouseHolds
      BY <1>1, <1>3, MouseHoldGrows
    <2> QED
      BY <1>1, <1>3, <2>1 DEF FeedMouse, States
  <1>4. CASE ~MouseGoesOn(s.mouse, b) /\ Len(s.mouse) >= 3 /\ b = "M"
    <2>1. <<"mouse", Append(s.mouse, b)>> \in Event
      BY <1>2 DEF Event
    <2>2. Append(s.out, <<"mouse", Append(s.mouse, b)>>) \in Seq(Event)
      BY <1>1, <2>1, AppendProperties
    <2> QED
      BY <1>1, <1>2, <1>4, <2>2 DEF FeedMouse, States
  <1>5. CASE ~MouseGoesOn(s.mouse, b) /\ ~(Len(s.mouse) >= 3 /\ b = "M")
    <2>1. [s EXCEPT !.mouse = <<>>] \in States
      BY <1>1, <1>2 DEF States
    <2>2. FeedKeys([s EXCEPT !.mouse = <<>>], Append(s.mouse, b)) \in States
      BY <1>2, <2>1, FeedKeysIs
    <2> QED
      BY <1>5, <2>2 DEF FeedMouse
  <1> QED
    BY <1>3, <1>4, <1>5

LEMMA FeedMiceIs ==
  ASSUME NEW s \in States, NEW bs \in Seq(Char)
  PROVE  /\ FeedMice(s, bs) \in States
         /\ Len(bs) = 0 => FeedMice(s, bs) = s
         /\ Len(bs) = 1 => FeedMice(s, bs) = FeedMouse(s, bs[1])
  <1> DEFINE m == Len(bs)
             X == States
             Step(f, n) == IF n = 0 THEN s ELSE FeedMouse(f[n - 1], bs[n])
             Fed(f) == f = [n \in 0 .. m |-> Step(f, n)]
             after[n \in 0 .. m] == Step(after, n)
             F == [n \in 1 .. m |-> [u \in X |-> FeedMouse(u, bs[n])]]
  <1>1. m \in Nat /\ \A n \in 1 .. m : bs[n] \in Char
    BY LenProperties
  <1>2. FeedMice(s, bs) = after[m]
    BY DEF FeedMice
  <1>3. after = CHOOSE f : Fed(f)
    BY DEF after
  <1>4. s \in X
    OBVIOUS
  <1> HIDE DEF m, after
  <1>5. \A n \in 1 .. m, u \in X : FeedMouse(u, bs[n]) \in X
    BY <1>1, FeedMouseIs
  <1>6. F \in [1 .. m -> [X -> X]]
    BY <1>5
  <1>7. \A n \in 1 .. m, u \in X : F[n][u] = FeedMouse(u, bs[n])
    OBVIOUS
  <1> HIDE DEF X, F, Step
  <1>8. PICK f : AreIterates(f, X, m, s, F)
    BY <1>1, <1>4, <1>6, IteratesExist
  <1>9. ASSUME NEW n \in 0 .. m PROVE f[n] = Step(f, n)
    <2>1. CASE n = 0
      BY <1>8, <2>1 DEF Step, AreIterates
    <2>2. CASE n # 0
      <3>1. n \in 1 .. m /\ n - 1 \in 0 .. m
        BY <1>1, <2>2
      <3>2. f[n - 1] \in X /\ f[n] = F[n][f[n - 1]]
        BY <1>8, <3>1 DEF AreIterates
      <3> QED
        BY <1>7, <2>2, <3>1, <3>2 DEF Step
    <2> QED
      BY <2>1, <2>2
  <1>10. Fed(f)
    BY <1>8, <1>9 DEF AreIterates
  <1> HIDE DEF Fed
  <1>11. Fed(after)
    BY <1>3, <1>10
  <1>12. \A n \in 0 .. m : after[n] = Step(after, n)
    BY <1>11 DEF Fed
  <1>13. after[0] = s
    <2>1. 0 \in 0 .. m
      BY <1>1
    <2> QED
      BY <1>12, <2>1 DEF Step
  <1>14. ASSUME NEW n \in 1 .. m PROVE after[n] = FeedMouse(after[n - 1], bs[n])
    <2>1. n \in 0 .. m /\ n # 0
      BY <1>1
    <2> QED
      BY <1>12, <2>1 DEF Step
  <1>15. after[m] \in X
    <2>1. \A n \in 1 .. m : after[n - 1] \in X => after[n] \in X
      BY <1>5, <1>14
    <2> QED
      BY <1>1, <1>4, <1>13, <2>1, IteratesStay
  <1>16. ASSUME m = 1 PROVE after[m] = FeedMouse(s, bs[1])
    <2>1. 1 \in 1 .. m /\ 1 - 1 = 0
      BY <1>16
    <2> QED
      BY <1>13, <1>14, <1>16, <2>1
  <1> QED
    BY <1>2, <1>13, <1>15, <1>16 DEF X, m

-----------------------------------------------------------------------------
(* The inductive invariant: the types, and that the timer runs as long as  *)
(* the paste or the mouse parser holds anything back.                      *)
RouterInv ==
  /\ inPaste \in BOOLEAN /\ timed \in BOOLEAN /\ tokens \in 0 .. MaxTokens
  /\ Parsers \in States
  /\ paste \in Seq(Char) /\ IsStrictPrefix(paste, IF inPaste THEN Closer ELSE Opener)
  /\ content \in Seq(Char) /\ Len(content) <= PasteCap
  /\ todo \in Seq(Char \ {"tick"}) /\ fed \in Seq(Char)
  /\ HeldIsTimed

LEMMA ParsersAre ==
  ASSUME Parsers \in States
  PROVE  mouse \in MouseHolds /\ keys \in KeyHolds /\ out \in Seq(Event)
  BY DEF Parsers, States

LEMMA RouterInvTypes == RouterInv => RouterTypeOK
  <1> SUFFICES ASSUME RouterInv PROVE RouterTypeOK
    OBVIOUS
  <1>1. mouse \in MouseHolds /\ keys \in KeyHolds
    BY ParsersAre DEF RouterInv
  <1>2. \A n \in 1 .. Len(mouse) : MouseGoesOn(SubSeq(mouse, 1, n - 1), mouse[n])
    BY <1>1 DEF MouseHolds
  <1>3. \A n \in 1 .. Len(keys) : KeyGoesOn(SubSeq(keys, 1, n - 1), keys[n])
    BY <1>1 DEF KeyHolds
  <1> QED
    BY <1>2, <1>3 DEF RouterInv, RouterTypeOK

LEMMA NothingBegun == IsStrictPrefix(<<>>, Opener) /\ IsStrictPrefix(<<>>, Closer)
  <1>1. <<>> # Opener /\ <<>> # Closer
    BY BytesAreChars
  <1>2. IsPrefix(<<>>, Opener) /\ IsPrefix(<<>>, Closer)
    BY DEF IsPrefix, Opener, Closer
  <1> QED
    BY <1>1, <1>2 DEF IsStrictPrefix

LEMMA InitRouterInv == RouterInit => RouterInv
  <1> SUFFICES ASSUME RouterInit PROVE RouterInv
    OBVIOUS
  <1>1. <<>> \in Seq(Char) /\ <<>> \in Seq(Event) /\ <<>> \in Seq(Char \ {"tick"})
    BY EmptySeq
  <1>2. Parsers \in States
    BY <1>1, NothingHeld DEF RouterInit, Parsers, States
  <1>3. Len(<<>>) = 0 /\ 0 <= PasteCap /\ 0 \in 0 .. MaxTokens
    BY RouterAssumption DEF RouterAssumption
  <1> QED
    BY <1>1, <1>2, <1>3, NothingBegun DEF RouterInit, RouterInv, HeldIsTimed

-----------------------------------------------------------------------------
LEMMA CappedIs ==
  ASSUME NEW bs \in Seq(Char)
  PROVE  Capped(bs) \in Seq(Char) /\ Len(Capped(bs)) <= PasteCap
  <1> DEFINE n == Smaller(Len(bs), PasteCap)
  <1>1. Len(bs) \in Nat /\ \A i \in 1 .. Len(bs) : bs[i] \in Char
    BY LenProperties
  <1>2. n \in Nat /\ n <= Len(bs) /\ n <= PasteCap
    BY <1>1, RouterAssumption DEF Smaller, RouterAssumption
  <1> HIDE DEF n
  <1>3. \A i \in 1 .. n : bs[i] \in Char
    BY <1>1, <1>2
  <1>4. SubSeq(bs, 1, n) \in Seq(Char) /\ Len(SubSeq(bs, 1, n)) <= n
    BY <1>2, <1>3, SubSeqProperties
  <1>5. Capped(bs) = SubSeq(bs, 1, n)
    BY DEF Capped, n
  <1>6. Len(Capped(bs)) \in Nat
    BY <1>4, <1>5, LenProperties
  <1> QED
    BY <1>2, <1>4, <1>5, <1>6, RouterAssumption DEF RouterAssumption

LEMMA BecomeIs ==
  ASSUME NEW s \in States, Become(s)
  PROVE  Parsers' \in States
  BY DEF Become, Parsers, States

(* What a flush leaves: nothing in the mouse parser, and no Escape that is *)
(* alone in the key parser.                                                *)
LEMMA FlushedIs ==
  ASSUME Parsers \in States, paste \in Seq(Char)
  PROVE  Flushed \in States /\ Flushed.mouse = <<>> /\ Flushed.keys # <<Esc>>
  <1>1. AfterPaste \in States
    BY FeedMiceIs DEF AfterPaste
  <1> DEFINE a == [AfterPaste EXCEPT !.mouse = <<>>]
             b == AfterMouse(AfterPaste)
  <1>2. a \in States /\ a.mouse = <<>> /\ AfterPaste.mouse \in Seq(Char)
    BY <1>1, NothingHeld DEF States, MouseHolds
  <1>3. b = FeedKeys(a, AfterPaste.mouse)
    BY DEF AfterMouse
  <1> HIDE DEF a, b
  <1>4. b \in States /\ b.mouse = <<>>
    BY <1>2, <1>3, FeedKeysIs
  <1>5. Flushed = AfterKeys(b)
    BY DEF Flushed, b
  <1>6. CASE b.keys = <<Esc>>
    <2>1. <<"key", <<Esc>>>> \in Event
      BY BytesAreChars DEF Event
    <2>2. Append(b.out, <<"key", <<Esc>>>>) \in Seq(Event)
      BY <1>4, <2>1, AppendProperties DEF States
    <2>3. <<>> # <<Esc>>
      OBVIOUS
    <2> QED
      BY <1>4, <1>5, <1>6, <2>2, <2>3, NothingHeld DEF AfterKeys, States
  <1>7. CASE b.keys # <<Esc>>
    BY <1>4, <1>5, <1>7 DEF AfterKeys
  <1> QED
    BY <1>6, <1>7

LEMMA PrefixOfBytes ==
  ASSUME NEW s \in Seq(Event), NEW n \in Nat
  PROVE  SubSeq(s, 1, Smaller(Len(s), n)) \in Seq(Event)
  <1> DEFINE k == Smaller(Len(s), n)
  <1>1. Len(s) \in Nat /\ \A i \in 1 .. Len(s) : s[i] \in Event
    BY LenProperties
  <1>2. k \in Nat /\ k <= Len(s)
    BY <1>1 DEF Smaller
  <1> HIDE DEF k
  <1>3. \A i \in 1 .. k : s[i] \in Event
    BY <1>1, <1>2
  <1>4. SubSeq(s, 1, k) \in Seq(Event)
    BY <1>2, <1>3, SubSeqProperties
  <1> QED
    BY <1>4 DEF k

-----------------------------------------------------------------------------
LEMMA TypedKeeps == ASSUME RouterInv, Typed PROVE RouterInv'
  <1>1. todo' \in Seq(Char \ {"tick"})
    <2>1. todo' \in Seq(STRING \ {"tick"})
      BY RouterAssumption DEF Typed, RouterAssumption
    <2>2. todo' \in [1 .. Len(todo') -> STRING \ {"tick"}] /\ Len(todo') \in Nat
      BY <2>1, LenProperties
    <2>3. todo' \in [1 .. Len(todo') -> Char \ {"tick"}]
      BY <2>2 DEF Char
    <2> QED
      BY <2>2, <2>3
  <1>2. tokens' \in 0 .. MaxTokens
    BY RouterAssumption DEF Typed, RouterInv, RouterAssumption
  <1>3. Parsers' = Parsers
    BY DEF Typed, Parsers
  <1> QED
    BY <1>1, <1>2, <1>3 DEF RouterInv, Typed, HeldIsTimed

(* The paste parser takes a byte, outside a paste and inside.              *)
LEMMA OutsidePasteKeeps ==
  ASSUME RouterInv, ~inPaste, NEW b \in Char, OutsidePaste(b)
  PROVE  /\ inPaste' \in BOOLEAN /\ Parsers' \in States
         /\ paste' \in Seq(Char)
         /\ IsStrictPrefix(paste', IF inPaste' THEN Closer ELSE Opener)
         /\ content' \in Seq(Char) /\ Len(content') <= PasteCap
  <1> DEFINE held == Append(paste, b)
  <1>1. held \in Seq(Char) /\ Parsers \in States
    BY AppendProperties DEF RouterInv
  <1>2. <<>> \in Seq(Char) /\ Len(<<>>) <= PasteCap
    BY EmptySeq, RouterAssumption DEF RouterAssumption
  <1>3. CASE IsStrictPrefix(held, Opener) /\ paste' = held
               /\ UNCHANGED <<inPaste, content, mouse, keys, out>>
    <2>1. Parsers' = Parsers
      BY <1>3 DEF Parsers
    <2> HIDE DEF held
    <2> QED
      BY <1>1, <1>3, <2>1 DEF RouterInv
  <1>4. CASE paste' = <<>> /\ inPaste' = TRUE /\ content' = <<>>
               /\ UNCHANGED <<mouse, keys, out>>
    <2>1. Parsers' = Parsers
      BY <1>4 DEF Parsers
    <2> QED
      BY <1>1, <1>2, <1>4, <2>1, NothingBegun
  <1>5. CASE paste' = <<>> /\ Become(FeedMice(Parsers, held)) /\ UNCHANGED <<inPaste, content>>
    <2>1. FeedMice(Parsers, held) \in States
      BY <1>1, FeedMiceIs
    <2>2. Parsers' \in States
      BY <1>5, <2>1, BecomeIs
    <2> QED
      BY <1>2, <1>5, <2>2, NothingBegun DEF RouterInv
  <1> QED
    BY <1>3, <1>4, <1>5 DEF OutsidePaste

LEMMA InPasteKeeps ==
  ASSUME RouterInv, inPaste, NEW b \in Char, InPaste(b)
  PROVE  /\ inPaste' \in BOOLEAN /\ Parsers' \in States
         /\ paste' \in Seq(Char)
         /\ IsStrictPrefix(paste', IF inPaste' THEN Closer ELSE Opener)
         /\ content' \in Seq(Char) /\ Len(content') <= PasteCap
  <1> DEFINE held == Append(paste, b)
  <1>1. held \in Seq(Char) /\ Parsers \in States /\ content \in Seq(Char)
    BY AppendProperties DEF RouterInv
  <1>2. <<>> \in Seq(Char) /\ Len(<<>>) <= PasteCap
    BY EmptySeq, RouterAssumption DEF RouterAssumption
  <1>3. CASE IsStrictPrefix(held, Closer) /\ paste' = held
               /\ UNCHANGED <<inPaste, content, mouse, keys, out>>
    <2>1. Parsers' = Parsers
      BY <1>3 DEF Parsers
    <2> HIDE DEF held
    <2> QED
      BY <1>1, <1>3, <2>1 DEF RouterInv
  <1>4. CASE /\ paste' = <<>> /\ inPaste' = FALSE /\ content' = <<>>
             /\ out' = Append(out, <<"paste", content>>) /\ UNCHANGED <<mouse, keys>>
    <2>1. <<"paste", content>> \in Event
      BY <1>1 DEF Event
    <2>2. out' \in Seq(Event)
      BY <1>1, <1>4, <2>1, ParsersAre, AppendProperties
    <2>3. Parsers' \in States
      BY <1>1, <1>4, <2>2, ParsersAre DEF Parsers, States
    <2> QED
      BY <1>2, <1>4, <2>3, NothingBegun
  <1>5. CASE /\ paste' = <<>> /\ content' = Capped(content \o held)
             /\ UNCHANGED <<inPaste, mouse, keys, out>>
    <2>1. content \o held \in Seq(Char)
      BY <1>1, ConcatProperties
    <2>2. content' \in Seq(Char) /\ Len(content') <= PasteCap
      BY <1>5, <2>1, CappedIs
    <2>3. Parsers' = Parsers
      BY <1>5 DEF Parsers
    <2> QED
      BY <1>1, <1>2, <1>5, <2>2, <2>3, NothingBegun DEF RouterInv
  <1> QED
    BY <1>3, <1>4, <1>5 DEF InPaste

LEMMA ByteKeeps == ASSUME RouterInv, Byte PROVE RouterInv'
  <1>1. Head(todo) \in Char \ {"tick"} /\ todo' \in Seq(Char \ {"tick"})
    BY HeadTailProperties DEF Byte, RouterInv
  <1>2. fed' \in Seq(Char)
    BY <1>1, AppendProperties DEF Byte, RouterInv
  <1>3. /\ inPaste' \in BOOLEAN /\ Parsers' \in States
        /\ paste' \in Seq(Char)
        /\ IsStrictPrefix(paste', IF inPaste' THEN Closer ELSE Opener)
        /\ content' \in Seq(Char) /\ Len(content') <= PasteCap
    <2>1. CASE inPaste
      BY <1>1, <2>1, InPasteKeeps DEF Byte
    <2>2. CASE ~inPaste
      BY <1>1, <2>2, OutsidePasteKeeps DEF Byte
    <2> QED
      BY <2>1, <2>2
  <1>4. timed' \in BOOLEAN /\ HeldIsTimed'
    BY DEF Byte, HasPending, HeldIsTimed
  <1>5. tokens' \in 0 .. MaxTokens
    BY DEF Byte, RouterInv
  <1> QED
    BY <1>1, <1>2, <1>3, <1>4, <1>5 DEF RouterInv

LEMMA IdleFlushKeeps == ASSUME RouterInv, IdleFlush PROVE RouterInv'
  <1> DEFINE n == Len(out) + 1
             s == [Flushed EXCEPT !.out = SubSeq(@, 1, Smaller(Len(@), n))]
  <1>1. Flushed \in States /\ Flushed.mouse = <<>>
    BY FlushedIs DEF RouterInv
  <1>2. n \in Nat
    BY ParsersAre, LenProperties DEF RouterInv
  <1> HIDE DEF n
  <1>3. s \in States /\ s.mouse = <<>>
    <2>1. Flushed.out \in Seq(Event)
      BY <1>1 DEF States
    <2>2. SubSeq(Flushed.out, 1, Smaller(Len(Flushed.out), n)) \in Seq(Event)
      BY <1>2, <2>1, PrefixOfBytes
    <2> QED
      BY <1>1, <2>2 DEF States
  <1>4. Become(s)
    BY DEF IdleFlush, n
  <1> HIDE DEF s
  <1>5. Parsers' \in States /\ mouse' = <<>>
    BY <1>3, <1>4, BecomeIs DEF Become
  <1>6. fed' \in Seq(Char)
    BY BytesAreChars, AppendProperties DEF IdleFlush, RouterInv
  <1>7. /\ inPaste' = inPaste /\ paste' = IF inPaste THEN paste ELSE <<>>
        /\ timed' = FALSE /\ content' = content /\ todo' = todo /\ tokens' = tokens
    BY DEF IdleFlush
  <1>8. HeldIsTimed'
    BY <1>5, <1>7 DEF HeldIsTimed
  <1>9. paste' \in Seq(Char) /\ IsStrictPrefix(paste', IF inPaste' THEN Closer ELSE Opener)
    BY <1>7, NothingBegun, BytesAreChars DEF RouterInv
  <1> QED
    BY <1>5, <1>6, <1>7, <1>8, <1>9 DEF RouterInv

LEMMA NextRouterInv == ASSUME RouterInv, [RouterNext]_routerVars PROVE RouterInv'
  <1>1. CASE UNCHANGED routerVars
    BY <1>1 DEF routerVars, RouterInv, HeldIsTimed, Parsers
  <1> QED
    BY <1>1, ByteKeeps, TypedKeeps, IdleFlushKeeps DEF RouterNext

(* The types of InputRouter: what each parser holds is, byte for byte, the *)
(* start of something that it could complete, and a paste is no longer than*)
(* the cap (RouterTypeOK).                                                 *)
THEOREM RouterTypeCorrect == RouterSpec => []RouterTypeOK
  BY InitRouterInv, NextRouterInv, RouterInvTypes, PTL DEF RouterSpec

(* As long as the paste or the mouse parser holds bytes back the timer that*)
(* flushes them runs: no input is stuck (HeldIsTimed, of EveryByteArrives).*)
THEOREM HeldBytesAreTimed == RouterSpec => []HeldIsTimed
  <1>1. RouterInv => HeldIsTimed
    BY DEF RouterInv
  <1> QED
    BY <1>1, InitRouterInv, NextRouterInv, PTL DEF RouterSpec

-----------------------------------------------------------------------------
(* An Escape begins what the mouse parser and what the key parser looks for*)
LEMMA EscapeGoesOn ==
  /\ KeyGoesOn(<<>>, Esc) /\ MouseGoesOn(<<>>, Esc)
  /\ Append(<<>>, Esc) = <<Esc>>
  <1>1. Len(<<>>) = 0 /\ <<Esc, "[", "<">>[0 + 1] = Esc /\ Append(<<>>, Esc) = <<Esc>>
    OBVIOUS
  <1> QED
    BY <1>1 DEF KeyGoesOn, MouseGoesOn

LEMMA EscapeHeld == <<Esc>> \in KeyHolds /\ <<Esc>> \in MouseHolds
  <1>1. Append(<<>>, Esc) \in KeyHolds
    BY EscapeGoesOn, BytesAreChars, NothingHeld, KeyHoldGrows
  <1>2. Append(<<>>, Esc) \in MouseHolds
    BY EscapeGoesOn, BytesAreChars, NothingHeld, MouseHoldGrows
  <1> QED
    BY <1>1, <1>2, EscapeGoesOn

LEMMA OnlyOneHolds ==
  ASSUME NEW k \in Seq(Char), NEW m \in Seq(Char), NEW p \in Seq(Char),
         NEW e, k \o m \o p = <<e>>
  PROVE  \/ k = <<e>> /\ m = <<>> /\ p = <<>>
         \/ k = <<>> /\ m = <<e>> /\ p = <<>>
         \/ k = <<>> /\ m = <<>> /\ p = <<e>>
  <1>1. Len(k) \in Nat /\ Len(m) \in Nat /\ Len(p) \in Nat
    BY LenProperties
  <1>2. k \o m \in Seq(Char) /\ Len(k \o m) = Len(k) + Len(m)
    BY ConcatProperties
  <1>3. Len(k \o m \o p) = Len(k) + Len(m) + Len(p)
    BY <1>2, ConcatProperties
  <1>4. Len(k) + Len(m) + Len(p) = 1
    BY <1>3
  <1>5. /\ Len(k) = 0 => k = <<>>
        /\ Len(m) = 0 => m = <<>>
        /\ Len(p) = 0 => p = <<>>
    BY EmptySeq
  <1>6. CASE Len(k) = 1
    <2>1. Len(m) = 0 /\ Len(p) = 0
      BY <1>1, <1>4, <1>6
    <2>2. k \o m = k /\ k \o p = k
      BY <1>5, <2>1, ConcatEmptySeq
    <2> QED
      BY <1>5, <2>1, <2>2
  <1>7. CASE Len(m) = 1
    <2>1. Len(k) = 0 /\ Len(p) = 0
      BY <1>1, <1>4, <1>7
    <2>2. k \o m = m /\ m \o p = m
      BY <1>5, <2>1, ConcatEmptySeq
    <2> QED
      BY <1>5, <2>1, <2>2
  <1>8. CASE Len(p) = 1
    <2>1. Len(k) = 0 /\ Len(m) = 0
      BY <1>1, <1>4, <1>8
    <2>2. k \o m = m /\ m \o p = p
      BY <1>5, <2>1, ConcatEmptySeq
    <2> QED
      BY <1>5, <2>1, <2>2
  <1>9. Len(k) = 1 \/ Len(m) = 1 \/ Len(p) = 1
    <2>1. \A a, b, c \in Nat : a + b + c = 1 => a = 1 \/ b = 1 \/ c = 1
      OBVIOUS
    <2> QED
      BY <1>1, <1>4, <2>1, Zenon
  <1> QED
    BY <1>6, <1>7, <1>8, <1>9

-----------------------------------------------------------------------------
(* An Escape held by one of the parsers, and nothing else held, becomes the*)
(* Escape key, whichever of the three it is that holds it.                 *)
LEMMA EscapeFlushed ==
  ASSUME RouterInv, Held = <<Esc>>
  PROVE  Flushed.out = Append(out, <<"key", <<Esc>>>>)
  <1> DEFINE p == IF inPaste THEN <<>> ELSE paste
  <1>1. /\ mouse \in MouseHolds /\ keys \in KeyHolds /\ out \in Seq(Event)
        /\ Parsers \in States
    BY ParsersAre DEF RouterInv
  <1>2. mouse \in Seq(Char) /\ keys \in Seq(Char) /\ p \in Seq(Char)
    BY <1>1, BytesAreChars DEF MouseHolds, KeyHolds, RouterInv
  <1>3. keys \o mouse \o p = <<Esc>>
    BY DEF Held
  <1> HIDE DEF p
  <1>4. \/ keys = <<Esc>> /\ mouse = <<>> /\ p = <<>>
        \/ keys = <<>> /\ mouse = <<Esc>> /\ p = <<>>
        \/ keys = <<>> /\ mouse = <<>> /\ p = <<Esc>>
    BY <1>2, <1>3, OnlyOneHolds
  <1>5. AfterPaste = FeedMice(Parsers, p)
    <2>1. CASE inPaste
      <3>1. p = <<>> /\ Len(p) = 0
        BY <2>1 DEF p
      <3>2. FeedMice(Parsers, p) = Parsers
        BY <1>1, <1>2, <3>1, FeedMiceIs
      <3> QED
        BY <2>1, <3>2 DEF AfterPaste
    <2>2. CASE ~inPaste
      BY <2>2 DEF AfterPaste, p
    <2> QED
      BY <2>1, <2>2
  <1> DEFINE E == [mouse |-> <<>>, keys |-> <<Esc>>, out |-> out]
             M == [mouse |-> <<Esc>>, keys |-> <<>>, out |-> out]
             Z == [mouse |-> <<>>, keys |-> <<>>, out |-> out]
  <1>6. Z \in States /\ M \in States /\ E \in States
    <2>1. <<Esc>> \in MouseHolds /\ <<Esc>> \in KeyHolds
      BY EscapeHeld
    <2> QED
      BY <1>1, <2>1, NothingHeld DEF States
  <1>7. AfterPaste \in {E, M}
    <2>1. CASE p = <<>>
      <3>1. Len(p) = 0
        BY <2>1
      <3>2. AfterPaste = Parsers
        BY <1>1, <1>2, <1>5, <3>1, FeedMiceIs
      <3>3. <<>> # <<Esc>>
        OBVIOUS
      <3> QED
        BY <1>4, <2>1, <3>2, <3>3 DEF Parsers
    <2>2. CASE p = <<Esc>>
      <3>1. keys = <<>> /\ mouse = <<>> /\ <<>> # <<Esc>>
        BY <1>4, <2>2
      <3>2. Len(p) = 1 /\ p[1] = Esc
        BY <2>2
      <3>3. AfterPaste = FeedMouse(Z, Esc)
        BY <1>1, <1>2, <1>5, <3>1, <3>2, FeedMiceIs DEF Parsers
      <3>4. FeedMouse(Z, Esc) = M
        BY EscapeGoesOn DEF FeedMouse
      <3> QED
        BY <3>3, <3>4
    <2> QED
      BY <1>4, <2>1, <2>2
  <1>8. AfterMouse(AfterPaste) = E
    <2>1. AfterMouse(E) = E
      <3>1. AfterMouse(E) = FeedKeys(E, <<>>)
        BY DEF AfterMouse
      <3>2. Len(<<>>) = 0 /\ <<>> \in Seq(Char)
        BY EmptySeq
      <3> HIDE DEF E
      <3> QED
        BY <1>6, <3>1, <3>2, FeedKeysIs
    <2>2. AfterMouse(M) = E
      <3>1. AfterMouse(M) = FeedKeys(Z, <<Esc>>)
        BY DEF AfterMouse
      <3>2. Len(<<Esc>>) = 1 /\ <<Esc>>[1] = Esc /\ <<Esc>> \in Seq(Char)
        BY BytesAreChars
      <3>3. FeedKey(Z, Esc) = E
        BY EscapeGoesOn DEF FeedKey
      <3> HIDE DEF E, Z
      <3>4. FeedKeys(Z, <<Esc>>) = FeedKey(Z, Esc)
        BY <1>6, <3>2, FeedKeysIs
      <3> QED
        BY <3>1, <3>3, <3>4
    <2> QED
      BY <1>7, <2>1, <2>2
  <1> QED
    BY <1>8 DEF Flushed, AfterKeys

LEMMA FlushStep ==
  ASSUME RouterInv, IdleFlush
  PROVE  /\ mouse' = <<>> /\ keys' # <<Esc>>
         /\ Held = <<Esc>> => out' = Append(out, <<"key", <<Esc>>>>)
  <1> DEFINE n == Len(out) + 1
             s == [Flushed EXCEPT !.out = SubSeq(@, 1, Smaller(Len(@), n))]
  <1>1. Flushed \in States /\ Flushed.mouse = <<>> /\ Flushed.keys # <<Esc>>
    BY FlushedIs DEF RouterInv
  <1>2. /\ mouse' = Flushed.mouse /\ keys' = Flushed.keys
        /\ out' = SubSeq(Flushed.out, 1, Smaller(Len(Flushed.out), n))
    <2>1. mouse' = s.mouse /\ keys' = s.keys /\ out' = s.out
      BY DEF IdleFlush, Become
    <2>2. Flushed \in [mouse : MouseHolds, keys : KeyHolds, out : Seq(Event)]
      BY <1>1 DEF States
    <2> QED
      BY <2>1, <2>2
  <1>3. ASSUME Held = <<Esc>> PROVE out' = Append(out, <<"key", <<Esc>>>>)
    <2>1. Flushed.out = Append(out, <<"key", <<Esc>>>>)
      BY <1>3, EscapeFlushed
    <2>2. out \in Seq(Event) /\ <<"key", <<Esc>>>> \in Event
      BY ParsersAre, BytesAreChars DEF RouterInv, Event
    <2>3. Flushed.out \in Seq(Event) /\ Len(Flushed.out) = n /\ n \in Nat
      BY <2>1, <2>2, AppendProperties, LenProperties
    <2>4. Smaller(Len(Flushed.out), n) = Len(Flushed.out)
      BY <2>3 DEF Smaller
    <2>5. SubSeq(Flushed.out, 1, Len(Flushed.out)) = Flushed.out
      BY <2>3, SubSeqFull
    <2> QED
      BY <1>2, <2>1, <2>4, <2>5
  <1> QED
    BY <1>1, <1>2, <1>3

(* "tick" is fed by the timer only.                                        *)
LEMMA TickIsFlush ==
  ASSUME RouterInv, RouterNext, fed' = Append(fed, "tick")
  PROVE  IdleFlush
  <1>1. ASSUME Byte PROVE FALSE
    <2>1. Head(todo) \in Char /\ Head(todo) # "tick" /\ "tick" \in Char /\ fed \in Seq(Char)
      BY <1>1, HeadTailProperties, BytesAreChars DEF Byte, RouterInv
    <2>2. Append(fed, Head(todo)) = Append(fed, "tick")
      BY <1>1 DEF Byte
    <2> QED
      BY <2>1, <2>2, AppendInjective
  <1>2. ASSUME Typed PROVE FALSE
    <2>1. fed' = fed
      BY <1>2 DEF Typed
    <2>2. fed \in Seq(Char) /\ "tick" \in Char
      BY BytesAreChars DEF RouterInv
    <2>3. Len(Append(fed, "tick")) = Len(fed) + 1 /\ Len(fed) \in Nat
      BY <2>2, AppendProperties, LenProperties
    <2> QED
      BY <2>1, <2>3
  <1> QED
    BY <1>1, <1>2 DEF RouterNext

(* A flush leaves nothing in the mouse parser and no Escape alone in the   *)
(* key parser, and an Escape that was all that was held is delivered as the*)
(* key at once, from whichever of the three parsers it is (FlushDelivers). *)
THEOREM EscapeIsDelivered == RouterSpec => FlushDelivers
  <1> DEFINE A == timed /\ fed' = Append(fed, "tick") =>
                    /\ mouse' = <<>> /\ keys' # <<Esc>>
                    /\ Held = <<Esc>> => out' = Append(out, <<"key", <<Esc>>>>)
  <1>1. RouterInv /\ [RouterNext]_routerVars => [A]_routerVars
    <2>1. ASSUME RouterInv, RouterNext PROVE A
      BY <2>1, TickIsFlush, FlushStep
    <2> HIDE DEF A
    <2> QED
      BY <2>1
  <1> QED
    BY <1>1, InitRouterInv, NextRouterInv, PTL DEF RouterSpec, FlushDelivers

-----------------------------------------------------------------------------
(* A behaviour of the three parts is one of each part: what is proved of   *)
(* the sizes and flags, of the router and of the layout alone holds of     *)
(* them together.                                                          *)
THEOREM PartsKeepTheirSpecs == IOSpec => ViewSpec /\ RouterSpec /\ LayoutSpec
  <1>1. IOInit => ViewInit /\ RouterInit /\ LayoutInit
    BY DEF IOInit
  <1>2. [IONext]_ioVars => [ViewNext]_viewVars
    BY DEF IONext, ioVars
  <1>3. [IONext]_ioVars => [RouterNext]_routerVars
    BY DEF IONext, ioVars
  <1>4. [IONext]_ioVars => [LayoutNext]_layoutVars
    BY DEF IONext, ioVars
  <1> QED
    BY <1>1, <1>2, <1>3, <1>4, PTL DEF IOSpec, ViewSpec, RouterSpec, LayoutSpec

(* Whatever a client sends and however the layout changes: the flags and   *)
(* sizes of its session, the bytes its router holds back and the tree of   *)
(* its window are of their types.                                          *)
THEOREM ClientIOTypeCorrect == IOSpec => []ClientIOTypeOK
  <1>1. ViewTypeOK /\ RouterTypeOK /\ LayoutTypeOK => ClientIOTypeOK
    BY DEF ClientIOTypeOK
  <1> QED
    BY <1>1, PartsKeepTheirSpecs, ViewTypeCorrect, RouterTypeCorrect, TreeStaysWhole, PTL
===============================================================================
