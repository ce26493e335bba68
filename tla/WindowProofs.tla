---------------------------- MODULE WindowProofs -----------------------------
(***************************************************************************)
(* Lemmas about the operators of Window: what they do to the leaves of a   *)
(* window as a set, and that they keep a window sound.                     *)
(***************************************************************************)
EXTENDS Window, Induction, SequenceTheorems, TLAPS

LEMMA PlaceIs ==
  ASSUME NEW S, NEW s \in Seq(S), NEW x \in ToSet(s)
  PROVE  PlaceOf(s, x) \in 1 .. Len(s) /\ s[PlaceOf(s, x)] = x
  BY DEF PlaceOf, ToSet

LEMMA InToSet ==
  ASSUME NEW S, NEW s \in Seq(S), NEW x
  PROVE  x \in ToSet(s) <=> \E k \in 1 .. Len(s) : s[k] = x
  BY LenProperties DEF ToSet

(* Taking an element out of a sequence that holds it once.                 *)
LEMMA WithoutIs ==
  ASSUME NEW S, NEW s \in Seq(S), IsInjective(s), NEW x \in ToSet(s)
  PROVE  /\ Without(s, x) \in Seq(S)
         /\ IsInjective(Without(s, x))
         /\ ToSet(Without(s, x)) = ToSet(s) \ {x}
         /\ Len(Without(s, x)) = Len(s) - 1
         /\ \A k \in 1 .. Len(s) - 1 :
              Without(s, x)[k] = IF k < PlaceOf(s, x) THEN s[k] ELSE s[k + 1]
  <1> DEFINE i == PlaceOf(s, x)
             a == SubSeq(s, 1, i - 1)
             b == SubSeq(s, i + 1, Len(s))
             t == Without(s, x)
  <1>1. i \in 1 .. Len(s) /\ s[i] = x
    BY PlaceIs
  <1>2. Len(s) \in Nat /\ DOMAIN s = 1 .. Len(s) /\ \A k \in 1 .. Len(s) : s[k] \in S
    BY LenProperties
  <1>3. t = a \o b
    BY DEF Without, RemoveAt
  <1> HIDE DEF i
  <1>4. a \in Seq(S) /\ Len(a) = i - 1 /\ \A k \in 1 .. i - 1 : a[k] = s[k]
    BY <1>1, <1>2, SubSeqProperties
  <1>5. b \in Seq(S) /\ Len(b) = Len(s) - i /\ \A k \in 1 .. Len(s) - i : b[k] = s[i + k]
    <2>1. \A k \in (i + 1) .. Len(s) : s[k] \in S
      BY <1>1, <1>2
    <2>2. /\ b \in Seq(S)
          /\ Len(b) = IF i + 1 <= Len(s) THEN Len(s) - (i + 1) + 1 ELSE 0
          /\ \A k \in 1 .. Len(s) - (i + 1) + 1 : b[k] = s[(i + 1) + k - 1]
      BY <1>1, <1>2, <2>1, SubSeqProperties
    <2> HIDE DEF b
    <2>3. Len(b) = Len(s) - i
      <3>1. i \in Int /\ Len(s) \in Int /\ i <= Len(s)
        BY <1>1, <1>2
      <3>2. Len(b) = IF i + 1 <= Len(s) THEN Len(s) - (i + 1) + 1 ELSE 0
        BY <2>2
      <3>3. (IF i + 1 <= Len(s) THEN Len(s) - (i + 1) + 1 ELSE 0) = Len(s) - i
        BY <3>1
      <3> QED
        BY <3>2, <3>3
    <2>4. ASSUME NEW k \in 1 .. Len(s) - i PROVE b[k] = s[i + k]
      <3>1. k \in 1 .. Len(s) - (i + 1) + 1 /\ (i + 1) + k - 1 = i + k
        BY <1>1, <1>2
      <3> QED
        BY <2>2, <3>1
    <2> QED
      BY <2>2, <2>3, <2>4
  <1> HIDE DEF a, b, t
  <1>6. /\ t \in Seq(S) /\ Len(t) = Len(s) - 1
        /\ \A k \in 1 .. Len(s) - 1 : t[k] = IF k < i THEN s[k] ELSE s[k + 1]
    <2>1. /\ t \in Seq(S) /\ Len(t) = Len(a) + Len(b)
          /\ \A k \in 1 .. Len(a) + Len(b) :
               t[k] = IF k <= Len(a) THEN a[k] ELSE b[k - Len(a)]
      BY <1>3, <1>4, <1>5, ConcatProperties
    <2>2. Len(t) = Len(s) - 1 /\ Len(a) + Len(b) = Len(s) - 1
      BY <1>1, <1>2, <1>4, <1>5, <2>1
    <2>3. ASSUME NEW k \in 1 .. Len(s) - 1 PROVE t[k] = IF k < i THEN s[k] ELSE s[k + 1]
      <3>1. CASE k < i
        BY <3>1, <1>1, <1>4, <2>1, <2>2
      <3>2. CASE k >= i
        <4>1. t[k] = b[k - (i - 1)]
          <5>1. k \in 1 .. Len(a) + Len(b) /\ ~(k <= Len(a))
            BY <3>2, <1>1, <1>4, <2>2
          <5>2. t[k] = b[k - Len(a)]
            BY <2>1, <5>1
          <5> QED
            BY <5>2, <1>4
        <4>2. k - (i - 1) \in 1 .. Len(s) - i /\ i + (k - (i - 1)) = k + 1
          BY <3>2, <1>1, <1>2
        <4> QED
          BY <4>1, <4>2, <3>2, <1>1, <1>5
      <3> QED
        BY <3>1, <3>2, <1>1
    <2> QED
      BY <2>1, <2>2, <2>3
  <1>7. DOMAIN t = 1 .. Len(s) - 1
    BY <1>6, LenProperties
  <1>8. IsInjective(t)
    <2>1. ASSUME NEW k \in 1 .. Len(s) - 1
          PROVE  \E j \in 1 .. Len(s) : t[k] = s[j] /\ j = IF k < i THEN k ELSE k + 1
      BY <1>1, <1>2, <1>6
    <2>2. ASSUME NEW k \in 1 .. Len(s) - 1, NEW l \in 1 .. Len(s) - 1, t[k] = t[l] PROVE k = l
      <3>1. (IF k < i THEN k ELSE k + 1) = (IF l < i THEN l ELSE l + 1)
        BY <1>2, <2>1, <2>2 DEF IsInjective
      <3> QED
        BY <1>1, <1>2, <3>1
    <2> QED
      BY <1>7, <2>2 DEF IsInjective
  <1>9. ToSet(t) = ToSet(s) \ {x}
    <2>1. ASSUME NEW k \in 1 .. Len(s) - 1 PROVE t[k] \in ToSet(s) \ {x}
      <3>1. PICK j \in 1 .. Len(s) : j # i /\ t[k] = s[j]
        BY <1>1, <1>2, <1>6
      <3> QED
        BY <3>1, <1>1, <1>2 DEF ToSet, IsInjective
    <2>2. ASSUME NEW k \in 1 .. Len(s), s[k] # x PROVE \E j \in 1 .. Len(s) - 1 : t[j] = s[k]
      <3>1. CASE k < i
        BY <3>1, <1>1, <1>2, <1>6
      <3>2. CASE k > i
        <4>1. k - 1 \in 1 .. Len(s) - 1 /\ t[k - 1] = s[k]
          BY <3>2, <1>1, <1>2, <1>6
        <4> QED
          BY <4>1
      <3> QED
        BY <2>2, <3>1, <3>2, <1>1, <1>2
    <2>3. ASSUME NEW y PROVE y \in ToSet(t) <=> y \in ToSet(s) \ {x}
      <3>1. y \in ToSet(t) <=> \E k \in 1 .. Len(s) - 1 : t[k] = y
        BY <1>6, InToSet
      <3>2. y \in ToSet(s) <=> \E k \in 1 .. Len(s) : s[k] = y
        BY InToSet
      <3> QED
        BY <2>1, <2>2, <3>1, <3>2
    <2> QED
      BY <2>3
  <1> QED
    BY <1>6, <1>8, <1>9 DEF t, i

(* Putting a new element into a sequence.                                  *)
LEMMA InsertAtIs ==
  ASSUME NEW S, NEW s \in Seq(S), IsInjective(s), NEW y \in S \ ToSet(s),
         NEW i \in 1 .. Len(s) + 1
  PROVE  /\ InsertAt(s, i, y) \in Seq(S)
         /\ IsInjective(InsertAt(s, i, y))
         /\ ToSet(InsertAt(s, i, y)) = ToSet(s) \cup {y}
  <1> DEFINE a == SubSeq(s, 1, i - 1)
             b == SubSeq(s, i, Len(s))
             c == a \o <<y>>
             t == InsertAt(s, i, y)
  <1>1. Len(s) \in Nat /\ DOMAIN s = 1 .. Len(s) /\ \A k \in 1 .. Len(s) : s[k] \in S
    BY LenProperties
  <1>2. t = c \o b
    BY DEF InsertAt
  <1>3. a \in Seq(S) /\ Len(a) = i - 1 /\ \A k \in 1 .. i - 1 : a[k] = s[k]
    BY <1>1, SubSeqProperties
  <1>4. b \in Seq(S) /\ Len(b) = Len(s) - i + 1 /\ \A k \in 1 .. Len(s) - i + 1 : b[k] = s[i + k - 1]
    BY <1>1, SubSeqProperties
  <1>5. <<y>> \in Seq(S) /\ Len(<<y>>) = 1 /\ <<y>>[1] = y
    OBVIOUS
  <1> HIDE DEF a, b, t
  <1>6. /\ c \in Seq(S) /\ Len(c) = i
        /\ \A k \in 1 .. i : c[k] = IF k < i THEN s[k] ELSE y
    <2>1. /\ c \in Seq(S) /\ Len(c) = Len(a) + 1
          /\ \A k \in 1 .. Len(a) + 1 : c[k] = IF k <= Len(a) THEN a[k] ELSE <<y>>[k - Len(a)]
      BY <1>3, <1>5, ConcatProperties
    <2> HIDE DEF c
    <2> QED
      BY <2>1, <1>1, <1>3, <1>5
  <1> HIDE DEF c
  <1>7. /\ t \in Seq(S) /\ Len(t) = Len(s) + 1
        /\ \A k \in 1 .. Len(s) + 1 :
             t[k] = IF k < i THEN s[k] ELSE IF k = i THEN y ELSE s[k - 1]
    <2>1. /\ t \in Seq(S) /\ Len(t) = Len(c) + Len(b)
          /\ \A k \in 1 .. Len(c) + Len(b) : t[k] = IF k <= Len(c) THEN c[k] ELSE b[k - Len(c)]
      BY <1>2, <1>4, <1>6, ConcatProperties
    <2>2. ASSUME NEW k \in 1 .. Len(s) + 1
          PROVE  t[k] = IF k < i THEN s[k] ELSE IF k = i THEN y ELSE s[k - 1]
      BY <2>1, <1>1, <1>4, <1>6
    <2> QED
      BY <2>1, <2>2, <1>1, <1>4, <1>6
  <1>8. DOMAIN t = 1 .. Len(s) + 1
    BY <1>7, LenProperties
  <1>9. IsInjective(t)
    <2>1. \A k \in 1 .. Len(s) : s[k] # y
      BY <1>1 DEF ToSet
    <2>2. \A j, k \in 1 .. Len(s) : s[j] = s[k] => j = k
      BY <1>1 DEF IsInjective
    <2>3. ASSUME NEW j \in 1 .. Len(s) + 1, NEW k \in 1 .. Len(s) + 1, j < k PROVE t[j] # t[k]
      <3>1. CASE k < i
        BY <2>2, <2>3, <3>1, <1>1, <1>7
      <3>2. CASE k = i
        BY <2>1, <2>3, <3>2, <1>1, <1>7
      <3>3. CASE k > i
        <4>1. t[k] = s[k - 1] /\ k - 1 \in 1 .. Len(s)
          BY <3>3, <1>1, <1>7
        <4>2. CASE j < i
          BY <2>2, <4>1, <4>2, <3>3, <1>1, <1>7
        <4>3. CASE j = i
          BY <2>1, <4>1, <4>3, <1>1, <1>7
        <4>4. CASE j > i
          <5>1. t[j] = s[j - 1] /\ j - 1 \in 1 .. Len(s) /\ j - 1 # k - 1
            BY <2>3, <4>4, <1>1, <1>7
          <5> QED
            BY <2>2, <4>1, <5>1
        <4> QED
          BY <4>2, <4>3, <4>4
      <3> QED
        BY <3>1, <3>2, <3>3
    <2> QED
      <3>1. \A j, k \in 1 .. Len(s) + 1 : j < k \/ j = k \/ k < j
        BY <1>1
      <3> QED
        BY <2>3, <3>1, <1>8 DEF IsInjective
  <1>10. ToSet(t) = ToSet(s) \cup {y}
    <2>1. ASSUME NEW k \in 1 .. Len(s) + 1
          PROVE  t[k] = y \/ \E j \in 1 .. Len(s) : t[k] = s[j]
      BY <1>1, <1>7
    <2>2. ASSUME NEW k \in 1 .. Len(s) PROVE \E j \in 1 .. Len(s) + 1 : t[j] = s[k]
      <3>1. CASE k < i
        BY <3>1, <1>1, <1>7
      <3>2. CASE k >= i
        <4>1. k + 1 \in 1 .. Len(s) + 1 /\ t[k + 1] = s[k]
          BY <3>2, <1>1, <1>7
        <4> QED
          BY <4>1
      <3> QED
        BY <3>1, <3>2, <1>1
    <2>3. t[i] = y
      BY <1>1, <1>7
    <2>4. i \in 1 .. Len(s) + 1
      OBVIOUS
    <2>5. ASSUME NEW z \in ToSet(t) PROVE z \in ToSet(s) \cup {y}
      BY <2>1, <1>1, <1>8 DEF ToSet
    <2>6. ASSUME NEW z \in ToSet(s) \cup {y} PROVE z \in ToSet(t)
      BY <2>2, <2>3, <2>4, <1>1, <1>8 DEF ToSet
    <2> QED
      BY <2>5, <2>6
  <1> QED
    BY <1>7, <1>9, <1>10 DEF t

(* Adding a new element at the end.                                        *)
LEMMA AppendIs ==
  ASSUME NEW S, NEW s \in Seq(S), IsInjective(s), NEW y \in S \ ToSet(s)
  PROVE  /\ Append(s, y) \in Seq(S)
         /\ IsInjective(Append(s, y))
         /\ ToSet(Append(s, y)) = ToSet(s) \cup {y}
  <1>1. Len(s) \in Nat /\ DOMAIN s = 1 .. Len(s)
    BY LenProperties
  <1>2. /\ Append(s, y) \in Seq(S) /\ DOMAIN Append(s, y) = 1 .. Len(s) + 1
        /\ \A i \in 1 .. Len(s) : Append(s, y)[i] = s[i]
        /\ Append(s, y)[Len(s) + 1] = y
    BY <1>1, AppendProperties, LenProperties
  <1>3. 1 .. Len(s) + 1 = (1 .. Len(s)) \cup {Len(s) + 1}
    BY <1>1
  <1>4. IsInjective(Append(s, y))
    BY <1>1, <1>2, <1>3 DEF IsInjective, ToSet
  <1>5. ToSet(Append(s, y)) = ToSet(s) \cup {y}
    BY <1>1, <1>2, <1>3 DEF ToSet
  <1> QED
    BY <1>2, <1>4, <1>5

-----------------------------------------------------------------------------
(* What is retained: as many elements at the most, and only those of S.    *)
LEMMA RetainedIs ==
  ASSUME NEW X, NEW s \in Seq(X), NEW S
  PROVE  Retained(s, S) \in Seq(S) /\ Len(Retained(s, S)) <= Len(s)
  <1> DEFINE m == Len(s)
             Step(f, n) == IF n = 0 THEN <<>>
                           ELSE IF s[n] \in S THEN Append(f[n - 1], s[n]) ELSE f[n - 1]
             Kept(f, k) == f = [n \in 0 .. k |-> Step(f, n)]
             kept[n \in 0 .. m] == Step(kept, n)
  <1>1. m \in Nat
    BY LenProperties
  <1> HIDE DEF m
  <1>2. \E f : Kept(f, m)
    <2> DEFINE F == [n \in 1 .. m |->
                      [y \in Seq(S) |-> IF s[n] \in S THEN Append(y, s[n]) ELSE y]]
    <2>1. \A y \in Seq(S), n \in 1 .. m :
            /\ F[n][y] \in Seq(S)
            /\ F[n][y] = IF s[n] \in S THEN Append(y, s[n]) ELSE y
      BY AppendProperties
    <2>2. <<>> \in Seq(S)
      BY EmptySeq
    <2>6. F \in [1 .. m -> [Seq(S) -> Seq(S)]]
      BY <2>1
    <2> HIDE DEF F, Step, Kept, kept
    <2>3. PICK f : AreIterates(f, Seq(S), m, <<>>, F)
      BY <1>1, <2>2, <2>6, IteratesExist
    <2>4. ASSUME NEW n \in 0 .. m PROVE f[n] = Step(f, n)
      <3>1. CASE n = 0
        BY <2>3, <3>1 DEF Step, AreIterates
      <3>2. CASE n # 0
        <4>1. n \in 1 .. m /\ n - 1 \in 0 .. m
          BY <1>1, <3>2
        <4>2. f[n - 1] \in Seq(S) /\ f[n] = F[n][f[n - 1]]
          BY <2>3, <4>1 DEF AreIterates
        <4> QED
          BY <2>1, <3>2, <4>1, <4>2 DEF Step
      <3> QED
        BY <3>1, <3>2
    <2> QED
      BY <2>3, <2>4 DEF Kept, AreIterates
  <1>3. Kept(kept, m)
    <2>1. kept = CHOOSE f : Kept(f, m)
      BY DEF kept
    <2> HIDE DEF kept, Kept
    <2> QED
      BY <1>2, <2>1
  <1>4. Retained(s, S) = kept[m]
    BY DEF Retained, m
  <1> HIDE DEF kept
  <1>5. \A n \in 0 .. m : kept[n] = Step(kept, n)
    BY <1>3
  <1> DEFINE Good(n) == kept[n] \in Seq(S) /\ Len(kept[n]) <= n
             G == {n \in Nat : n <= m => Good(n)}
  <1>6. 0 \in G
    <2>1. 0 \in 0 .. m
      BY <1>1
    <2>2. kept[0] = Step(kept, 0)
      BY <1>5, <2>1
    <2>3. kept[0] = <<>>
      BY <2>2
    <2>4. <<>> \in Seq(S) /\ Len(<<>>) = 0
      BY EmptySeq
    <2> HIDE DEF Step
    <2>5. Good(0)
      BY <2>3, <2>4
    <2> HIDE DEF Good
    <2> QED
      BY <2>5
  <1>7. ASSUME NEW n \in Nat, n \in G PROVE n + 1 \in G
    <2>1. SUFFICES ASSUME n + 1 <= m PROVE Good(n + 1)
      OBVIOUS
    <2>2. n + 1 \in 0 .. m /\ n <= m /\ n + 1 # 0 /\ (n + 1) - 1 = n
      BY <1>1, <2>1
    <2>3. kept[n] \in Seq(S) /\ Len(kept[n]) <= n /\ Len(kept[n]) \in Nat
      BY <1>7, <2>2, LenProperties
    <2>4. kept[n + 1] = IF s[n + 1] \in S THEN Append(kept[n], s[n + 1]) ELSE kept[n]
      BY <1>5, <2>2
    <2>5. CASE s[n + 1] \in S
      <3>1. kept[n + 1] \in Seq(S) /\ Len(kept[n + 1]) = Len(kept[n]) + 1
        BY <2>3, <2>4, <2>5, AppendProperties
      <3> QED
        BY <2>3, <3>1
    <2>6. CASE s[n + 1] \notin S
      BY <2>3, <2>4, <2>6
    <2> QED
      BY <2>5, <2>6
  <1> HIDE DEF G
  <1>8. m \in G
    BY <1>1, <1>6, <1>7, NumberInduction
  <1> QED
    BY <1>1, <1>4, <1>8 DEF G, m

-----------------------------------------------------------------------------
(* The focus history names panes of the window, and is not too long.       *)
HistorySound(w) ==
  w.history \in Seq(ToSet(w.leaves)) /\ Len(w.history) <= HistoryCap

(* An open window as it must be: of its type, with a pane at one leaf only,*)
(* and the active pane, the zoomed one and the history among them.         *)
Sound(w) ==
  /\ w \in [leaves : Seq(Panes), active : Panes, history : {w.history},
            zoomed : Panes \cup {None}, silence : BOOLEAN]
  /\ IsInjective(w.leaves)
  /\ w.active \in ToSet(w.leaves)
  /\ w.zoomed \in ToSet(w.leaves) \cup {None}
  /\ HistorySound(w)

LEMMA LeavesArePanes == ASSUME NEW w, Sound(w) PROVE ToSet(w.leaves) \subseteq Panes
  BY LenProperties DEF Sound, ToSet

(* What a sequence holds, against the set its elements are from.           *)
LEMMA SeqWider ==
  ASSUME NEW S, NEW T, S \subseteq T, NEW s \in Seq(S)
  PROVE  s \in Seq(T) /\ ToSet(s) \subseteq S
  BY SeqMonotonic, LenProperties DEF ToSet

(* A sound window is of its type, and its history is about its panes.      *)
LEMMA SoundIsWindow ==
  ASSUME NEW w, Sound(w)
  PROVE  /\ w \in Window /\ Len(w.history) <= HistoryCap
         /\ ToSet(w.history) \subseteq ToSet(w.leaves)
  <1>1. w.history \in Seq(Panes) /\ ToSet(w.history) \subseteq ToSet(w.leaves)
    BY LeavesArePanes, SeqWider DEF Sound, HistorySound
  <1> QED
    BY <1>1 DEF Sound, HistorySound, Window

(* The history and the leaves are what HistorySound is about.              *)
LEMMA SameHistory ==
  ASSUME NEW v, NEW w, HistorySound(v), w.history = v.history,
         ToSet(v.leaves) \subseteq ToSet(w.leaves)
  PROVE  HistorySound(w)
  BY SeqWider DEF HistorySound

(* record_focus keeps the history sound: one more and the oldest gone.     *)
LEMMA HistoryGrows ==
  ASSUME NEW w, Sound(w), NEW p
  PROVE  /\ Focused(w, p).history \in Seq(ToSet(w.leaves))
         /\ Len(Focused(w, p).history) <= HistoryCap
  <1> DEFINE longer == Append(w.history, w.active)
             S == ToSet(w.leaves)
             h == IF Len(longer) > HistoryCap THEN Tail(longer) ELSE longer
  <1>1. /\ w.history \in Seq(S) /\ Len(w.history) \in Nat /\ w.active \in S
        /\ Len(w.history) <= HistoryCap /\ HistoryCap \in Nat
    BY LenProperties, WindowAssumption DEF Sound, HistorySound
  <1> HIDE DEF S
  <1>2. longer \in Seq(S) /\ Len(longer) = Len(w.history) + 1
    BY <1>1, AppendProperties
  <1>3. longer # <<>>
    BY <1>1, <1>2, EmptySeq
  <1> HIDE DEF longer
  <1>4. Tail(longer) \in Seq(S) /\ Len(Tail(longer)) = Len(longer) - 1
    BY <1>2, <1>3, HeadTailProperties
  <1>5. h \in Seq(S) /\ Len(h) <= HistoryCap
    BY <1>1, <1>2, <1>4
  <1>6. Focused(w, p).history = h
    BY DEF Focused, Sound, longer
  <1> QED
    BY <1>5, <1>6 DEF S

LEMMA AssembleSound ==
  ASSUME NEW p \in Panes
  PROVE  /\ Sound(Assemble(p))
         /\ ToSet(Assemble(p).leaves) = {p}
         /\ ~Assemble(p).silence
  <1>1. /\ Assemble(p).history = <<>> /\ <<>> \in Seq(ToSet(Assemble(p).leaves))
        /\ Len(<<>>) = 0 /\ HistoryCap \in Nat
    BY EmptySeq, WindowAssumption DEF Assemble
  <1>2. HistorySound(Assemble(p))
    BY <1>1 DEF HistorySound
  <1> QED
    BY <1>2 DEF Sound, Assemble, IsInjective, ToSet

LEMMA FocusedSound ==
  ASSUME NEW w, Sound(w), NEW p \in ToSet(w.leaves)
  PROVE  /\ Sound(Focused(w, p))
         /\ Focused(w, p).leaves = w.leaves
         /\ Focused(w, p).silence = w.silence
  <1>1. Focused(w, p).leaves = w.leaves
    BY DEF Sound, Focused
  <1>2. HistorySound(Focused(w, p))
    BY <1>1, HistoryGrows DEF HistorySound
  <1> QED
    BY <1>2, LeavesArePanes DEF Sound, Focused

LEMMA FocusSound ==
  ASSUME NEW w, Sound(w), NEW p
  PROVE  /\ Sound(Focus(w, p))
         /\ Focus(w, p).leaves = w.leaves
         /\ Focus(w, p).silence = w.silence
  BY FocusedSound DEF Focus

LEMMA SplitSound ==
  ASSUME NEW w, Sound(w), NEW p \in Panes \ ToSet(w.leaves)
  PROVE  /\ Sound(Split(w, p))
         /\ ToSet(Split(w, p).leaves) = ToSet(w.leaves) \cup {p}
         /\ Split(w, p).silence = w.silence
  <1> DEFINE s == InsertAfter(w.leaves, w.active, p)
  <1>1. /\ w.leaves \in Seq(Panes) /\ IsInjective(w.leaves)
        /\ w.active \in ToSet(w.leaves)
    BY DEF Sound
  <1>2. PlaceOf(w.leaves, w.active) \in 1 .. Len(w.leaves)
    BY <1>1, PlaceIs
  <1>3. PlaceOf(w.leaves, w.active) + 1 \in 1 .. Len(w.leaves) + 1
    BY <1>1, <1>2, LenProperties
  <1>4. s \in Seq(Panes) /\ IsInjective(s) /\ ToSet(s) = ToSet(w.leaves) \cup {p}
    BY <1>1, <1>3, InsertAtIs DEF InsertAfter
  <1>5. /\ Split(w, p).leaves = s /\ Split(w, p).active = p
        /\ Split(w, p).zoomed = w.zoomed /\ Split(w, p).silence = w.silence
        /\ Split(w, p).history = Focused(w, p).history
        /\ Split(w, p) \in [leaves : {s}, active : Panes, history : {Split(w, p).history},
             zoomed : Panes \cup {None}, silence : BOOLEAN]
    BY DEF Split, Focused, Sound
  <1> HIDE DEF s
  <1>6. HistorySound(Split(w, p))
    <2>1. ToSet(w.leaves) \subseteq ToSet(Split(w, p).leaves)
      BY <1>4, <1>5
    <2> QED
      BY <1>5, <2>1, HistoryGrows, SeqWider DEF HistorySound
  <1> QED
    BY <1>4, <1>5, <1>6 DEF Sound

LEMMA FallbackIsLeft ==
  ASSUME NEW w, Sound(w), NEW p \in ToSet(w.leaves), NEW left \in Seq(Panes), left # <<>>,
         ToSet(left) = ToSet(w.leaves) \ {p}
  PROVE  Fallback(w, p, left) \in ToSet(left)
  <1>1. CASE w.active # p
    BY <1>1 DEF Fallback, Sound
  <1>2. CASE w.active = p
    <2>1. left[1] \in ToSet(left)
      BY LenProperties, EmptySeq DEF ToSet
    <2> QED
      BY <1>2, <2>1 DEF Fallback, IsMostRecent
  <1> QED
    BY <1>1, <1>2

LEMMA RemovedSound ==
  ASSUME NEW w, Sound(w), NEW p \in ToSet(w.leaves), ToSet(w.leaves) # {p}
  PROVE  /\ Sound(Removed(w, p))
         /\ ToSet(Removed(w, p).leaves) = ToSet(w.leaves) \ {p}
         /\ Removed(w, p).silence = w.silence
  <1> DEFINE left == Without(w.leaves, p)
             h == Retained(w.history, ToSet(left))
  <1>1. w.leaves \in Seq(Panes) /\ IsInjective(w.leaves)
    BY DEF Sound
  <1>2. left \in Seq(Panes) /\ IsInjective(left) /\ ToSet(left) = ToSet(w.leaves) \ {p}
    BY <1>1, WithoutIs
  <1>3. left # <<>>
    BY <1>2 DEF ToSet
  <1>4. Fallback(w, p, left) \in ToSet(left) /\ ToSet(left) \subseteq Panes
    BY <1>2, <1>3, FallbackIsLeft, LeavesArePanes
  <1>5. Removed(w, p) = [leaves |-> left, active |-> Fallback(w, p, left), history |-> h,
          zoomed |-> IF w.zoomed = p THEN None ELSE w.zoomed, silence |-> w.silence]
    BY DEF Removed
  <1>6. HistorySound(Removed(w, p))
    <2>1. w.history \in Seq(ToSet(w.leaves)) /\ Len(w.history) <= HistoryCap
      BY DEF Sound, HistorySound
    <2> HIDE DEF left
    <2>2. h \in Seq(ToSet(left)) /\ Len(h) <= Len(w.history)
      BY <2>1, RetainedIs
    <2>3. /\ Len(h) \in Nat /\ Len(w.history) \in Nat /\ HistoryCap \in Nat
      BY <2>1, <2>2, LenProperties, WindowAssumption
    <2> HIDE DEF h
    <2> QED
      BY <1>5, <2>1, <2>2, <2>3 DEF HistorySound
  <1> HIDE DEF left, h
  <1> QED
    BY <1>2, <1>4, <1>5, <1>6 DEF Sound

LEMMA RekeyedSound ==
  ASSUME NEW w, Sound(w), NEW p \in ToSet(w.leaves), NEW q \in Panes \ ToSet(w.leaves)
  PROVE  /\ Sound(Rekeyed(w, p, q))
         /\ ToSet(Rekeyed(w, p, q).leaves) = (ToSet(w.leaves) \ {p}) \cup {q}
         /\ Rekeyed(w, p, q).silence = w.silence
  <1> DEFINE s == ReplaceAll(w.leaves, p, q)
  <1>1. /\ Len(w.leaves) \in Nat /\ DOMAIN w.leaves = 1 .. Len(w.leaves)
        /\ \A i \in 1 .. Len(w.leaves) : w.leaves[i] \in Panes
    BY LenProperties DEF Sound
  <1>2. s = [i \in 1 .. Len(w.leaves) |-> IF w.leaves[i] = p THEN q ELSE w.leaves[i]]
    BY DEF ReplaceAll
  <1>3. s \in Seq(Panes)
    BY <1>1, <1>2, IsASeq
  <1>4. IsInjective(s)
    BY <1>1, <1>2 DEF IsInjective, Sound, ToSet
  <1>5. ToSet(s) = (ToSet(w.leaves) \ {p}) \cup {q}
    BY <1>1, <1>2 DEF ToSet
  <1>6. /\ Rekeyed(w, p, q).leaves = s
        /\ Rekeyed(w, p, q).active = Becomes(w.active, p, q)
        /\ Rekeyed(w, p, q).zoomed = Becomes(w.zoomed, p, q)
        /\ Rekeyed(w, p, q).silence = w.silence
        /\ Rekeyed(w, p, q) \in [leaves : {s}, active : {Becomes(w.active, p, q)},
             history : {Rekeyed(w, p, q).history}, zoomed : {Becomes(w.zoomed, p, q)},
             silence : BOOLEAN]
    BY DEF Rekeyed, Sound
  <1>7. HistorySound(Rekeyed(w, p, q))
    <2> DEFINE h == ReplaceAll(w.history, p, q)
               n == Len(w.history)
    <2>1. /\ n \in Nat /\ n <= HistoryCap
          /\ \A i \in 1 .. n : w.history[i] \in ToSet(w.leaves)
      BY LenProperties DEF Sound, HistorySound
    <2> HIDE DEF n
    <2>2. h = [i \in 1 .. n |-> IF w.history[i] = p THEN q ELSE w.history[i]]
      BY DEF ReplaceAll, n
    <2>3. \A i \in 1 .. n : (IF w.history[i] = p THEN q ELSE w.history[i]) \in ToSet(s)
      BY <1>5, <2>1
    <2>4. h \in Seq(ToSet(s)) /\ Len(h) = n
      BY <2>1, <2>2, <2>3, IsASeq, LenProperties
    <2>5. Rekeyed(w, p, q).history = h
      BY DEF Rekeyed, Sound
    <2> HIDE DEF h, s
    <2> QED
      BY <1>6, <2>1, <2>4, <2>5 DEF HistorySound
  <1> HIDE DEF s
  <1> QED
    BY <1>3, <1>4, <1>5, <1>6, <1>7, LeavesArePanes, WindowAssumption DEF Sound, Becomes

LEMMA SwappedSound ==
  ASSUME NEW w, Sound(w), NEW p \in ToSet(w.leaves), NEW q \in ToSet(w.leaves)
  PROVE  /\ Sound(Swapped(w, p, q))
         /\ ToSet(Swapped(w, p, q).leaves) = ToSet(w.leaves)
         /\ Swapped(w, p, q).silence = w.silence
  <1> DEFINE s == Swapped(w, p, q).leaves
  <1>1. /\ Len(w.leaves) \in Nat /\ DOMAIN w.leaves = 1 .. Len(w.leaves)
        /\ \A i \in 1 .. Len(w.leaves) : w.leaves[i] \in Panes
    BY LenProperties DEF Sound
  <1>2. s = [i \in 1 .. Len(w.leaves) |->
               IF w.leaves[i] = p THEN q ELSE IF w.leaves[i] = q THEN p ELSE w.leaves[i]]
    BY <1>1 DEF Swapped, Becomes, Sound
  <1>3. s \in Seq(Panes)
    BY <1>1, <1>2, IsASeq, LeavesArePanes
  <1>4. IsInjective(s)
    BY <1>1, <1>2 DEF IsInjective, Sound
  <1>5. ToSet(s) = ToSet(w.leaves)
    BY <1>1, <1>2 DEF ToSet
  <1>6. /\ Swapped(w, p, q).active = w.active /\ Swapped(w, p, q).zoomed = w.zoomed
        /\ Swapped(w, p, q).silence = w.silence
        /\ Swapped(w, p, q) \in [leaves : {s}, active : Panes, history : {w.history},
             zoomed : Panes \cup {None}, silence : BOOLEAN]
        /\ Swapped(w, p, q).history = w.history
    BY DEF Swapped, Sound
  <1> HIDE DEF s
  <1>7. Swapped(w, p, q).leaves = s
    BY DEF s
  <1>8. HistorySound(Swapped(w, p, q))
    BY <1>5, <1>6, <1>7, SameHistory DEF Sound
  <1> QED
    BY <1>3, <1>4, <1>5, <1>6, <1>7, <1>8 DEF Sound

LEMMA NeighborsAreLeaves ==
  ASSUME NEW w, Sound(w) PROVE NeighborLeaves(w) \subseteq ToSet(w.leaves)
  <1> DEFINE i == PlaceOf(w.leaves, w.active)
  <1>1. Len(w.leaves) \in Nat /\ DOMAIN w.leaves = 1 .. Len(w.leaves)
    BY LenProperties DEF Sound
  <1>2. i \in 1 .. Len(w.leaves)
    BY PlaceIs DEF Sound
  <1> HIDE DEF i
  <1>3. /\ (IF i = Len(w.leaves) THEN 1 ELSE i + 1) \in 1 .. Len(w.leaves)
        /\ (IF i = 1 THEN Len(w.leaves) ELSE i - 1) \in 1 .. Len(w.leaves)
    BY <1>1, <1>2
  <1> QED
    BY <1>1, <1>3 DEF NeighborLeaves, ToSet, i

LEMMA ArrangedSound ==
  ASSUME NEW w, Sound(w), NEW main \in BOOLEAN
  PROVE  /\ Sound(Arranged(w, main))
         /\ ToSet(Arranged(w, main).leaves) = ToSet(w.leaves)
         /\ Arranged(w, main).silence = w.silence
  <1>1. CASE ~main
    BY <1>1 DEF Arranged
  <1>2. CASE main
    <2> DEFINE r == Without(w.leaves, w.active)
               s == <<w.active>> \o r
    <2>1. w.leaves \in Seq(Panes) /\ IsInjective(w.leaves) /\ w.active \in ToSet(w.leaves)
      BY DEF Sound
    <2>2. r \in Seq(Panes) /\ IsInjective(r) /\ ToSet(r) = ToSet(w.leaves) \ {w.active}
      BY <2>1, WithoutIs
    <2> HIDE DEF r
    <2>3. s \in Seq(Panes) /\ IsInjective(s) /\ ToSet(s) = ToSet(w.leaves)
      <3>1. Len(r) \in Nat /\ DOMAIN r = 1 .. Len(r) /\ \A i \in 1 .. Len(r) : r[i] # w.active
        BY <2>2, LenProperties DEF ToSet
      <3>2. <<w.active>> \in Seq(Panes) /\ Len(<<w.active>>) = 1
        BY <2>1, LeavesArePanes
      <3>3. /\ s \in Seq(Panes) /\ Len(s) = Len(r) + 1
            /\ \A i \in 1 .. 1 + Len(r) : s[i] = IF i <= 1 THEN <<w.active>>[i] ELSE r[i - 1]
        BY <2>2, <3>1, <3>2, ConcatProperties
      <3> HIDE DEF s
      <3>4. DOMAIN s = 1 .. Len(r) + 1
        BY <3>3, LenProperties
      <3>5. s[1] = w.active /\ \A i \in 1 .. Len(r) : s[i + 1] = r[i]
        BY <3>1, <3>3
      <3>6. ASSUME NEW i \in 1 .. Len(r) + 1, i # 1 PROVE \E j \in 1 .. Len(r) : i = j + 1
        <4>1. i - 1 \in 1 .. Len(r) /\ i = (i - 1) + 1
          BY <3>1, <3>6
        <4> QED
          BY <4>1
      <3>7. IsInjective(s)
        BY <2>2, <3>1, <3>4, <3>5, <3>6 DEF IsInjective
      <3>8. \A i \in 1 .. Len(r) : i + 1 \in 1 .. Len(r) + 1
        BY <3>1
      <3>9. 1 \in 1 .. Len(r) + 1
        BY <3>1
      <3>10. ToSet(s) = ToSet(r) \cup {w.active}
        <4>1. ASSUME NEW y PROVE y \in ToSet(s) <=> y \in ToSet(r) \cup {w.active}
          <5>1. y \in ToSet(s) <=> \E i \in 1 .. Len(r) + 1 : s[i] = y
            BY <3>3, InToSet
          <5>2. y \in ToSet(r) <=> \E i \in 1 .. Len(r) : r[i] = y
            BY <2>2, InToSet
          <5>3. ASSUME NEW i \in 1 .. Len(r) + 1, s[i] = y PROVE y \in ToSet(r) \cup {w.active}
            <6>1. CASE i = 1
              BY <3>5, <5>3, <6>1
            <6>2. CASE i # 1
              <7>1. PICK j \in 1 .. Len(r) : i = j + 1
                BY <3>6, <6>2
              <7>2. r[j] = y
                BY <3>5, <5>3, <7>1
              <7> QED
                BY <5>2, <7>2
            <6> QED
              BY <6>1, <6>2
          <5>4. CASE y \in ToSet(r)
            <6>1. PICK j \in 1 .. Len(r) : r[j] = y
              BY <5>2, <5>4
            <6>2. j + 1 \in 1 .. Len(r) + 1 /\ s[j + 1] = y
              BY <3>5, <3>8, <6>1
            <6> QED
              BY <5>1, <5>4, <6>2
          <5>5. CASE y = w.active
            BY <5>1, <5>5, <3>5, <3>9
          <5> QED
            BY <5>1, <5>3, <5>4, <5>5
        <4> QED
          BY <4>1
      <3> QED
        BY <3>3, <3>7, <3>10, <2>1, <2>2
    <2>4. /\ Arranged(w, main).leaves = s /\ Arranged(w, main).active = w.active
          /\ Arranged(w, main).zoomed = w.zoomed /\ Arranged(w, main).silence = w.silence
          /\ Arranged(w, main).history = w.history
          /\ Arranged(w, main) \in [leaves : {s}, active : Panes, history : {w.history},
               zoomed : Panes \cup {None}, silence : BOOLEAN]
      BY <1>2 DEF Arranged, Sound, r
    <2> HIDE DEF s
    <2>5. HistorySound(Arranged(w, main))
      BY <2>3, <2>4, SameHistory DEF Sound
    <2> QED
      BY <2>3, <2>4, <2>5 DEF Sound
  <1> QED
    BY <1>1, <1>2

LEMMA UnzoomedSound ==
  ASSUME NEW w, Sound(w)
  PROVE  /\ Sound(Unzoomed(w))
         /\ Unzoomed(w).leaves = w.leaves
         /\ Unzoomed(w).active = w.active
         /\ Unzoomed(w).silence = w.silence
  <1>1. Unzoomed(w).leaves = w.leaves /\ Unzoomed(w).history = w.history
    BY DEF Sound, Unzoomed
  <1>2. HistorySound(Unzoomed(w))
    BY <1>1, SameHistory DEF Sound
  <1> QED
    BY <1>2 DEF Sound, Unzoomed

LEMMA ZoomToggledSound ==
  ASSUME NEW w, Sound(w)
  PROVE  /\ Sound(ZoomToggled(w))
         /\ ZoomToggled(w).leaves = w.leaves
         /\ ZoomToggled(w).silence = w.silence
  <1>1. ZoomToggled(w).leaves = w.leaves /\ ZoomToggled(w).history = w.history
    BY DEF Sound, ZoomToggled
  <1>2. HistorySound(ZoomToggled(w))
    BY <1>1, SameHistory DEF Sound
  <1> QED
    BY <1>2 DEF Sound, ZoomToggled

(* Monitoring a window for silence touches nothing else in it.             *)
LEMMA MonitoredSound ==
  ASSUME NEW w, Sound(w), NEW on \in BOOLEAN
  PROVE  /\ Sound([w EXCEPT !.silence = on])
         /\ [w EXCEPT !.silence = on].leaves = w.leaves
  <1> DEFINE r == [w EXCEPT !.silence = on]
  <1>1. r.leaves = w.leaves /\ r.history = w.history
    BY DEF Sound
  <1>2. HistorySound(r)
    BY <1>1, SameHistory DEF Sound
  <1> QED
    BY <1>2 DEF Sound
=============================================================================
