----------------------------- MODULE LayoutProofs -----------------------------
(***************************************************************************)
(* Theorems about Layout and Geometry: for trees of any shape and number of*)
(* panes, viewports of any size and any ratios.                            *)
(***************************************************************************)
EXTENDS Layout, Induction, SequenceTheorems, FiniteSetTheorems, TLAPS

-----------------------------------------------------------------------------
(* Geometry.                                                               *)

(* Rectangles of cells.                                                    *)
Rectangles == [row : Nat, col : Nat, rows : Nat, cols : Nat]

(* Both children and the border between them make up what is divided.      *)
LEMMA DividedIs ==
  ASSUME NEW n \in Nat, NEW ratio \in Int
  PROVE  LET d == Divided(n, ratio) IN
         /\ d.first \in Nat /\ d.second \in Nat /\ d.at \in Nat
         /\ n >= 2 => d.first >= 1 /\ d.at = d.first + 1 /\ d.at + d.second = n
         /\ n < 2  => d.first = n /\ d.second = 0 /\ d.at = n
  <1> DEFINE x == ((n - 1) * ratio + 500) \div 1000
             a == Share(n - 1, ratio)
  <1>1. x \in Int
    <2>1. (n - 1) * ratio + 500 \in Int
      OBVIOUS
    <2> QED
      BY <2>1
  <1>2. a = Within(x, 1, Larger(n - 1 - 1, 1))
    BY DEF Share
  <1> HIDE DEF x, a
  <1>3. ASSUME n >= 2 PROVE a \in Nat /\ a >= 1 /\ a <= n - 1
    BY <1>1, <1>2, <1>3 DEF Within, Larger
  <1>4. Divided(n, ratio) = IF n <= 1 THEN [first |-> n, second |-> 0, at |-> n]
                            ELSE [first |-> a, second |-> n - 1 - a, at |-> a + 1]
    BY DEF Divided, a
  <1>5. CASE n >= 2
    <2>1. Divided(n, ratio) = [first |-> a, second |-> n - 1 - a, at |-> a + 1]
      BY <1>4, <1>5
    <2> QED
      BY <1>3, <1>5, <2>1
  <1>6. CASE n < 2
    BY <1>4, <1>6
  <1> QED
    BY <1>5, <1>6

(* The two children of a split lie in its rectangle, on two sides of its   *)
(* border.                                                                 *)
LEMMA ChildrenAre ==
  ASSUME NEW r \in Rectangles, NEW n, n.dir \in {"Horizontal", "Vertical"}, n.ratio \in Int,
         NEW row \in Int, NEW col \in Int
  PROVE  /\ FirstRect(r, n) \in Rectangles /\ SecondRect(r, n) \in Rectangles
         /\ Covers(FirstRect(r, n), row, col) => Covers(r, row, col)
         /\ Covers(SecondRect(r, n), row, col) => Covers(r, row, col)
         /\ ~ (Covers(FirstRect(r, n), row, col) /\ Covers(SecondRect(r, n), row, col))
         /\ OnGutter(n, r, row, col) => /\ ~Covers(FirstRect(r, n), row, col)
                                        /\ ~Covers(SecondRect(r, n), row, col)
  <1>1. /\ r.row \in Nat /\ r.col \in Nat /\ r.rows \in Nat /\ r.cols \in Nat
        /\ r = [row |-> r.row, col |-> r.col, rows |-> r.rows, cols |-> r.cols]
    BY DEF Rectangles
  <1>2. CASE n.dir = "Horizontal"
    <2> DEFINE d == Divided(r.rows, n.ratio)
    <2>1. /\ d.first \in Nat /\ d.second \in Nat /\ d.at \in Nat
          /\ r.rows >= 2 => d.first >= 1 /\ d.at = d.first + 1 /\ d.at + d.second = r.rows
          /\ r.rows < 2  => d.first = r.rows /\ d.second = 0 /\ d.at = r.rows
      BY <1>1, DividedIs
    <2>2. /\ FirstRect(r, n) = [row |-> r.row, col |-> r.col, rows |-> d.first, cols |-> r.cols]
          /\ SecondRect(r, n) = [row |-> r.row + d.at, col |-> r.col,
                                 rows |-> d.second, cols |-> r.cols]
      BY <1>1, <1>2 DEF FirstRect, SecondRect
    <2>3. OnGutter(n, r, row, col) => row = r.row + d.first
      BY <1>2, <2>2 DEF OnGutter, Gutter
    <2> HIDE DEF d
    <2>4. FirstRect(r, n) \in Rectangles /\ SecondRect(r, n) \in Rectangles
      BY <1>1, <2>1, <2>2 DEF Rectangles
    <2> QED
      BY <1>1, <2>1, <2>2, <2>3, <2>4 DEF Covers
  <1>3. CASE n.dir # "Horizontal"
    <2> DEFINE d == Divided(r.cols, n.ratio)
    <2>1. /\ d.first \in Nat /\ d.second \in Nat /\ d.at \in Nat
          /\ r.cols >= 2 => d.first >= 1 /\ d.at = d.first + 1 /\ d.at + d.second = r.cols
          /\ r.cols < 2  => d.first = r.cols /\ d.second = 0 /\ d.at = r.cols
      BY <1>1, DividedIs
    <2>2. /\ FirstRect(r, n) = [row |-> r.row, col |-> r.col, rows |-> r.rows, cols |-> d.first]
          /\ SecondRect(r, n) = [row |-> r.row, col |-> r.col + d.at,
                                 rows |-> r.rows, cols |-> d.second]
      BY <1>1, <1>3 DEF FirstRect, SecondRect
    <2>3. OnGutter(n, r, row, col) => col = r.col + d.first
      BY <1>3, <2>2 DEF OnGutter, Gutter
    <2> HIDE DEF d
    <2>4. FirstRect(r, n) \in Rectangles /\ SecondRect(r, n) \in Rectangles
      BY <1>1, <2>1, <2>2 DEF Rectangles
    <2> QED
      BY <1>1, <2>1, <2>2, <2>3, <2>4 DEF Covers
  <1> QED
    BY <1>2, <1>3

(* No cell is in both children of a split.                                 *)
OneChild(r, n) ==
  \A row, col \in Int : ~ (Covers(FirstRect(r, n), row, col) /\ Covers(SecondRect(r, n), row, col))

LEMMA ChildrenApart ==
  ASSUME NEW r \in Rectangles, NEW n, n.dir \in {"Horizontal", "Vertical"}, n.ratio \in Int
  PROVE  OneChild(r, n)
  BY ChildrenAre DEF OneChild

LEMMA TurnIs ==
  ASSUME NEW x \in Turns
  PROVE  /\ x.dir \in Dirs /\ x.dir \in {"Horizontal", "Vertical"}
         /\ x.ratio \in Ratios /\ x.ratio \in Int
         /\ x.turn \in {"first", "second"}
         /\ x = Turn(x.dir, x.ratio, x.turn)
         /\ Other(x) \in Turns /\ Other(Other(x)) = x
         /\ Other(x).dir = x.dir /\ Other(x).ratio = x.ratio /\ Other(x).turn # x.turn
  <1>1. x.dir \in Dirs /\ x.ratio \in Ratios /\ x.turn \in {"first", "second"}
    BY DEF Turns
  <1>2. x = [dir |-> x.dir, ratio |-> x.ratio, turn |-> x.turn]
    BY DEF Turns
  <1>3. Other(x) = [dir |-> x.dir, ratio |-> x.ratio,
                    turn |-> IF x.turn = "first" THEN "second" ELSE "first"]
    BY <1>2 DEF Other
  <1>4. Other(x) \in Turns
    BY <1>1, <1>3 DEF Turns
  <1> DEFINE y == Other(x)
  <1>5. Other(y) = [dir |-> x.dir, ratio |-> x.ratio,
                    turn |-> IF y.turn = "first" THEN "second" ELSE "first"]
    <2>1. y = [dir |-> x.dir, ratio |-> x.ratio,
               turn |-> IF x.turn = "first" THEN "second" ELSE "first"]
      BY <1>3
    <2> HIDE DEF y
    <2> QED
      BY <2>1 DEF Other
  <1>6. Other(Other(x)).turn = x.turn
    BY <1>1, <1>3, <1>5
  <1> QED
    BY <1>1, <1>2, <1>3, <1>4, <1>5, <1>6 DEF Dirs, Turn, Ratios

LEMMA TurnPair ==
  ASSUME NEW dir \in Dirs, NEW ratio \in Ratios
  PROVE  LET x == Turn(dir, ratio, "first")
             y == Turn(dir, ratio, "second")
         IN  x \in Turns /\ y \in Turns /\ y = Other(x) /\ x = Other(y)
  <1> DEFINE x == [dir |-> dir, ratio |-> ratio, turn |-> "first"]
             y == [dir |-> dir, ratio |-> ratio, turn |-> "second"]
  <1>1. x \in Turns /\ y \in Turns
    BY DEF Turns
  <1>2. y = Other(x) /\ x = Other(y)
    BY DEF Other
  <1> QED
    BY <1>1, <1>2 DEF Turn

LEMMA ChildRectIs ==
  ASSUME NEW r \in Rectangles, NEW s \in Turns
  PROVE  /\ ChildRect(r, s) \in Rectangles
         /\ \A row, col \in Int : Covers(ChildRect(r, s), row, col) => Covers(r, row, col)
  <1>1. s.dir \in {"Horizontal", "Vertical"} /\ s.ratio \in Int
    BY TurnIs
  <1>2. FirstRect(r, s) \in Rectangles /\ SecondRect(r, s) \in Rectangles
    <2>1. 0 \in Int
      OBVIOUS
    <2> QED
      BY <1>1, <2>1, ChildrenAre
  <1>3. ASSUME NEW row \in Int, NEW col \in Int, Covers(ChildRect(r, s), row, col)
        PROVE  Covers(r, row, col)
    BY <1>1, <1>3, ChildrenAre DEF ChildRect
  <1> QED
    BY <1>2, <1>3 DEF ChildRect

(* The rectangles on the way down.                                         *)
OnWay(at, r, way) ==
  /\ at[0] = r
  /\ \A i \in 1 .. Len(way) : at[i] = ChildRect(at[i - 1], way[i])
  /\ \A i \in 0 .. Len(way) : at[i] \in Rectangles

LEMMA DescendedIs ==
  ASSUME NEW r \in Rectangles, NEW way \in Seq(Turns)
  PROVE  \E at : OnWay(at, r, way) /\ Descended(r, way) = at[Len(way)]
  <1> DEFINE m == Len(way)
             X == Rectangles
             Step(f, n) == IF n = 0 THEN r ELSE ChildRect(f[n - 1], way[n])
             Down(f) == f = [n \in 0 .. m |-> Step(f, n)]
             at[n \in 0 .. m] == Step(at, n)
             F == [n \in 1 .. m |-> [u \in X |-> ChildRect(u, way[n])]]
  <1>1. m \in Nat /\ \A n \in 1 .. m : way[n] \in Turns
    BY LenProperties
  <1>2. Descended(r, way) = at[m]
    BY DEF Descended
  <1>3. at = CHOOSE f : Down(f)
    BY DEF at
  <1> HIDE DEF m, at
  <1>5. \A n \in 1 .. m, u \in X : ChildRect(u, way[n]) \in X
    BY <1>1, ChildRectIs
  <1>6. F \in [1 .. m -> [X -> X]]
    BY <1>5
  <1>7. \A n \in 1 .. m, u \in X : F[n][u] = ChildRect(u, way[n])
    OBVIOUS
  <1>4. r \in X
    OBVIOUS
  <1> HIDE DEF X, F, Step
  <1>8. PICK f : AreIterates(f, X, m, r, F)
    BY <1>1, <1>4, <1>6, IteratesExist
  <1>9. ASSUME NEW n \in 0 .. m PROVE f[n] = Step(f, n)
    <2>1. CASE n = 0
      BY <1>8, <2>1 DEF Step, AreIterates
    <2>2. CASE n # 0
      <3>1. n \in 1 .. m /\ n - 1 \in 0 .. m
        BY <1>1, <2>2
      <3>2. f[n - 1] \in X /\ f[n] = F[n][f[n - 1]]
        BY <1>8, <3>1 DEF AreIterates
      <3> QED
        BY <1>7, <2>2, <3>1, <3>2 DEF Step
    <2> QED
      BY <2>1, <2>2
  <1>10. Down(f)
    BY <1>8, <1>9 DEF AreIterates
  <1> HIDE DEF Down
  <1>11. Down(at)
    BY <1>3, <1>10
  <1>12. \A n \in 0 .. m : at[n] = Step(at, n)
    BY <1>11 DEF Down
  <1>13. at[0] = r
    <2>1. 0 \in 0 .. m
      BY <1>1
    <2> QED
      BY <1>12, <2>1 DEF Step
  <1>14. ASSUME NEW n \in 1 .. m PROVE at[n] = ChildRect(at[n - 1], way[n])
    <2>1. n \in 0 .. m /\ n # 0
      BY <1>1
    <2> QED
      BY <1>12, <2>1 DEF Step
  <1>15. ASSUME NEW k \in 0 .. m PROVE at[k] \in X
    <2>1. k \in Nat /\ \A n \in 1 .. k : n \in 1 .. m
      BY <1>1
    <2>2. \A n \in 1 .. k : at[n - 1] \in X => at[n] \in X
      BY <1>5, <1>14, <2>1
    <2> QED
      BY <1>4, <1>13, <2>1, <2>2, IteratesStay
  <1>16. OnWay(at, r, way)
    BY <1>13, <1>14, <1>15 DEF OnWay, X, m
  <1> QED
    BY <1>2, <1>16 DEF m

(* Further down the way is further inside.                                 *)
LEMMA InsideOfBefore ==
  ASSUME NEW r, NEW way \in Seq(Turns), NEW at, OnWay(at, r, way),
         NEW k \in 0 .. Len(way), NEW row \in Int, NEW col \in Int,
         Covers(at[Len(way)], row, col)
  PROVE  Covers(at[k], row, col)
  <1> DEFINE m == Len(way)
             T == {n \in Nat : Covers(at[k + n], row, col) => Covers(at[k], row, col)}
  <1>1. m \in Nat /\ k \in Nat /\ m - k \in Nat /\ k + (m - k) = m /\ k + 0 = k
    BY LenProperties
  <1>2. 0 \in T
    BY <1>1
  <1>3. ASSUME NEW n \in 1 .. m - k, n - 1 \in T PROVE n \in T
    <2>1. /\ n \in Nat /\ k + n \in 1 .. m
          /\ k + (n - 1) = (k + n) - 1 /\ (k + n) - 1 \in 0 .. m
      BY <1>1
    <2>2. at[k + n] = ChildRect(at[(k + n) - 1], way[k + n]) /\ at[(k + n) - 1] \in Rectangles
      BY <2>1 DEF OnWay
    <2>3. way[k + n] \in Turns
      BY <2>1, LenProperties
    <2>4. Covers(at[k + n], row, col) => Covers(at[(k + n) - 1], row, col)
      BY <2>2, <2>3, ChildRectIs
    <2>5. Covers(at[k + (n - 1)], row, col) => Covers(at[k], row, col)
      BY <1>3
    <2>6. Covers(at[k + n], row, col) => Covers(at[k], row, col)
      BY <2>1, <2>4, <2>5
    <2> QED
      BY <2>1, <2>6
  <1> HIDE DEF T
  <1>4. m - k \in T
    BY <1>1, <1>2, <1>3, BoundedInduction
  <1> QED
    BY <1>1, <1>4 DEF T

LEMMA PartIs ==
  ASSUME NEW s \in Seq(Turns), NEW t \in Seq(Turns), NEW k, Part(s, t, k)
  PROVE  /\ k \in Nat /\ k >= 1 /\ k <= Len(s) /\ k <= Len(t)
         /\ s[k] \in Turns /\ t[k] \in Turns /\ t[k] = Other(s[k]) /\ s[k] = Other(t[k])
         /\ s[k] # t[k] /\ s[k].dir = t[k].dir /\ s[k].ratio = t[k].ratio
         /\ s[k].turn # t[k].turn
         /\ Agree(s, t, k - 1) /\ Part(t, s, k)
  <1>1. k \in 1 .. Len(s) /\ k \in 1 .. Len(t) /\ Agree(s, t, k - 1) /\ t[k] = Other(s[k])
    BY DEF Part
  <1>2. Len(s) \in Nat /\ Len(t) \in Nat /\ s[k] \in Turns /\ t[k] \in Turns
    BY <1>1, LenProperties
  <1>3. /\ Other(Other(s[k])) = s[k] /\ Other(s[k]).turn # s[k].turn
        /\ Other(s[k]).dir = s[k].dir /\ Other(s[k]).ratio = s[k].ratio
    BY <1>2, TurnIs
  <1>4. Agree(t, s, k - 1)
    BY <1>1 DEF Agree
  <1>5. Part(t, s, k)
    BY <1>1, <1>3, <1>4 DEF Part
  <1> QED
    BY <1>1, <1>2, <1>3, <1>5

(* As long as two ways agree they lead through the same rectangles.        *)
LEMMA WaysAgree ==
  ASSUME NEW r, NEW s \in Seq(Turns), NEW t \in Seq(Turns),
         NEW a, NEW b, OnWay(a, r, s), OnWay(b, r, t),
         NEW k \in Nat, k <= Len(s), k <= Len(t), Agree(s, t, k)
  PROVE  a[k] = b[k]
  <1> DEFINE T == {i \in Nat : a[i] = b[i]}
  <1>1. Len(s) \in Nat /\ Len(t) \in Nat
    BY LenProperties
  <1>2. 0 \in T
    BY DEF OnWay
  <1>3. ASSUME NEW i \in 1 .. k, i - 1 \in T PROVE i \in T
    <2>1. i \in 1 .. Len(s) /\ i \in 1 .. Len(t)
      BY <1>1
    <2>2. a[i] = ChildRect(a[i - 1], s[i]) /\ b[i] = ChildRect(b[i - 1], t[i])
      BY <2>1 DEF OnWay
    <2>3. a[i - 1] = b[i - 1] /\ s[i] = t[i]
      BY <1>3 DEF Agree
    <2> QED
      BY <2>2, <2>3
  <1> HIDE DEF T
  <1>4. k \in T
    BY <1>2, <1>3, BoundedInduction
  <1> QED
    BY <1>4 DEF T

LEMMA AboveIs ==
  ASSUME NEW s \in Seq(Turns), NEW k \in 1 .. Len(s)
  PROVE  /\ Above(s, k) \in Seq(Turns) /\ Len(Above(s, k)) = k - 1
         /\ \A i \in 1 .. k - 1 : Above(s, k)[i] = s[i]
  <1>1. Len(s) \in Nat /\ 1 \in 1 .. Len(s) + 1 /\ k - 1 \in 1 - 1 .. Len(s)
    BY LenProperties
  <1>2. \A i \in 1 .. k - 1 : s[i] \in Turns
    BY <1>1, LenProperties
  <1>3. Above(s, k) = [i \in 1 .. k - 1 |-> s[i]]
    BY <1>1 DEF Above
  <1>4. k - 1 \in Nat
    BY <1>1
  <1>5. Above(s, k) \in Seq(Turns)
    BY <1>2, <1>3, <1>4
  <1> QED
    BY <1>3, <1>4, <1>5

(* The rectangle a split divides is the one met there on the way down.     *)
LEMMA SplitRectIs ==
  ASSUME NEW r \in Rectangles, NEW s \in Seq(Turns), NEW k \in 1 .. Len(s),
         NEW a, OnWay(a, r, s)
  PROVE  /\ Descended(r, Above(s, k)) = a[k - 1] /\ a[k - 1] \in Rectangles
         /\ a[k] = ChildRect(a[k - 1], s[k])
  <1>1. Above(s, k) \in Seq(Turns) /\ Len(Above(s, k)) = k - 1
    BY AboveIs
  <1>2. PICK b : OnWay(b, r, Above(s, k)) /\ Descended(r, Above(s, k)) = b[Len(Above(s, k))]
    BY <1>1, DescendedIs
  <1>3. Len(s) \in Nat /\ k - 1 \in Nat /\ k - 1 <= Len(s) /\ k - 1 <= Len(Above(s, k))
    BY <1>1, LenProperties
  <1>4. Agree(s, Above(s, k), k - 1)
    BY AboveIs DEF Agree
  <1>5. a[k - 1] = b[k - 1]
    BY <1>1, <1>2, <1>3, <1>4, WaysAgree
  <1>6. k - 1 \in 0 .. Len(s)
    BY <1>3
  <1> QED
    BY <1>1, <1>2, <1>5, <1>6 DEF OnWay

(* Two ways that part lead to rectangles that share no cell: up to there   *)
(* they are the same, and from there on they stay in two children.         *)
LEMMA WaysApart ==
  ASSUME NEW r \in Rectangles, NEW s \in Seq(Turns), NEW t \in Seq(Turns),
         NEW k, Part(s, t, k), NEW row \in Int, NEW col \in Int
  PROVE  ~ (Covers(Descended(r, s), row, col) /\ Covers(Descended(r, t), row, col))
  <1>1. PICK a : OnWay(a, r, s) /\ Descended(r, s) = a[Len(s)]
    BY DescendedIs
  <1>2. PICK b : OnWay(b, r, t) /\ Descended(r, t) = b[Len(t)]
    BY DescendedIs
  <1>3. /\ Len(s) \in Nat /\ Len(t) \in Nat /\ k \in 1 .. Len(s) /\ k \in 1 .. Len(t)
        /\ s[k] \in Turns /\ t[k] \in Turns /\ s[k].dir = t[k].dir
        /\ s[k].ratio = t[k].ratio /\ s[k].turn # t[k].turn /\ Agree(s, t, k - 1)
    BY PartIs, LenProperties
  <1>4. k - 1 \in Nat /\ k - 1 <= Len(s) /\ k - 1 <= Len(t) /\ k \in 0 .. Len(s) /\ k \in 0 .. Len(t)
    BY <1>3
  <1>5. a[k - 1] = b[k - 1]
    BY <1>1, <1>2, <1>3, <1>4, WaysAgree
  <1>6. a[k] = ChildRect(a[k - 1], s[k]) /\ b[k] = ChildRect(a[k - 1], t[k]) /\ a[k - 1] \in Rectangles
    BY <1>1, <1>2, <1>3, <1>5, SplitRectIs
  <1>7. ~ (Covers(a[k], row, col) /\ Covers(b[k], row, col))
    <2>1. /\ s[k].dir \in {"Horizontal", "Vertical"} /\ s[k].ratio \in Int
          /\ s[k].turn \in {"first", "second"} /\ t[k].turn \in {"first", "second"}
      BY <1>3, TurnIs
    <2>2. /\ FirstRect(a[k - 1], t[k]) = FirstRect(a[k - 1], s[k])
          /\ SecondRect(a[k - 1], t[k]) = SecondRect(a[k - 1], s[k])
      BY <1>3 DEF FirstRect, SecondRect
    <2>3. ~ (/\ Covers(FirstRect(a[k - 1], s[k]), row, col)
             /\ Covers(SecondRect(a[k - 1], s[k]), row, col))
      BY <1>6, <2>1, ChildrenAre
    <2>4. \/ s[k].turn = "first" /\ t[k].turn # "first"
          \/ s[k].turn # "first" /\ t[k].turn = "first"
      BY <1>3, <2>1
    <2> QED
      BY <1>6, <2>2, <2>3, <2>4 DEF ChildRect
  <1>8. Covers(a[Len(s)], row, col) => Covers(a[k], row, col)
    BY <1>1, <1>4, InsideOfBefore
  <1>9. Covers(b[Len(t)], row, col) => Covers(b[k], row, col)
    BY <1>2, <1>4, InsideOfBefore
  <1> QED
    BY <1>1, <1>2, <1>7, <1>8, <1>9

LEMMA WayInside ==
  ASSUME NEW r \in Rectangles, NEW s \in Seq(Turns), NEW row \in Int, NEW col \in Int,
         Covers(Descended(r, s), row, col)
  PROVE  Covers(r, row, col)
  <1>1. PICK a : OnWay(a, r, s) /\ Descended(r, s) = a[Len(s)]
    BY DescendedIs
  <1>2. 0 \in 0 .. Len(s)
    BY LenProperties
  <1>3. Covers(a[0], row, col)
    BY <1>1, <1>2, InsideOfBefore
  <1> QED
    BY <1>1, <1>3 DEF OnWay

(* Two panes of a tree share no cell, whatever the tree and the viewport,  *)
(* and no pane has a cell outside the viewport (Rect::subdivide, rect_of). *)
THEOREM PanesAreApart ==
  ASSUME NEW t, IsTree(t), NEW r \in Rectangles, NEW row \in Int, NEW col \in Int
  PROVE  /\ \A p, q \in DOMAIN t :
              Covers(Descended(r, t[p]), row, col) /\ Covers(Descended(r, t[q]), row, col)
                => p = q
         /\ \A p \in DOMAIN t :
              Covers(Descended(r, t[p]), row, col) => Covers(r, row, col)
  <1>1. \A p \in DOMAIN t : t[p] \in Seq(Turns)
    BY DEF IsTree
  <1>2. \A p, q \in DOMAIN t : p # q => \E k \in 1 .. Len(t[p]) : Part(t[p], t[q], k)
    BY DEF IsTree
  <1> QED
    BY <1>1, <1>2, WaysApart, WayInside

LEMMA WholeIs ==
  ASSUME LayoutAssumption, view \in Views
  PROVE  /\ Whole \in Rectangles /\ view[1] \in Nat /\ view[2] \in Nat
         /\ Whole.row = 1 /\ Whole.col = 1 /\ Whole.rows = view[1] /\ Whole.cols = view[2]
  <1>1. view \in Nat \X Nat
    BY DEF LayoutAssumption
  <1> QED
    BY <1>1 DEF Whole, Rect, Rectangles

(* A click finds the pane that is painted in the cell: the test goes at    *)
(* every split into the child that the pane is in (pane_at_in, rect_of_in).*)
LEMMA HitIsPainted ==
  ASSUME NEW t, IsTree(t), Whole \in Rectangles, NEW row \in Int, NEW col \in Int
  PROVE  PaneAt(t, row, col) = {p \in DOMAIN t : Covers(Rects(t)[p], row, col)}
  <1>1. \A p \in DOMAIN t : t[p] \in Seq(Turns) /\ Rects(t)[p] = Descended(Whole, t[p])
    BY DEF IsTree, Rects
  <1>2. ASSUME NEW p \in DOMAIN t, Covers(Descended(Whole, t[p]), row, col),
               NEW k \in 1 .. Len(t[p])
        PROVE  IF Covers(FirstRect(SplitRect(t[p], k), t[p][k]), row, col)
                 THEN t[p][k].turn = "first"
                 ELSE /\ t[p][k].turn = "second"
                      /\ Covers(SecondRect(SplitRect(t[p], k), t[p][k]), row, col)
    <2> DEFINE s == t[p]
    <2>1. s \in Seq(Turns)
      BY <1>1
    <2> HIDE DEF s
    <2>2. PICK a : OnWay(a, Whole, s) /\ Descended(Whole, s) = a[Len(s)]
      BY <2>1, DescendedIs
    <2>3. /\ SplitRect(s, k) = a[k - 1] /\ a[k - 1] \in Rectangles
          /\ a[k] = ChildRect(a[k - 1], s[k])
      BY <2>1, <2>2, SplitRectIs DEF SplitRect, s
    <2>4. k \in 0 .. Len(s) /\ k \in 1 .. Len(s)
      BY <2>1, LenProperties DEF s
    <2>5. Covers(a[k], row, col)
      BY <1>2, <2>1, <2>2, <2>4, InsideOfBefore DEF s
    <2>6. s[k].dir \in {"Horizontal", "Vertical"} /\ s[k].ratio \in Int /\ s[k].turn \in {"first", "second"}
      BY <2>1, <2>4, LenProperties, TurnIs
    <2>7. ~ (/\ Covers(FirstRect(a[k - 1], s[k]), row, col)
             /\ Covers(SecondRect(a[k - 1], s[k]), row, col))
      <3>1. a[k - 1] \in Rectangles
        BY <2>3
      <3>2. s[k].dir \in {"Horizontal", "Vertical"} /\ s[k].ratio \in Int
        BY <2>6
      <3>3. OneChild(a[k - 1], s[k])
        BY <3>1, <3>2, ChildrenApart
      <3> QED
        BY <3>3 DEF OneChild
    <2>8. CASE s[k].turn = "first"
      BY <2>3, <2>5, <2>8 DEF ChildRect, s
    <2>9. CASE s[k].turn # "first"
      BY <2>3, <2>5, <2>6, <2>7, <2>9 DEF ChildRect, s
    <2> QED
      BY <2>8, <2>9
  <1> QED
    BY <1>1, <1>2 DEF PaneAt

LEMMA TreeCellsAgree ==
  ASSUME LayoutAssumption, IsTree(tree), view \in Views
  PROVE  CellsAgree
  <1> DEFINE there(row, col) == {p \in InTree : Covers(Rects(tree)[p], row, col)}
  <1>1. Whole \in Rectangles /\ view[1] \in Nat /\ view[2] \in Nat
    BY WholeIs
  <1>2. ASSUME NEW row \in 0 .. view[1] + 1, NEW col \in 0 .. view[2] + 1
        PROVE  /\ PaneAt(tree, row, col) = there(row, col)
               /\ there(row, col) # {} => /\ Cardinality(there(row, col)) = 1
                                          /\ Covers(Whole, row, col)
    <2>1. row \in Int /\ col \in Int
      BY <1>1
    <2>2. PaneAt(tree, row, col) = there(row, col)
      BY <1>1, <2>1, HitIsPainted DEF InTree
    <2>3. ASSUME NEW p \in there(row, col)
          PROVE  there(row, col) = {p} /\ Covers(Whole, row, col)
      BY <1>1, <2>1, PanesAreApart DEF InTree, Rects
    <2> HIDE DEF there
    <2> QED
      BY <2>2, <2>3, FS_Singleton
  <1> QED
    BY <1>2 DEF CellsAgree

---------------------------------------------------------------------
(* A drag keeps hold of its border: the ratio it gives the split that it   *)
(* names moves the border by just the cells it adds to its position, where *)
(* the clamp of the ratio, the smallest pane and the rounding leave it     *)
(* (adjust_split_recurse, handle_resize_drag_event).                       *)
THEOREM DragKeepsItsBorder ==
  ASSUME NEW r \in Rectangles, NEW delta \in Int,
         NEW n, n.dir \in {"Horizontal", "Vertical"}, n.ratio \in Int,
         NEW q, q.dir = n.dir, q.ratio = Dragged(n, r, delta)
  PROVE  Gutter(q, r) = Gutter(n, r) + Applied(n, r, delta)
  <1>1. /\ r.row \in Nat /\ r.col \in Nat /\ r.rows \in Nat /\ r.cols \in Nat
        /\ r = [row |-> r.row, col |-> r.col, rows |-> r.rows, cols |-> r.cols]
    BY DEF Rectangles
  <1> DEFINE cells == IF n.dir = "Vertical" THEN r.cols ELSE r.rows
             start == IF n.dir = "Vertical" THEN r.col ELSE r.row
  <1>2. cells \in Nat /\ start \in Nat
    BY <1>1
  <1>3. /\ Gutter(n, r) = start + Divided(cells, n.ratio).first
        /\ Gutter(q, r) = start + Divided(cells, q.ratio).first
        /\ FirstCells(n, r) = Divided(cells, n.ratio).first
        /\ Usable(n, r) = Larger(0, cells - 1)
    BY <1>1 DEF Gutter, FirstCells, Usable, FirstRect
  <1>4. Divided(cells, n.ratio).first \in Nat
    BY <1>2, DividedIs
  <1> HIDE DEF cells, start
  <1>5. CASE Usable(n, r) < 2 * MinPaneCells
    <2>1. q.ratio = n.ratio /\ Applied(n, r, delta) = 0
      BY <1>5 DEF Dragged, Applied
    <2> QED
      BY <1>2, <1>3, <1>4, <2>1
  <1>6. CASE ~ (Usable(n, r) < 2 * MinPaneCells)
    <2>1. cells > 1 /\ Usable(n, r) = cells - 1
      BY <1>2, <1>3, <1>6 DEF Larger, MinPaneCells
    <2>2. Divided(cells, q.ratio).first = Share(cells - 1, q.ratio)
      BY <1>2, <2>1 DEF Divided
    <2>3. Applied(n, r, delta) = Share(cells - 1, q.ratio) - Divided(cells, n.ratio).first
      BY <1>3, <1>6, <2>1 DEF Applied
    <2>4. Share(cells - 1, q.ratio) \in Int
      <3>1. q.ratio \in Int
        <4> DEFINE w == Within(FirstCells(n, r) + delta, MinPaneCells, Usable(n, r) - MinPaneCells)
        <4>1. w \in Int /\ cells - 1 \in Int /\ cells - 1 > 0
          BY <1>2, <1>3, <1>4, <2>1 DEF Within, MinPaneCells
        <4>2. q.ratio = Ratio(w, cells - 1)
          BY <1>6, <2>1 DEF Dragged
        <4> HIDE DEF w
        <4>3. (w * 1000 + (cells - 1) \div 2) \div (cells - 1) \in Int
          BY <4>1
        <4> QED
          BY <4>2, <4>3 DEF Ratio, Within
      <3>2. ((cells - 1) * q.ratio + 500) \div 1000 \in Int
        BY <1>2, <3>1
      <3> QED
        BY <1>2, <3>2 DEF Share, Within, Larger
    <2> QED
      BY <1>2, <1>3, <1>4, <2>2, <2>3, <2>4
  <1> QED
    BY <1>5, <1>6

(* A quotient, by the multiple of the divisor that it stands for.          *)
LEMMA QuotientIs ==
  ASSUME NEW a \in Int, NEW b \in Nat, b > 0
  PROVE  a \div b \in Int /\ b * (a \div b) <= a /\ a < b * (a \div b) + b
  <1>1. b * (a \div b) <= a
    OBVIOUS
  <1>2. a < b * (a \div b) + b
    OBVIOUS
  <1> QED
    BY <1>1, <1>2

LEMMA TimesMore ==
  ASSUME NEW a \in Nat, NEW x \in Int, NEW y \in Int, x <= y
  PROVE  a * x <= a * y
  <1>1. y - x \in Nat
    OBVIOUS
  <1>2. a * (y - x) >= 0
    BY <1>1
  <1>3. a * (y - x) = a * y - a * x /\ a * y \in Int /\ a * x \in Int
    OBVIOUS
  <1> QED
    BY <1>2, <1>3

(* A number of cells is found again in its ratio, if the ratio is not      *)
(* clamped and the thousandths tell the cells apart.                       *)
LEMMA CellsOfRatio ==
  ASSUME NEW cells \in Nat, NEW part \in Nat, cells > 0, cells < 1000,
         cells <= 10 * part, 10 * part <= 9 * cells
  PROVE  Ratio(part, cells) \in Ratios /\ Share(cells, Ratio(part, cells)) = part
  <1> DEFINE half == cells \div 2
             x == (part * 1000 + half) \div cells
             p == cells * x
  <1>1. half \in Nat /\ 2 * half <= cells /\ cells < 2 * half + 2
    BY QuotientIs
  <1> HIDE DEF half
  <1>2. x \in Int /\ p <= part * 1000 + half /\ part * 1000 + half < p + cells
    BY <1>1, QuotientIs
  <1>3. Ratio(part, cells) = Within(x, 100, 900)
    BY DEF Ratio, half
  <1>4. p = cells * x /\ p \in Int
    BY <1>2
  <1> HIDE DEF x, p
  <1>5. x >= 100
    <2>1. SUFFICES ASSUME x <= 99 PROVE FALSE
      BY <1>2
    <2>2. p <= cells * 99
      BY <1>2, <1>4, <2>1, TimesMore
    <2> QED
      BY <1>1, <1>2, <1>4, <2>2
  <1>6. x <= 900
    <2>1. SUFFICES ASSUME x >= 901 PROVE FALSE
      BY <1>2
    <2>2. cells * 901 <= p
      BY <1>2, <1>4, <2>1, TimesMore
    <2> QED
      BY <1>1, <1>2, <1>4, <2>2
  <1>7. Ratio(part, cells) = x
    BY <1>2, <1>3, <1>5, <1>6 DEF Within
  <1>8. (p + 500) \div 1000 = part
    BY <1>1, <1>2, <1>4
  <1>9. Share(cells, x) = Within(part, 1, Larger(cells - 1, 1))
    BY <1>4, <1>8 DEF Share
  <1> QED
    BY <1>2, <1>5, <1>6, <1>7, <1>9 DEF Within, Larger, Ratios

(* A border follows the pointer to the cell: a drag to a place that leaves *)
(* both sides a tenth of the room and the cells of a smallest pane puts the*)
(* border there and reports just the cells it was dragged, although the    *)
(* place is kept as a rounded ratio; for any split with room for less than *)
(* 1000 cells (adjust_split_recurse, Rect::subdivide).                     *)
THEOREM DragGoesWhereAsked ==
  ASSUME NEW r \in Rectangles, NEW delta \in Int,
         NEW n, n.dir \in {"Horizontal", "Vertical"}, n.ratio \in Int,
         NEW q, q.dir = n.dir, q.ratio = Dragged(n, r, delta),
         NEW place \in Nat, place = FirstCells(n, r) + delta,
         Usable(n, r) < 1000,
         place >= MinPaneCells, place <= Usable(n, r) - MinPaneCells,
         Usable(n, r) <= 10 * place, 10 * place <= 9 * Usable(n, r)
  PROVE  /\ FirstCells(q, r) = place
         /\ Applied(n, r, delta) = delta
         /\ Gutter(q, r) = Gutter(n, r) + delta
  <1>1. r.rows \in Nat /\ r.cols \in Nat
    BY DEF Rectangles
  <1> DEFINE cells == IF n.dir = "Vertical" THEN r.cols ELSE r.rows
             usable == Usable(n, r)
  <1>2. cells \in Nat
    BY <1>1
  <1>3. /\ FirstCells(n, r) = Divided(cells, n.ratio).first
        /\ FirstCells(q, r) = Divided(cells, q.ratio).first
        /\ usable = Larger(0, cells - 1)
    BY <1>1 DEF FirstCells, Usable, FirstRect, Rect
  <1>4. FirstCells(n, r) \in Nat
    BY <1>2, <1>3, DividedIs
  <1> HIDE DEF cells
  <1>5. usable = cells - 1 /\ usable \in Nat /\ usable >= 2 * MinPaneCells
    BY <1>2, <1>3 DEF Larger, MinPaneCells
  <1>6. Within(place, MinPaneCells, usable - MinPaneCells) = place
    BY <1>5 DEF Within, MinPaneCells
  <1>7. q.ratio = Ratio(place, usable)
    BY <1>5, <1>6 DEF Dragged, MinPaneCells
  <1>8. Share(usable, q.ratio) = place
    BY <1>5, <1>7, CellsOfRatio DEF MinPaneCells
  <1>9. FirstCells(q, r) = place
    BY <1>2, <1>3, <1>5, <1>8 DEF Divided, MinPaneCells
  <1>10. Applied(n, r, delta) = place - FirstCells(n, r)
    BY <1>5, <1>8 DEF Applied, MinPaneCells
  <1>11. Applied(n, r, delta) = delta
    BY <1>4, <1>10
  <1> QED
    BY <1>9, <1>11, DragKeepsItsBorder

-----------------------------------------------------------------------------
LEMMA QuotientSign ==
  ASSUME NEW a \in Int, NEW b \in Nat, b > 0
  PROVE  /\ a \div b \in Int
         /\ a >= 0 => a \div b >= 0
         /\ a < b => a \div b <= 0
  OBVIOUS

LEMMA AdjustedIs ==
  ASSUME NEW ratio \in Ratios, NEW delta \in Int, NEW cells \in Nat, cells > 0
  PROVE  /\ Adjusted(ratio, delta, cells) \in Ratios
         /\ delta > 0 => Adjusted(ratio, delta, cells) >= ratio
         /\ delta < 0 => Adjusted(ratio, delta, cells) <= ratio
  <1> DEFINE a == 2000 * delta + cells
             d == a \div (2 * cells)
  <1>1. a \in Int /\ 2 * cells \in Nat /\ 2 * cells > 0
    OBVIOUS
  <1>2. /\ delta > 0 => a >= 0
        /\ delta < 0 => a < 2 * cells
    OBVIOUS
  <1>3. Adjusted(ratio, delta, cells) = Within(ratio + d, 100, 900)
    BY DEF Adjusted
  <1> HIDE DEF a
  <1>4. d \in Int /\ (a >= 0 => d >= 0) /\ (a < 2 * cells => d <= 0)
    BY <1>1, QuotientSign
  <1> HIDE DEF d
  <1> QED
    BY <1>2, <1>3, <1>4 DEF Within, Ratios

LEMMA ShareGrows ==
  ASSUME NEW n \in Nat, n >= 2, NEW p \in Int, NEW q \in Int, p <= q
  PROVE  Share(n - 1, p) <= Share(n - 1, q)
  <1> DEFINE x == (n - 1) * p
             y == (n - 1) * q
  <1>1. x \in Int /\ y \in Int
    OBVIOUS
  <1>2. x <= y
    OBVIOUS
  <1>3. /\ Share(n - 1, p) = Within((x + 500) \div 1000, 1, Larger(n - 1 - 1, 1))
        /\ Share(n - 1, q) = Within((y + 500) \div 1000, 1, Larger(n - 1 - 1, 1))
    BY DEF Share
  <1> HIDE DEF x, y
  <1>4. (x + 500) \div 1000 <= (y + 500) \div 1000
    BY <1>1, <1>2
  <1>5. (x + 500) \div 1000 \in Int /\ (y + 500) \div 1000 \in Int
    BY <1>1
  <1> QED
    BY <1>3, <1>4, <1>5 DEF Within, Larger

(* A resize never moves a border against the direction that was asked for, *)
(* whatever its ratio, the number of cells asked for and the room there is;*)
(* and what one side gains the other loses (Ratio::adjust, resize_in).     *)
THEOREM ResizeKeepsDirection ==
  ASSUME NEW n \in Nat, NEW ratio \in Ratios, NEW delta \in Int,
         NEW cells \in Nat, cells > 0
  PROVE  LET before == Divided(n, ratio)
             after  == Divided(n, Adjusted(ratio, delta, cells))
         IN  /\ delta > 0 => after.first >= before.first /\ after.second <= before.second
             /\ delta < 0 => after.first <= before.first /\ after.second >= before.second
  <1> DEFINE q == Adjusted(ratio, delta, cells)
  <1>4. q \in Ratios
    BY AdjustedIs
  <1>5. delta > 0 => q >= ratio
    BY AdjustedIs
  <1>6. delta < 0 => q <= ratio
    BY AdjustedIs
  <1> HIDE DEF q
  <1>1. q \in Int /\ ratio \in Int /\ (delta > 0 => q >= ratio) /\ (delta < 0 => q <= ratio)
    BY <1>4, <1>5, <1>6 DEF Ratios
  <1>2. CASE n >= 2
    <2>1. /\ Divided(n, ratio) = [first |-> Share(n - 1, ratio),
               second |-> n - 1 - Share(n - 1, ratio), at |-> Share(n - 1, ratio) + 1]
          /\ Divided(n, q) = [first |-> Share(n - 1, q),
               second |-> n - 1 - Share(n - 1, q), at |-> Share(n - 1, q) + 1]
      BY <1>2 DEF Divided
    <2>2. Share(n - 1, ratio) \in Int /\ Share(n - 1, q) \in Int
      <3>1. Divided(n, ratio).first \in Nat /\ Divided(n, q).first \in Nat
        BY <1>1, DividedIs
      <3> QED
        BY <2>1, <3>1
    <2>3. /\ delta > 0 => Share(n - 1, q) >= Share(n - 1, ratio)
          /\ delta < 0 => Share(n - 1, q) <= Share(n - 1, ratio)
      BY <1>1, <1>2, ShareGrows
    <2>4. /\ Divided(n, ratio).first = Share(n - 1, ratio)
          /\ Divided(n, ratio).second = n - 1 - Share(n - 1, ratio)
          /\ Divided(n, q).first = Share(n - 1, q)
          /\ Divided(n, q).second = n - 1 - Share(n - 1, q)
      BY <2>1
    <2> QED
      BY <2>2, <2>3, <2>4 DEF q
  <1>3. CASE n < 2
    <2>1. Divided(n, ratio) = Divided(n, q) /\ Divided(n, q).first = n /\ Divided(n, q).second = 0
      BY <1>3 DEF Divided
    <2> QED
      BY <2>1 DEF q
  <1> QED
    BY <1>2, <1>3
-----------------------------------------------------------------------------
(* The operations on trees.                                                *)

(* Another ratio at one split, the same for all panes below it.            *)
Rerated(t, u, p, k, ratio) ==
  /\ DOMAIN u = DOMAIN t
  /\ \A q \in DOMAIN t :
       /\ u[q] \in Seq(Turns) /\ Len(u[q]) = Len(t[q])
       /\ \A i \in 1 .. Len(t[q]) :
            u[q][i] = IF i = k /\ Under(t[p], k, t[q])
                        THEN Turn(t[q][i].dir, ratio, t[q][i].turn) ELSE t[q][i]

LEMMA WithRatioIs ==
  ASSUME NEW t, IsTree(t), NEW p \in DOMAIN t, NEW k \in 1 .. Len(t[p]), NEW ratio \in Ratios
  PROVE  Rerated(t, WithRatio(t, p, k, ratio), p, k, ratio)
  <1> DEFINE u == WithRatio(t, p, k, ratio)
  <1>1. DOMAIN u = DOMAIN t
    BY DEF WithRatio
  <1>2. ASSUME NEW q \in DOMAIN t
        PROVE  /\ u[q] \in Seq(Turns) /\ Len(u[q]) = Len(t[q])
               /\ \A i \in 1 .. Len(t[q]) :
                    u[q][i] = IF i = k /\ Under(t[p], k, t[q])
                                THEN Turn(t[q][i].dir, ratio, t[q][i].turn) ELSE t[q][i]
    <2> DEFINE s == t[q]
               n == Len(s)
               v == [i \in 1 .. n |-> IF i = k THEN Turn(s[i].dir, ratio, s[i].turn) ELSE s[i]]
    <2>1. s \in Seq(Turns)
      BY DEF IsTree
    <2> HIDE DEF s
    <2>2. n \in Nat /\ s \in [1 .. n -> Turns]
      BY <2>1, LenProperties
    <2>3. u[q] = IF Under(t[p], k, s) THEN [s EXCEPT ![k].ratio = ratio] ELSE s
      BY DEF WithRatio, s
    <2>4. CASE Under(t[p], k, s)
      <3>1. k \in 1 .. n
        BY <2>4 DEF Under
      <3> HIDE DEF n
      <3>2. s[k] = [dir |-> s[k].dir, ratio |-> s[k].ratio, turn |-> s[k].turn]
        BY <2>2, <3>1 DEF Turns
      <3> DEFINE x == Turn(s[k].dir, ratio, s[k].turn)
      <3>7. [s[k] EXCEPT !.ratio = ratio] = x
        BY <3>2 DEF Turn
      <3>8. [s EXCEPT ![k].ratio = ratio] = [s EXCEPT ![k] = x]
        BY <3>7
      <3>3. [s EXCEPT ![k].ratio = ratio] = v
        <4> HIDE DEF x
        <4>1. [s EXCEPT ![k] = x] = [i \in 1 .. n |-> IF i = k THEN x ELSE s[i]]
          BY <2>2, <3>1
        <4>2. [i \in 1 .. n |-> IF i = k THEN x ELSE s[i]] = v
          BY <2>2 DEF x
        <4> QED
          BY <3>8, <4>1, <4>2
      <3>4. \A i \in 1 .. n : v[i] \in Turns
        BY <2>2 DEF Turn, Turns
      <3>5. v \in [1 .. n -> Turns]
        BY <3>4
      <3>6. v \in Seq(Turns) /\ Len(v) = n
        <4> HIDE DEF v
        <4> QED
          BY <2>2, <3>5
      <3> QED
        BY <2>3, <2>4, <3>3, <3>6 DEF s, n
    <2>5. CASE ~Under(t[p], k, s)
      BY <2>1, <2>3, <2>5 DEF s
    <2> QED
      BY <2>4, <2>5
  <1> QED
    BY <1>1, <1>2 DEF Rerated

(* A tree, but for the names of its panes.                                 *)
IsShape(t) ==
  /\ DOMAIN t # {}
  /\ \A p \in DOMAIN t : t[p] \in Seq(Turns)
  /\ \A p, q \in DOMAIN t : p # q => \E k \in 1 .. Len(t[p]) : Part(t[p], t[q], k)
  /\ \A p \in DOMAIN t : \A k \in 1 .. Len(t[p]) : \E q \in DOMAIN t : Part(t[p], t[q], k)

LEMMA TreeIsShape ==
  ASSUME NEW t
  PROVE  IsTree(t) <=> IsShape(t) /\ IsFiniteSet(DOMAIN t) /\ DOMAIN t \subseteq Panes
  BY DEF IsTree, IsShape

LEMMA TreeWithRatio ==
  ASSUME NEW t, IsTree(t), NEW p \in DOMAIN t, NEW k \in 1 .. Len(t[p]), NEW ratio \in Ratios
  PROVE  IsTree(WithRatio(t, p, k, ratio))
  <1> DEFINE u == WithRatio(t, p, k, ratio)
             w == t[p]
             at(q) == Under(w, k, t[q])
  <1>1. /\ DOMAIN u = DOMAIN t
        /\ \A q \in DOMAIN t :
             /\ u[q] \in Seq(Turns) /\ Len(u[q]) = Len(t[q])
             /\ \A i \in 1 .. Len(t[q]) :
                  u[q][i] = IF i = k /\ at(q)
                              THEN Turn(t[q][i].dir, ratio, t[q][i].turn) ELSE t[q][i]
    <2>1. Rerated(t, u, p, k, ratio)
      BY WithRatioIs
    <2> QED
      BY <2>1 DEF Rerated
  <1>2. \A q \in DOMAIN t : t[q] \in Seq(Turns)
    BY DEF IsTree
  <1> HIDE DEF u
  <1>3. k \in Nat
    BY <1>2, LenProperties
  <1>4. ASSUME NEW q \in DOMAIN t, NEW x \in DOMAIN t, NEW j, Part(t[q], t[x], j)
        PROVE  Part(u[q], u[x], j)
    <2> HIDE DEF w
    <2>1. t[q] \in Seq(Turns) /\ t[x] \in Seq(Turns)
      BY <1>2
    <2>2. /\ j \in Nat /\ j >= 1 /\ j <= Len(t[q]) /\ j <= Len(t[x])
          /\ t[q][j] \in Turns /\ t[x][j] = Other(t[q][j]) /\ Agree(t[q], t[x], j - 1)
      BY <1>4, <2>1, PartIs
    <2>3. Len(t[q]) \in Nat /\ Len(t[x]) \in Nat /\ j \in 1 .. Len(t[q]) /\ j \in 1 .. Len(t[x])
      BY <2>1, <2>2, LenProperties
    <2>4. \A i \in 1 .. j - 1 : t[q][i] = t[x][i] /\ i \in 1 .. Len(t[q]) /\ i \in 1 .. Len(t[x])
      BY <2>2, <2>3 DEF Agree
    <2>5. k <= j => (at(q) <=> at(x))
      <3>1. SUFFICES ASSUME k <= j PROVE at(q) <=> at(x)
        OBVIOUS
      <3>2. (k \in 1 .. Len(t[q])) <=> (k \in 1 .. Len(t[x]))
        BY <1>3, <2>2, <2>3, <3>1
      <3>3. \A i \in 1 .. k - 1 : t[q][i] = t[x][i]
        BY <1>3, <2>2, <2>4, <3>1
      <3> QED
        BY <3>2, <3>3 DEF Under, Agree
    <2>6. Agree(u[q], u[x], j - 1)
      <3>1. ASSUME NEW i \in 1 .. j - 1 PROVE u[q][i] = u[x][i]
        <4>1. t[q][i] = t[x][i] /\ i \in 1 .. Len(t[q]) /\ i \in 1 .. Len(t[x])
          BY <2>4
        <4>2. i = k => (at(q) <=> at(x))
          BY <2>2, <2>5
        <4> HIDE DEF at
        <4> QED
          BY <1>1, <4>1, <4>2
      <3> QED
        BY <3>1 DEF Agree
    <2>7. u[x][j] = Other(u[q][j])
      <3>1. j = k => (at(q) <=> at(x))
        BY <2>2, <2>5
      <3> HIDE DEF at
      <3>2. /\ u[q][j] = IF j = k /\ at(q) THEN Turn(t[q][j].dir, ratio, t[q][j].turn) ELSE t[q][j]
            /\ u[x][j] = IF j = k /\ at(x) THEN Turn(t[x][j].dir, ratio, t[x][j].turn) ELSE t[x][j]
        BY <1>1, <2>3
      <3>3. CASE j = k /\ at(q)
        <4>1. Other(t[q][j]).dir = t[q][j].dir
          BY <2>2, TurnIs
        <4>2. Other(t[q][j]).turn = IF t[q][j].turn = "first" THEN "second" ELSE "first"
          BY <2>2 DEF Other, Turns
        <4>3. u[q][j] = Turn(t[q][j].dir, ratio, t[q][j].turn)
          BY <3>2, <3>3
        <4>4. u[x][j] = Turn(t[q][j].dir, ratio, Other(t[q][j]).turn)
          BY <2>2, <3>1, <3>2, <3>3, <4>1
        <4> QED
          BY <4>2, <4>3, <4>4 DEF Turn, Other
      <3>4. CASE ~ (j = k /\ at(q))
        BY <2>2, <3>1, <3>2, <3>4
      <3> QED
        BY <3>3, <3>4
    <2> QED
      BY <1>1, <2>3, <2>6, <2>7 DEF Part
  <1> HIDE DEF at, w
  <1>5. \A q, x \in DOMAIN t : q # x => \E j \in 1 .. Len(u[q]) : Part(u[q], u[x], j)
    BY <1>1, <1>4 DEF IsTree
  <1>6. \A q \in DOMAIN t : \A j \in 1 .. Len(u[q]) : \E x \in DOMAIN t : Part(u[q], u[x], j)
    BY <1>1, <1>4 DEF IsTree
  <1>7. \A q \in DOMAIN t : u[q] \in Seq(Turns)
    BY <1>1
  <1>8. IsTree(u)
    BY <1>1, <1>5, <1>6, <1>7 DEF IsTree
  <1> QED
    BY <1>8 DEF u

(* The nearest split of an axis, if there is one, and the ratio a resize   *)
(* gives it.                                                               *)
LEMMA NearestIs ==
  ASSUME NEW s \in Seq(Turns), NEW axis, OnAxis(s, axis) # {}
  PROVE  \E k \in Nearest(s, axis) : TRUE
  <1> DEFINE n == Len(s)
             K == OnAxis(s, axis)
             T == {i \in Nat : n - i \in K}
  <1>1. n \in Nat
    BY LenProperties
  <1>2. K \subseteq 1 .. n /\ K # {}
    BY DEF OnAxis
  <1> HIDE DEF K, n
  <1>3. T \subseteq Nat
    OBVIOUS
  <1>4. \A k \in K : n - k \in T
    BY <1>1, <1>2
  <1>5. T # {}
    BY <1>2, <1>4
  <1>6. PICK m \in T : \A i \in T : m <= i
    BY <1>3, <1>5, LeastNumber
  <1>7. n - m \in K /\ m \in Nat
    BY <1>6
  <1>8. ASSUME NEW k \in K PROVE k <= n - m
    <2>1. m <= n - k /\ k \in Nat
      BY <1>2, <1>4, <1>6
    <2> QED
      BY <1>1, <1>7, <2>1
  <1>9. n - m \in Nearest(s, axis)
    BY <1>7, <1>8 DEF Nearest, K
  <1> QED
    BY <1>9

LEMMA LargerIs ==
  ASSUME NEW i \in Int
  PROVE  Larger(1, i) \in Nat /\ Larger(1, i) > 0 /\ Larger(0, i) \in Nat
  BY DEF Larger

LEMMA ResizedIs ==
  ASSUME Whole \in Rectangles, NEW s \in Seq(Turns), NEW k \in 1 .. Len(s), NEW delta \in Int
  PROVE  Resized(s, k, delta) \in Ratios
  <1> DEFINE r == SplitRect(s, k)
             x == (IF s[k].dir = "Horizontal" THEN r.rows ELSE r.cols) - 1
             d == IF s[k].turn = "first" THEN delta ELSE -delta
  <1>1. r \in Rectangles
    <2>1. PICK a : OnWay(a, Whole, s)
      BY DescendedIs
    <2> QED
      BY <2>1, SplitRectIs DEF SplitRect
  <1>2. r.rows \in Nat /\ r.cols \in Nat
    BY <1>1 DEF Rectangles
  <1>3. x \in Int /\ d \in Int
    BY <1>2
  <1>4. s[k].ratio \in Ratios
    <2>1. s[k] \in Turns
      BY LenProperties
    <2> QED
      BY <2>1, TurnIs
  <1>5. Resized(s, k, delta) = Adjusted(s[k].ratio, d, Larger(1, x))
    BY DEF Resized
  <1> HIDE DEF r, x, d
  <1>6. Larger(1, x) \in Nat /\ Larger(1, x) > 0
    BY <1>3, LargerIs
  <1>7. Adjusted(s[k].ratio, d, Larger(1, x)) \in Ratios
    BY <1>3, <1>4, <1>6, AdjustedIs
  <1> QED
    BY <1>5, <1>7

LEMMA ResizeInIs ==
  ASSUME NEW t, IsTree(t), NEW p \in DOMAIN t, NEW axis, NEW delta \in Int
  PROVE  \/ OnAxis(t[p], axis) = {} /\ ResizeIn(t, p, axis, delta) = t
         \/ \E k \in Nearest(t[p], axis) :
              /\ k \in 1 .. Len(t[p])
              /\ ResizeIn(t, p, axis, delta) = WithRatio(t, p, k, Resized(t[p], k, delta))
  <1>1. CASE OnAxis(t[p], axis) = {}
    BY <1>1 DEF ResizeIn
  <1>2. CASE OnAxis(t[p], axis) # {}
    <2> DEFINE k == CHOOSE k \in Nearest(t[p], axis) : TRUE
    <2>1. t[p] \in Seq(Turns)
      BY DEF IsTree
    <2>2. k \in Nearest(t[p], axis)
      BY <1>2, <2>1, NearestIs
    <2>3. k \in 1 .. Len(t[p])
      BY <2>2 DEF Nearest, OnAxis
    <2>4. ResizeIn(t, p, axis, delta) = WithRatio(t, p, k, Resized(t[p], k, delta))
      BY <1>2 DEF ResizeIn
    <2> HIDE DEF k
    <2> QED
      BY <2>2, <2>3, <2>4
  <1> QED
    BY <1>1, <1>2

LEMMA TreeResized ==
  ASSUME Whole \in Rectangles, NEW t, IsTree(t), NEW p \in DOMAIN t, NEW axis, NEW delta \in Int
  PROVE  IsTree(ResizeIn(t, p, axis, delta))
  <1>1. t[p] \in Seq(Turns)
    BY DEF IsTree
  <1>2. CASE ResizeIn(t, p, axis, delta) = t
    BY <1>2
  <1>3. ASSUME NEW k \in 1 .. Len(t[p]),
               ResizeIn(t, p, axis, delta) = WithRatio(t, p, k, Resized(t[p], k, delta))
        PROVE  IsTree(ResizeIn(t, p, axis, delta))
    <2>1. Resized(t[p], k, delta) \in Ratios
      BY <1>1, ResizedIs
    <2> QED
      BY <1>3, <2>1, TreeWithRatio
  <1> QED
    BY <1>2, <1>3, ResizeInIs

LEMMA DraggedIs ==
  ASSUME NEW r \in Rectangles, NEW n \in Turns, NEW delta \in Int
  PROVE  Dragged(n, r, delta) \in Ratios /\ Applied(n, r, delta) \in Int
  <1> DEFINE u == Usable(n, r)
             f == FirstCells(n, r)
             w == Within(f + delta, MinPaneCells, u - MinPaneCells)
             q == (w * 1000 + u \div 2) \div u
             g == Dragged(n, r, delta)
  <1>1. n.ratio \in Ratios /\ n.ratio \in Int /\ r.rows \in Nat /\ r.cols \in Nat
    BY TurnIs DEF Rectangles
  <1>2. u \in Nat
    BY <1>1, LargerIs DEF Usable
  <1>3. f \in Nat
    <2>1. FirstRect(r, n) \in Rectangles
      <3>1. n.dir \in {"Horizontal", "Vertical"} /\ 0 \in Int
        BY TurnIs
      <3> QED
        BY <1>1, <3>1, ChildrenAre
    <2> QED
      BY <2>1 DEF FirstCells, Rectangles
  <1> HIDE DEF u, f
  <1>4. CASE u < 2 * MinPaneCells
    BY <1>1, <1>4 DEF Dragged, Applied, u
  <1>5. CASE ~ (u < 2 * MinPaneCells)
    <2>1. w \in Nat /\ u > 0
      BY <1>2, <1>3, <1>5 DEF Within, MinPaneCells
    <2>2. g = Within(q, 100, 900)
      BY <1>5 DEF Dragged, Ratio, u, f
    <2> HIDE DEF w
    <2>3. u \div 2 \in Nat
      BY <1>2
    <2>4. w * 1000 + u \div 2 \in Int
      BY <2>1, <2>3
    <2>5. q \in Int
      BY <1>2, <2>1, <2>4, QuotientIs
    <2> HIDE DEF q, g
    <2>6. g \in Ratios
      BY <2>2, <2>5 DEF Within, Ratios
    <2>7. Applied(n, r, delta) = Within((u * g + 500) \div 1000, 1, Larger(u - 1, 1)) - f
      BY <1>5 DEF Applied, Share, u, f, g
    <2>8. u * g \in Int
      BY <1>2, <2>6 DEF Ratios
    <2>9. (u * g + 500) \div 1000 \in Int
      BY <2>8
    <2>10. Applied(n, r, delta) \in Int
      BY <1>2, <1>3, <2>7, <2>9 DEF Within, Larger
    <2> QED
      BY <2>6, <2>10 DEF g
  <1> QED
    BY <1>4, <1>5

(* Other names for the panes.                                              *)
LEMMA Relabelled ==
  ASSUME NEW t, IsShape(t), NEW D, NEW f \in [D -> DOMAIN t],
         \A x, y \in D : f[x] = f[y] => x = y,
         \A p \in DOMAIN t : \E x \in D : f[x] = p
  PROVE  IsShape([x \in D |-> t[f[x]]])
  <1> DEFINE u == [x \in D |-> t[f[x]]]
  <1>1. DOMAIN u = D /\ \A x \in D : u[x] = t[f[x]] /\ f[x] \in DOMAIN t
    OBVIOUS
  <1> HIDE DEF u
  <1>2. D # {}
    BY DEF IsShape
  <1>3. \A x \in D : u[x] \in Seq(Turns)
    BY <1>1 DEF IsShape
  <1>4. \A x, y \in D : x # y => \E k \in 1 .. Len(u[x]) : Part(u[x], u[y], k)
    BY <1>1 DEF IsShape
  <1>5. \A x \in D : \A k \in 1 .. Len(u[x]) : \E y \in D : Part(u[x], u[y], k)
    <2>1. SUFFICES ASSUME NEW x \in D, NEW k \in 1 .. Len(u[x])
                   PROVE  \E y \in D : Part(u[x], u[y], k)
      OBVIOUS
    <2>2. PICK q \in DOMAIN t : Part(t[f[x]], t[q], k)
      BY <1>1 DEF IsShape
    <2>3. PICK y \in D : f[y] = q
      OBVIOUS
    <2> QED
      BY <1>1, <2>2, <2>3
  <1>6. IsShape(u)
    BY <1>1, <1>2, <1>3, <1>4, <1>5 DEF IsShape
  <1> QED
    BY <1>6 DEF u

LEMMA TreeSwapped ==
  ASSUME NEW t, IsTree(t), t = [x \in DOMAIN t |-> t[x]], NEW p \in DOMAIN t, NEW q \in DOMAIN t
  PROVE  IsTree(Swapped(t, p, q)) /\ DOMAIN Swapped(t, p, q) = DOMAIN t
  <1> DEFINE D == DOMAIN t
             f == [x \in D |-> IF x = p THEN q ELSE IF x = q THEN p ELSE x]
             u == [x \in D |-> t[f[x]]]
  <1>1. f \in [D -> D]
    OBVIOUS
  <1>2. \A x, y \in D : f[x] = f[y] => x = y
    OBVIOUS
  <1>3. \A x \in D : \E y \in D : f[y] = x
    <2>1. \A x \in D : f[f[x]] = x /\ f[x] \in D
      OBVIOUS
    <2> HIDE DEF f
    <2> QED
      BY <2>1
  <1>4. Swapped(t, p, q) = u
    BY DEF Swapped
  <1>5. IsFiniteSet(D) /\ D \subseteq Panes
    BY DEF IsTree
  <1> HIDE DEF f
  <1>7. IsShape(u)
    BY <1>1, <1>2, <1>3, TreeIsShape, Relabelled
  <1>6. IsTree(u)
    BY <1>5, <1>7, TreeIsShape
  <1> QED
    BY <1>4, <1>6

LEMMA TreeReplaced ==
  ASSUME NEW t, IsTree(t), NEW old \in DOMAIN t, NEW new \in Panes, new \notin DOMAIN t
  PROVE  IsTree(Replaced(t, old, new))
  <1> DEFINE D == (DOMAIN t \ {old}) \cup {new}
             f == [x \in D |-> IF x = new THEN old ELSE x]
             u == [x \in D |-> t[f[x]]]
  <1>1. f \in [D -> DOMAIN t]
    OBVIOUS
  <1>2. \A x, y \in D : f[x] = f[y] => x = y
    OBVIOUS
  <1>3. \A x \in DOMAIN t : \E y \in D : f[y] = x
    <2>1. SUFFICES ASSUME NEW x \in DOMAIN t PROVE \E y \in D : f[y] = x
      OBVIOUS
    <2>2. CASE x = old
      <3>1. new \in D /\ f[new] = x
        BY <2>2
      <3> QED
        BY <3>1
    <2>3. CASE x # old
      <3>1. x \in D /\ f[x] = x
        BY <2>3
      <3> QED
        BY <3>1
    <2> QED
      BY <2>2, <2>3
  <1>4. Replaced(t, old, new) = u
    BY DEF Replaced
  <1>5. IsFiniteSet(DOMAIN t) /\ DOMAIN t \subseteq Panes
    BY DEF IsTree
  <1>6. IsFiniteSet(D)
    BY <1>5, FS_RemoveElement, FS_AddElement
  <1>7. D \subseteq Panes
    BY <1>5
  <1> HIDE DEF f, D
  <1>9. IsShape(u)
    BY <1>1, <1>2, <1>3, TreeIsShape, Relabelled
  <1>8. IsTree(u)
    BY <1>6, <1>7, <1>9, TreeIsShape
  <1> QED
    BY <1>4, <1>8

LEMMA TreeLeaf ==
  ASSUME NEW p \in Panes
  PROVE  IsTree(Leaf(p)) /\ DOMAIN Leaf(p) = {p}
  <1>1. DOMAIN Leaf(p) = {p} /\ Leaf(p)[p] = <<>>
    BY DEF Leaf
  <1>2. <<>> \in Seq(Turns) /\ Len(<<>>) = 0
    OBVIOUS
  <1>3. IsFiniteSet({p})
    BY FS_Singleton
  <1> QED
    BY <1>1, <1>2, <1>3 DEF IsTree

(* Ways go on to part where they did.                                      *)
LEMMA PartOfLonger ==
  ASSUME NEW s \in Seq(Turns), NEW t \in Seq(Turns), NEW k, Part(s, t, k),
         NEW u \in Seq(Turns), NEW v \in Seq(Turns),
         Len(u) >= Len(s), \A i \in 1 .. Len(s) : u[i] = s[i],
         Len(v) >= Len(t), \A i \in 1 .. Len(t) : v[i] = t[i]
  PROVE  Part(u, v, k)
  <1>1. Len(s) \in Nat /\ Len(t) \in Nat /\ Len(u) \in Nat /\ Len(v) \in Nat
    BY LenProperties
  <1>2. k \in 1 .. Len(s) /\ k \in 1 .. Len(t) /\ Agree(s, t, k - 1) /\ t[k] = Other(s[k])
    BY DEF Part
  <1>3. k \in 1 .. Len(u) /\ k \in 1 .. Len(v)
    BY <1>1, <1>2
  <1>4. Agree(u, v, k - 1)
    <2>1. \A i \in 1 .. k - 1 : i \in 1 .. Len(s) /\ i \in 1 .. Len(t)
      BY <1>1, <1>2
    <2> QED
      BY <1>2, <2>1 DEF Agree
  <1>5. u[k] = s[k] /\ v[k] = t[k]
    BY <1>2
  <1> QED
    BY <1>2, <1>3, <1>4, <1>5 DEF Part

LEMMA AppendIs ==
  ASSUME NEW s \in Seq(Turns), NEW x \in Turns
  PROVE  /\ Append(s, x) \in Seq(Turns) /\ Len(Append(s, x)) = Len(s) + 1 /\ Len(s) \in Nat
         /\ \A i \in 1 .. Len(s) : Append(s, x)[i] = s[i]
         /\ Append(s, x)[Len(s) + 1] = x
  OBVIOUS

LEMMA TreeSplit ==
  ASSUME NEW t, IsTree(t), NEW target \in DOMAIN t, NEW dir \in Dirs,
         NEW p \in Panes, p \notin DOMAIN t, NEW position
  PROVE  IsTree(SplitIn(t, target, dir, p, position))
  <1> DEFINE D == DOMAIN t \cup {p}
             s == t[target]
             x == Turn(dir, 500, IF position = "Before" THEN "first" ELSE "second")
             w == Append(s, x)
             v == Append(s, Other(x))
             u == SplitIn(t, target, dir, p, position)
  <1>1. x \in Turns
    BY DEF Turn, Turns, Ratios
  <1>2. Other(x) \in Turns /\ Other(Other(x)) = x
    BY <1>1, TurnIs
  <1>3. \A q \in DOMAIN t : t[q] \in Seq(Turns)
    BY DEF IsTree
  <1>4. DOMAIN u = D /\ u[p] = w /\ u[target] = v /\ \A q \in DOMAIN t \ {target} : u[q] = t[q]
    BY DEF SplitIn
  <1> HIDE DEF u, x
  <1>5. s \in Seq(Turns)
    BY <1>3
  <1> HIDE DEF s
  <1>6. /\ w \in Seq(Turns) /\ Len(w) = Len(s) + 1 /\ Len(s) \in Nat
        /\ \A i \in 1 .. Len(s) : w[i] = s[i]
        /\ w[Len(s) + 1] = x
    BY <1>1, <1>5, AppendIs
  <1>7. /\ v \in Seq(Turns) /\ Len(v) = Len(s) + 1
        /\ \A i \in 1 .. Len(s) : v[i] = s[i]
        /\ v[Len(s) + 1] = Other(x)
    BY <1>2, <1>5, AppendIs
  <1> HIDE DEF w, v
  <1>8. Part(w, v, Len(s) + 1) /\ Part(v, w, Len(s) + 1)
    BY <1>2, <1>6, <1>7 DEF Part, Agree
  <1>9. \A q \in D : u[q] \in Seq(Turns)
    BY <1>3, <1>4, <1>6, <1>7
  (* Where the ways to two old panes part, the new ones do, and the way to *)
  (* the new pane parts from others where that to the target does.         *)
  <1>10. ASSUME NEW q \in DOMAIN t, NEW y \in DOMAIN t, NEW k, Part(t[q], t[y], k)
         PROVE  /\ Part(u[q], u[y], k)
                /\ q = target => Part(u[p], u[y], k)
                /\ y = target => Part(u[q], u[p], k)
    <2>1. q # y
      BY <1>3, <1>10, PartIs
    <2>2. CASE q = target
      <3>1. Part(s, t[y], k) /\ t[y] \in Seq(Turns) /\ Len(t[y]) >= Len(t[y]) /\ u[y] = t[y]
        BY <1>3, <1>4, <1>10, <2>1, <2>2, LenProperties DEF s
      <3>2. Len(w) >= Len(s) /\ Len(v) >= Len(s)
        BY <1>6, <1>7
      <3>3. Part(w, t[y], k)
        BY <1>5, <1>6, <3>1, <3>2, PartOfLonger
      <3>4. Part(v, t[y], k)
        BY <1>5, <1>7, <3>1, <3>2, PartOfLonger
      <3> QED
        BY <1>4, <2>1, <2>2, <3>1, <3>3, <3>4
    <2>3. CASE y = target
      <3>1. Part(t[q], s, k) /\ t[q] \in Seq(Turns) /\ Len(t[q]) >= Len(t[q]) /\ u[q] = t[q]
        BY <1>3, <1>4, <1>10, <2>1, <2>3, LenProperties DEF s
      <3>2. Len(w) >= Len(s) /\ Len(v) >= Len(s)
        BY <1>6, <1>7
      <3>3. Part(t[q], w, k)
        BY <1>5, <1>6, <3>1, <3>2, PartOfLonger
      <3>4. Part(t[q], v, k)
        BY <1>5, <1>7, <3>1, <3>2, PartOfLonger
      <3> QED
        BY <1>4, <2>1, <2>3, <3>1, <3>3, <3>4
    <2>4. CASE q # target /\ y # target
      BY <1>4, <1>10, <2>4
    <2> QED
      BY <2>2, <2>3, <2>4
  <1>11. ASSUME NEW q \in D, NEW y \in D, q # y
         PROVE  \E k \in 1 .. Len(u[q]) : Part(u[q], u[y], k)
    <2>1. SUFFICES \E k : Part(u[q], u[y], k)
      BY DEF Part
    <2>2. CASE (q = p /\ y = target) \/ (q = target /\ y = p)
      BY <1>4, <1>8, <2>2
    <2>3. CASE q = p /\ y # target
      <3>1. PICK k : Part(t[target], t[y], k)
        BY <1>11, <2>3 DEF IsTree
      <3> QED
        BY <1>10, <1>11, <2>3, <3>1
    <2>4. CASE y = p /\ q # target
      <3>1. PICK k : Part(t[q], t[target], k)
        BY <1>11, <2>4 DEF IsTree
      <3> QED
        BY <1>10, <1>11, <2>4, <3>1
    <2>5. CASE q # p /\ y # p
      <3>1. PICK k : Part(t[q], t[y], k)
        BY <1>11, <2>5 DEF IsTree
      <3> QED
        BY <1>10, <1>11, <2>5, <3>1
    <2> HIDE DEF D
    <2>6. CASE q = p
      BY <2>2, <2>3, <2>6
    <2>7. CASE q # p
      BY <2>2, <2>4, <2>5, <2>7
    <2> QED
      BY <2>6, <2>7
  <1>12. ASSUME NEW q \in D, NEW k \in 1 .. Len(u[q])
         PROVE  \E y \in D : Part(u[q], u[y], k)
    <2>1. CASE q \in DOMAIN t \ {target}
      <3>1. PICK y \in DOMAIN t : Part(t[q], t[y], k)
        BY <1>4, <1>12, <2>1 DEF IsTree
      <3> QED
        BY <1>10, <2>1, <3>1
    <2>2. CASE q \in {p, target} /\ k = Len(s) + 1
      BY <1>4, <1>8, <2>2
    <2>3. CASE q \in {p, target} /\ k # Len(s) + 1
      <3>1. k \in 1 .. Len(t[target])
        BY <1>4, <1>6, <1>7, <1>12, <2>3 DEF s
      <3>2. PICK y \in DOMAIN t : Part(t[target], t[y], k)
        BY <3>1 DEF IsTree
      <3> QED
        BY <1>10, <2>3, <3>2
    <2> QED
      BY <2>1, <2>2, <2>3
  <1>13. IsFiniteSet(D) /\ D \subseteq Panes /\ D # {}
    BY FS_AddElement DEF IsTree
  <1>14. IsTree(u)
    BY <1>4, <1>9, <1>11, <1>12, <1>13 DEF IsTree
  <1> QED
    BY <1>14 DEF u

LEMMA RemoveAtIs ==
  ASSUME NEW S, NEW s \in Seq(S), NEW k \in 1 .. Len(s)
  PROVE  /\ RemoveAt(s, k) \in Seq(S) /\ Len(RemoveAt(s, k)) = Len(s) - 1 /\ Len(s) \in Nat
         /\ \A i \in 1 .. k - 1 : RemoveAt(s, k)[i] = s[i]
         /\ \A i \in k .. Len(s) - 1 : RemoveAt(s, k)[i] = s[i + 1]
  <1> DEFINE a == SubSeq(s, 1, k - 1)
             b == SubSeq(s, k + 1, Len(s))
             n == Len(s)
  <1>1. n \in Nat /\ \A i \in 1 .. n : s[i] \in S
    BY LenProperties
  <1>2. k \in 1 .. n
    OBVIOUS
  <1>3. a = [i \in 1 .. k - 1 |-> s[i]] /\ b = [i \in 1 .. n - k |-> s[k + i]]
    BY <1>1, <1>2
  <1>4. a \in Seq(S) /\ Len(a) = k - 1
    BY <1>1, <1>2, <1>3
  <1>5. b \in Seq(S) /\ Len(b) = n - k
    BY <1>1, <1>2, <1>3
  <1>6. RemoveAt(s, k) = a \o b
    BY DEF RemoveAt
  <1> HIDE DEF a, b, n
  <1>7. a \o b \in Seq(S) /\ Len(a \o b) = n - 1
    BY <1>1, <1>2, <1>4, <1>5
  <1>8. \A i \in 1 .. k - 1 : (a \o b)[i] = s[i]
    BY <1>1, <1>2, <1>3, <1>4, <1>5
  <1>9. ASSUME NEW i \in k .. n - 1 PROVE (a \o b)[i] = s[i + 1]
    <2>1. i \in 1 .. Len(a) + Len(b) /\ i > Len(a) /\ i - Len(a) \in 1 .. n - k
      BY <1>1, <1>2, <1>4, <1>5
    <2>2. (a \o b)[i] = b[i - Len(a)]
      BY <1>4, <1>5, <2>1
    <2>3. k + (i - Len(a)) = i + 1
      BY <1>1, <1>2, <1>4, <2>1
    <2> QED
      BY <1>3, <2>1, <2>2, <2>3
  <1> QED
    BY <1>1, <1>6, <1>7, <1>8, <1>9 DEF n

(* What was beside the pane takes the place of the split: its ways lose the*)
(* split, and part from others where they did.                             *)
LEMMA TreeClosed ==
  ASSUME NEW t, IsTree(t), NEW target \in DOMAIN t, t[target] # <<>>
  PROVE  IsTree(CloseIn(t, target))
  <1> DEFINE D == DOMAIN t \ {target}
             w == t[target]
             n == Len(w)
             below(q) == Under(w, n, t[q])
             u == CloseIn(t, target)
  <1>1. \A q \in DOMAIN t : t[q] \in Seq(Turns) /\ Len(t[q]) \in Nat
    BY LenProperties DEF IsTree
  <1>2. w \in Seq(Turns) /\ n \in Nat /\ n >= 1
    BY <1>1, EmptySeq
  <1>3. DOMAIN u = D /\ \A q \in D : u[q] = IF below(q) THEN RemoveAt(t[q], n) ELSE t[q]
    BY DEF CloseIn
  <1>5. \A q \in DOMAIN t : below(q) <=> n <= Len(t[q]) /\ Agree(w, t[q], n - 1)
    BY <1>1, <1>2 DEF Under
  <1> HIDE DEF u
  <1>4. \A q \in DOMAIN t : q # target => \E k : Part(w, t[q], k)
    BY DEF IsTree
  <1>17. \E y \in DOMAIN t : Part(w, t[y], n)
    <2>1. n \in 1 .. n
      BY <1>2
    <2>2. \A k \in 1 .. Len(w) : \E y \in DOMAIN t : Part(w, t[y], k)
      BY DEF IsTree
    <2> QED
      BY <2>1, <2>2
  <1>6. ASSUME NEW q \in D, below(q)
        PROVE  /\ u[q] \in Seq(Turns) /\ Len(u[q]) = Len(t[q]) - 1
               /\ n <= Len(t[q]) /\ Part(w, t[q], n)
               /\ \A i \in 1 .. n - 1 : u[q][i] = t[q][i]
               /\ \A i \in n .. Len(t[q]) - 1 : u[q][i] = t[q][i + 1]
    <2>1. PICK k : Part(w, t[q], k)
      BY <1>4
    <2>2. k \in Nat /\ k >= 1 /\ k <= n /\ w[k] # t[q][k]
      BY <1>1, <1>2, <2>1, PartIs
    <2>3. n <= Len(t[q]) /\ Agree(w, t[q], n - 1)
      BY <1>5, <1>6
    <2>4. k = n
      <3>1. SUFFICES ASSUME k # n PROVE FALSE
        OBVIOUS
      <3>2. k \in 1 .. n - 1
        BY <1>2, <2>2, <3>1
      <3> QED
        BY <2>2, <2>3, <3>2 DEF Agree
    <2>5. n \in 1 .. Len(t[q]) /\ u[q] = RemoveAt(t[q], n)
      BY <1>1, <1>2, <1>3, <1>6, <2>3
    <2>6. t[q] \in Seq(Turns)
      BY <1>1
    <2> HIDE DEF n
    <2>7. /\ u[q] \in Seq(Turns) /\ Len(u[q]) = Len(t[q]) - 1
          /\ \A i \in 1 .. n - 1 : u[q][i] = t[q][i]
          /\ \A i \in n .. Len(t[q]) - 1 : u[q][i] = t[q][i + 1]
      BY <2>5, <2>6, RemoveAtIs
    <2> QED
      BY <2>1, <2>3, <2>4, <2>7
  <1>7. \A q \in D : ~below(q) => u[q] = t[q]
    BY <1>3
  <1>8. \A q \in DOMAIN t : q = target => below(q)
    BY <1>2 DEF Under, Agree
  <1> HIDE DEF below
  (* Ways that part beyond the split both go through it.                   *)
  <1>9. ASSUME NEW q \in DOMAIN t, NEW x \in DOMAIN t, NEW j, Part(t[q], t[x], j), j >= n
        PROVE  below(q) <=> below(x)
    <2>1. j \in Nat /\ j <= Len(t[q]) /\ j <= Len(t[x]) /\ Agree(t[q], t[x], j - 1)
      BY <1>1, <1>9, PartIs
    <2>2. n <= Len(t[q]) /\ n <= Len(t[x])
      BY <1>1, <1>2, <1>9, <2>1
    <2>3. \A i \in 1 .. n - 1 : t[q][i] = t[x][i]
      BY <1>2, <1>9, <2>1 DEF Agree
    <2>4. Agree(w, t[q], n - 1) <=> Agree(w, t[x], n - 1)
      BY <2>3 DEF Agree
    <2> QED
      BY <1>5, <2>2, <2>4
  <1>10. ASSUME NEW q \in D, NEW x \in D, NEW j, Part(t[q], t[x], j)
         PROVE  /\ below(q) => j # n
                /\ Part(u[q], u[x], IF below(q) /\ j > n THEN j - 1 ELSE j)
    <2>1. Len(t[q]) \in Nat /\ Len(t[x]) \in Nat /\ t[q] \in Seq(Turns) /\ t[x] \in Seq(Turns)
      BY <1>1
    <2>2. /\ j \in Nat /\ j >= 1 /\ j <= Len(t[q]) /\ j <= Len(t[x])
          /\ t[x][j] = Other(t[q][j]) /\ Agree(t[q], t[x], j - 1) /\ t[q][j] # t[x][j]
      BY <1>10, <2>1, PartIs
    <2>3. \A i \in 1 .. j - 1 : t[q][i] = t[x][i]
      BY <2>2 DEF Agree
    <2>4. CASE j < n
      <3>1. j <= Len(u[q]) /\ u[q] \in Seq(Turns) /\ \A i \in 1 .. j : u[q][i] = t[q][i]
        <4>1. CASE below(q)
          BY <1>2, <1>6, <2>1, <2>2, <2>4, <4>1
        <4>2. CASE ~below(q)
          BY <1>7, <2>1, <2>2, <4>2
        <4> QED
          BY <4>1, <4>2
      <3>2. j <= Len(u[x]) /\ u[x] \in Seq(Turns) /\ \A i \in 1 .. j : u[x][i] = t[x][i]
        <4>1. CASE below(x)
          BY <1>2, <1>6, <2>1, <2>2, <2>4, <4>1
        <4>2. CASE ~below(x)
          BY <1>7, <2>1, <2>2, <4>2
        <4> QED
          BY <4>1, <4>2
      <3>3. j \in 1 .. Len(u[q]) /\ j \in 1 .. Len(u[x])
        BY <2>2, <3>1, <3>2, LenProperties
      <3>4. Agree(u[q], u[x], j - 1)
        <4>1. \A i \in 1 .. j - 1 : i \in 1 .. j
          BY <2>2
        <4> QED
          BY <2>3, <3>1, <3>2, <4>1 DEF Agree
      <3>5. u[x][j] = Other(u[q][j])
        BY <2>2, <3>1, <3>2
      <3>6. Part(u[q], u[x], j)
        BY <3>3, <3>4, <3>5 DEF Part
      <3> QED
        BY <1>2, <2>2, <2>4, <3>6
    <2>5. CASE j >= n /\ ~below(q)
      BY <1>7, <1>9, <1>10, <2>5
    <2>6. CASE j >= n /\ below(q)
      <3>1. below(x)
        BY <1>9, <1>10, <2>6
      <3>2. /\ u[q] \in Seq(Turns) /\ Len(u[q]) = Len(t[q]) - 1
            /\ \A i \in 1 .. n - 1 : u[q][i] = t[q][i]
            /\ \A i \in n .. Len(t[q]) - 1 : u[q][i] = t[q][i + 1]
        BY <1>6, <2>6
      <3>3. /\ u[x] \in Seq(Turns) /\ Len(u[x]) = Len(t[x]) - 1
            /\ \A i \in 1 .. n - 1 : u[x][i] = t[x][i]
            /\ \A i \in n .. Len(t[x]) - 1 : u[x][i] = t[x][i + 1]
        BY <1>6, <3>1
      <3>4. t[q][n] = Other(w[n]) /\ t[x][n] = Other(w[n])
        BY <1>6, <2>6, <3>1 DEF Part
      <3>5. j > n
        BY <1>2, <2>2, <2>6, <3>4
      <3>6. j - 1 \in 1 .. Len(u[q]) /\ j - 1 \in 1 .. Len(u[x])
        BY <1>2, <2>1, <2>2, <3>2, <3>3, <3>5
      <3>7. ASSUME NEW i \in 1 .. j - 2 PROVE u[q][i] = u[x][i]
        <4>1. CASE i < n
          <5>1. i \in 1 .. n - 1 /\ i \in 1 .. j - 1
            BY <1>2, <2>2, <4>1
          <5> QED
            BY <2>3, <3>2, <3>3, <5>1
        <4>2. CASE i >= n
          <5>1. i \in n .. Len(t[q]) - 1 /\ i \in n .. Len(t[x]) - 1 /\ i + 1 \in 1 .. j - 1
            BY <1>2, <2>1, <2>2, <4>2
          <5> QED
            BY <2>3, <3>2, <3>3, <5>1
        <4> QED
          BY <1>2, <4>1, <4>2
      <3>8. u[q][j - 1] = t[q][j] /\ u[x][j - 1] = t[x][j]
        <4>1. /\ j - 1 \in n .. Len(t[q]) - 1 /\ j - 1 \in n .. Len(t[x]) - 1
              /\ (j - 1) + 1 = j /\ (j - 1) - 1 = j - 2
          BY <1>2, <2>1, <2>2, <3>5
        <4> QED
          BY <3>2, <3>3, <4>1
      <3>9. Part(u[q], u[x], j - 1)
        <4>1. (j - 1) - 1 = j - 2
          BY <2>2
        <4>2. Agree(u[q], u[x], (j - 1) - 1)
          BY <3>7, <4>1 DEF Agree
        <4> QED
          BY <2>2, <3>6, <3>8, <4>2 DEF Part
      <3> QED
        BY <1>2, <2>2, <2>6, <3>5, <3>9
    <2> QED
      BY <1>2, <2>2, <2>4, <2>5, <2>6
  <1>11. \A q \in D : u[q] \in Seq(Turns)
    BY <1>1, <1>6, <1>7
  <1>12. ASSUME NEW q \in D, NEW x \in D, q # x
         PROVE  \E k \in 1 .. Len(u[q]) : Part(u[q], u[x], k)
    <2>1. PICK j : Part(t[q], t[x], j)
      BY <1>12 DEF IsTree
    <2>2. \E k : Part(u[q], u[x], k)
      BY <1>10, <2>1
    <2> QED
      BY <2>2 DEF Part
  <1>13. ASSUME NEW q \in D, NEW k \in 1 .. Len(u[q])
         PROVE  \E x \in D : Part(u[q], u[x], k)
    <2>1. t[q] \in Seq(Turns) /\ Len(t[q]) \in Nat
      BY <1>1
    <2>2. CASE below(q)
      <3> DEFINE j == IF k < n THEN k ELSE k + 1
      <3>1. Len(u[q]) = Len(t[q]) - 1 /\ Part(w, t[q], n)
        BY <1>6, <2>2
      <3>2. j \in 1 .. Len(t[q]) /\ j # n /\ k = (IF j > n THEN j - 1 ELSE j) /\ j \in Nat
        BY <1>2, <2>1, <3>1
      <3> HIDE DEF j
      <3>3. PICK x \in DOMAIN t : Part(t[q], t[x], j)
        BY <3>2 DEF IsTree
      <3>4. x # target
        <4>1. SUFFICES ASSUME x = target PROVE FALSE
          OBVIOUS
        <4>2. Part(t[q], w, j)
          BY <3>3, <4>1
        <4>3. j <= n /\ t[q][j] # w[j]
          BY <1>2, <2>1, <4>2, PartIs
        <4>4. j \in 1 .. n - 1
          BY <1>2, <3>2, <4>3
        <4>5. Agree(w, t[q], n - 1)
          BY <3>1 DEF Part
        <4> QED
          BY <4>3, <4>4, <4>5 DEF Agree
      <3> QED
        BY <1>10, <2>2, <3>2, <3>3, <3>4
    <2>3. CASE ~below(q)
      <3>1. k \in 1 .. Len(t[q])
        BY <1>7, <1>13, <2>3
      <3>2. PICK x \in DOMAIN t : Part(t[q], t[x], k)
        BY <3>1 DEF IsTree
      <3>3. CASE x # target
        BY <1>10, <2>3, <3>2, <3>3
      <3>4. CASE x = target
        <4>1. k < n
          BY <1>2, <1>8, <1>9, <2>1, <2>3, <3>1, <3>2, <3>4
        <4>2. PICK y \in DOMAIN t : Part(w, t[y], n)
          BY <1>17
        <4>3. /\ t[y] \in Seq(Turns) /\ n <= Len(t[y]) /\ w[n] # t[y][n]
              /\ \A i \in 1 .. n - 1 : w[i] = t[y][i]
          BY <1>1, <1>2, <4>2, PartIs DEF Agree
        <4>4. /\ k <= Len(w) /\ Other(t[q][k]) = w[k]
              /\ \A i \in 1 .. k - 1 : t[q][i] = w[i]
          BY <1>2, <2>1, <3>2, <3>4, PartIs DEF Agree
        <4>5. k \in 1 .. Len(t[y]) /\ k \in 1 .. n - 1 /\ \A i \in 1 .. k - 1 : i \in 1 .. n - 1
          BY <1>1, <1>2, <2>1, <3>1, <4>1, <4>3
        <4>6. Part(t[q], t[y], k)
          BY <3>1, <4>3, <4>4, <4>5 DEF Part, Agree
        <4>7. y \in D
          BY <4>3
        <4> QED
          BY <1>10, <2>3, <4>6, <4>7
      <3> QED
        BY <3>3, <3>4
    <2> QED
      BY <2>2, <2>3
  <1>14. IsFiniteSet(D) /\ D \subseteq Panes
    BY FS_RemoveElement DEF IsTree
  <1>15. D # {}
    <2>1. PICK y \in DOMAIN t : Part(w, t[y], n)
      BY <1>17
    <2>2. w[n] # t[y][n]
      BY <1>1, <1>2, <2>1, PartIs
    <2> QED
      BY <2>2
  <1>16. IsTree(u)
    BY <1>3, <1>11, <1>12, <1>13, <1>14, <1>15 DEF IsTree
  <1> QED
    BY <1>16 DEF u

-----------------------------------------------------------------------------
(* Presets.                                                                *)

LEMMA ConcatIs ==
  ASSUME NEW s \in Seq(Turns), NEW t \in Seq(Turns)
  PROVE  /\ s \o t \in Seq(Turns) /\ Len(s \o t) = Len(s) + Len(t)
         /\ Len(s) \in Nat /\ Len(t) \in Nat
         /\ \A i \in 1 .. Len(s) : (s \o t)[i] = s[i]
         /\ \A i \in 1 .. Len(t) : (s \o t)[Len(s) + i] = t[i]
  <1>1. s \o t \in Seq(Turns) /\ Len(s \o t) = Len(s) + Len(t) /\ Len(s) \in Nat /\ Len(t) \in Nat
    BY LenProperties
  <1>2. \A i \in 1 .. Len(s) : (s \o t)[i] = s[i]
    BY <1>1
  <1>3. ASSUME NEW i \in 1 .. Len(t) PROVE (s \o t)[Len(s) + i] = t[i]
    <2>1. Len(s) + i \in 1 .. Len(s) + Len(t) /\ Len(s) + i > Len(s) /\ (Len(s) + i) - Len(s) = i
      BY <1>1
    <2> QED
      BY <2>1
  <1> QED
    BY <1>1, <1>2, <1>3

(* Trees in the places of the leaves of a tree.                            *)
IsNested(u, o, inner, home) ==
  /\ IsShape(o)
  /\ \A i \in DOMAIN o : IsShape(inner[i])
  /\ \A p \in DOMAIN u : home[p] \in DOMAIN o
  /\ \A i \in DOMAIN o : \A p : p \in DOMAIN inner[i] <=> p \in DOMAIN u /\ home[p] = i
  /\ \A p \in DOMAIN u : u[p] = o[home[p]] \o inner[home[p]][p]

LEMMA NestedShape ==
  ASSUME NEW o, NEW inner, NEW home, NEW u, IsNested(u, o, inner, home)
  PROVE  IsShape(u)
  <1> DEFINE D == DOMAIN u
             w(p) == o[home[p]]
             a(p) == inner[home[p]][p]
  <1> USE DEF IsNested
  <1>1. \A p \in D : /\ home[p] \in DOMAIN o /\ p \in DOMAIN inner[home[p]]
                     /\ w(p) \in Seq(Turns) /\ a(p) \in Seq(Turns)
    BY DEF IsShape
  <1>2. \A p \in D : u[p] = w(p) \o a(p)
    OBVIOUS
  (* Where the ways to two of the outer leaves part, those into their trees*)
  (* do, and the ways within one tree part one after the other.            *)
  <1>3. \A i \in DOMAIN o : \E p \in D : home[p] = i
    BY DEF IsShape
  <1>4. ASSUME NEW p \in D, NEW q \in D, home[p] # home[q]
        PROVE  \E k : Part(w(p), w(q), k)
    BY <1>1, <1>4 DEF IsShape
  <1>5. ASSUME NEW p \in D, NEW k \in 1 .. Len(w(p))
        PROVE  \E q \in D : Part(w(p), w(q), k)
    <2>1. PICK i \in DOMAIN o : Part(o[home[p]], o[i], k)
      BY <1>1, <1>5 DEF IsShape
    <2> QED
      BY <1>3, <2>1
  <1>6. ASSUME NEW p \in D, NEW q \in D, home[p] = home[q], p # q
        PROVE  w(p) = w(q) /\ \E k : Part(a(p), a(q), k)
    BY <1>1, <1>6 DEF IsShape
  <1>7. ASSUME NEW p \in D, NEW k \in 1 .. Len(a(p))
        PROVE  \E q \in D : w(q) = w(p) /\ Part(a(p), a(q), k)
    <2>1. PICK q \in DOMAIN inner[home[p]] : Part(inner[home[p]][p], inner[home[p]][q], k)
      BY <1>1, <1>7 DEF IsShape
    <2>2. q \in D /\ home[q] = home[p]
      BY <1>1, <2>1
    <2> QED
      BY <2>1, <2>2
  <1>8. D # {}
    BY <1>3 DEF IsShape
  <1> HIDE DEF w, a, IsNested
  <1>9. ASSUME NEW p \in D
        PROVE  /\ u[p] \in Seq(Turns) /\ Len(u[p]) = Len(w(p)) + Len(a(p))
               /\ Len(w(p)) \in Nat /\ Len(a(p)) \in Nat
               /\ \A i \in 1 .. Len(w(p)) : u[p][i] = w(p)[i]
               /\ \A i \in 1 .. Len(a(p)) : u[p][Len(w(p)) + i] = a(p)[i]
    <2> DEFINE v == w(p)
               b == a(p)
    <2>1. v \in Seq(Turns) /\ b \in Seq(Turns) /\ u[p] = v \o b
      BY <1>1, <1>2
    <2> HIDE DEF v, b
    <2>2. /\ u[p] \in Seq(Turns) /\ Len(u[p]) = Len(v) + Len(b)
          /\ Len(v) \in Nat /\ Len(b) \in Nat
          /\ \A i \in 1 .. Len(v) : u[p][i] = v[i]
          /\ \A i \in 1 .. Len(b) : u[p][Len(v) + i] = b[i]
      BY <2>1, ConcatIs
    <2> QED
      BY <2>2 DEF v, b
  <1>10. ASSUME NEW p \in D, NEW q \in D, NEW k, Part(w(p), w(q), k)
         PROVE  Part(u[p], u[q], k)
    <2>1. Len(u[p]) >= Len(w(p))
      BY <1>9
    <2>2. Len(u[q]) >= Len(w(q))
      BY <1>9
    <2>3. u[p] \in Seq(Turns) /\ \A i \in 1 .. Len(w(p)) : u[p][i] = w(p)[i]
      BY <1>9
    <2>4. u[q] \in Seq(Turns) /\ \A i \in 1 .. Len(w(q)) : u[q][i] = w(q)[i]
      BY <1>9
    <2>5. w(p) \in Seq(Turns) /\ w(q) \in Seq(Turns)
      BY <1>1
    <2> QED
      BY <1>10, <2>1, <2>2, <2>3, <2>4, <2>5, PartOfLonger
  <1>11. ASSUME NEW p \in D, NEW q \in D, w(p) = w(q), NEW k, Part(a(p), a(q), k)
         PROVE  Part(u[p], u[q], Len(w(p)) + k)
    <2> DEFINE m == Len(w(p))
    <2>1. a(p) \in Seq(Turns) /\ a(q) \in Seq(Turns)
      BY <1>1
    <2>2. m \in Nat /\ Len(a(p)) \in Nat /\ Len(u[p]) = m + Len(a(p))
      BY <1>9
    <2>3. Len(a(q)) \in Nat /\ Len(u[q]) = m + Len(a(q))
      BY <1>9, <1>11
    <2>4. \A i \in 1 .. m : u[p][i] = w(p)[i]
      BY <1>9
    <2>5. \A i \in 1 .. m : u[q][i] = w(p)[i]
      BY <1>9, <1>11
    <2>6. \A i \in 1 .. Len(a(p)) : u[p][m + i] = a(p)[i]
      BY <1>9
    <2>7. \A i \in 1 .. Len(a(q)) : u[q][m + i] = a(q)[i]
      BY <1>9, <1>11
    <2> HIDE DEF m
    <2>8. /\ k \in Nat /\ k >= 1 /\ k <= Len(a(p)) /\ k <= Len(a(q))
          /\ a(q)[k] = Other(a(p)[k]) /\ Agree(a(p), a(q), k - 1)
      BY <1>11, <2>1, PartIs
    <2>9. ASSUME NEW i \in 1 .. m + k - 1 PROVE u[p][i] = u[q][i]
      <3>1. CASE i <= m
        BY <2>2, <2>4, <2>5, <3>1
      <3>2. CASE i > m
        <4>1. /\ i - m \in 1 .. k - 1 /\ i - m \in 1 .. Len(a(p)) /\ i - m \in 1 .. Len(a(q))
              /\ m + (i - m) = i
          BY <2>2, <2>3, <2>8, <3>2
        <4>2. a(p)[i - m] = a(q)[i - m]
          BY <2>8, <4>1 DEF Agree
        <4> QED
          BY <2>6, <2>7, <4>1, <4>2
      <3> QED
        BY <2>2, <3>1, <3>2
    <2>10. u[p][m + k] = a(p)[k] /\ u[q][m + k] = a(q)[k]
      BY <2>2, <2>3, <2>6, <2>7, <2>8
    <2>11. m + k \in 1 .. Len(u[p]) /\ m + k \in 1 .. Len(u[q]) /\ (m + k) - 1 = m + k - 1
      BY <2>2, <2>3, <2>8
    <2>12. Agree(u[p], u[q], (m + k) - 1)
      BY <2>9, <2>11 DEF Agree
    <2>13. Part(u[p], u[q], m + k)
      BY <2>8, <2>10, <2>11, <2>12 DEF Part
    <2> QED
      BY <2>13 DEF m
  <1>12. ASSUME NEW p \in D, NEW q \in D, p # q
         PROVE  \E k \in 1 .. Len(u[p]) : Part(u[p], u[q], k)
    <2>1. SUFFICES \E k : Part(u[p], u[q], k)
      BY DEF Part
    <2>2. CASE home[p] = home[q]
      BY <1>6, <1>11, <1>12, <2>2
    <2>3. CASE home[p] # home[q]
      BY <1>4, <1>10, <2>3
    <2> QED
      BY <2>2, <2>3
  <1>13. ASSUME NEW p \in D, NEW k \in 1 .. Len(u[p])
         PROVE  \E q \in D : Part(u[p], u[q], k)
    <2> DEFINE m == Len(w(p))
               n == Len(a(p))
    <2>1. m \in Nat /\ n \in Nat /\ Len(u[p]) = m + n
      BY <1>9
    <2>2. CASE k <= m
      <3>1. k \in 1 .. m
        BY <2>1, <2>2
      <3> QED
        BY <1>5, <1>10, <3>1
    <2>3. CASE k > m
      <3> HIDE DEF m, n
      <3>1. k - m \in 1 .. n /\ m + (k - m) = k
        BY <2>1, <2>3
      <3>2. PICK q \in D : w(q) = w(p) /\ Part(a(p), a(q), k - m)
        BY <1>7, <3>1 DEF n
      <3>3. Part(u[p], u[q], m + (k - m))
        BY <1>11, <3>2 DEF m
      <3> QED
        BY <3>1, <3>3
    <2> QED
      BY <2>1, <2>2, <2>3
  <1>14. \A p \in D : u[p] \in Seq(Turns)
    BY <1>9
  <1> QED
    BY <1>8, <1>12, <1>13, <1>14 DEF IsShape

(* A split of two trees that have no pane in common.                       *)
LEMMA ShapeBeside ==
  ASSUME NEW dir \in Dirs, NEW ratio \in Ratios, NEW a, IsShape(a), NEW b, IsShape(b),
         \A p \in DOMAIN a : p \notin DOMAIN b
  PROVE  /\ IsShape(Beside(dir, ratio, a, b))
         /\ DOMAIN Beside(dir, ratio, a, b) = DOMAIN a \cup DOMAIN b
  <1> DEFINE x == Turn(dir, ratio, "first")
             y == Turn(dir, ratio, "second")
             o == [i \in {1, 2} |-> IF i = 1 THEN <<x>> ELSE <<y>>]
             inner == [i \in {1, 2} |-> IF i = 1 THEN a ELSE b]
             D == DOMAIN a \cup DOMAIN b
             home == [p \in D |-> IF p \in DOMAIN a THEN 1 ELSE 2]
             u == Beside(dir, ratio, a, b)
  <1>1. x \in Turns /\ y \in Turns /\ y = Other(x) /\ x = Other(y)
    BY TurnPair
  <1> HIDE DEF x, y
  <1>2. /\ <<x>> \in Seq(Turns) /\ Len(<<x>>) = 1 /\ <<x>>[1] = x
        /\ <<y>> \in Seq(Turns) /\ Len(<<y>>) = 1 /\ <<y>>[1] = y
    BY <1>1
  <1>3. Part(<<x>>, <<y>>, 1) /\ Part(<<y>>, <<x>>, 1)
    BY <1>1, <1>2 DEF Part, Agree
  <1>4. DOMAIN o = {1, 2} /\ o[1] = <<x>> /\ o[2] = <<y>>
    OBVIOUS
  <1> HIDE DEF o
  <1>5. IsShape(o)
    <2>1. \A i \in DOMAIN o : o[i] \in Seq(Turns) /\ Len(o[i]) = 1
      BY <1>2, <1>4
    <2>6. ASSUME NEW i \in DOMAIN o PROVE 1 .. Len(o[i]) = {1}
      <3>1. Len(o[i]) = 1
        BY <2>1
      <3> QED
        BY <3>1
    <2>2. \A i, j \in DOMAIN o : i # j => Part(o[i], o[j], 1)
      BY <1>3, <1>4
    <2>3. \A i \in DOMAIN o : \E j \in DOMAIN o : i # j
      BY <1>4
    <2>4. \A i, j \in DOMAIN o : i # j => \E k \in 1 .. Len(o[i]) : Part(o[i], o[j], k)
      BY <2>2, <2>6
    <2>5. \A i \in DOMAIN o : \A k \in 1 .. Len(o[i]) : \E j \in DOMAIN o : Part(o[i], o[j], k)
      BY <2>2, <2>3, <2>6
    <2> QED
      BY <1>4, <2>1, <2>4, <2>5 DEF IsShape
  <1>6. inner[1] = a /\ inner[2] = b
    OBVIOUS
  <1>7. \A p \in D : home[p] \in DOMAIN o
    BY <1>4
  <1>8. /\ \A p : p \in DOMAIN a <=> p \in D /\ home[p] = 1
        /\ \A p : p \in DOMAIN b <=> p \in D /\ home[p] = 2
    <2>1. \A p \in D : (home[p] = 1 <=> p \in DOMAIN a) /\ (home[p] = 2 <=> p \in DOMAIN b)
      OBVIOUS
    <2> HIDE DEF home
    <2> QED
      BY <2>1
  <1>9. DOMAIN u = D
    BY DEF Beside
  <1>10. \A p \in D : u[p] = o[home[p]] \o inner[home[p]][p]
    BY <1>4, <1>6 DEF Beside, x, y
  <1> HIDE DEF home, inner, D, u
  <1>11. \A i \in DOMAIN o : \A p : p \in DOMAIN inner[i] <=> p \in D /\ home[p] = i
    BY <1>4, <1>6, <1>8
  <1>13. \A i \in DOMAIN o : IsShape(inner[i])
    BY <1>4, <1>6
  <1>12. IsShape(u)
    <2> HIDE DEF D
    <2>1. IsNested(u, o, inner, home)
      BY <1>5, <1>7, <1>9, <1>10, <1>11, <1>13 DEF IsNested
    <2> QED
      BY <2>1, NestedShape
  <1> QED
    BY <1>9, <1>12 DEF u, D

(* A part of a chain that is not empty.                                    *)
Parts == {c \in [lo : Int, hi : Int, way : Seq(Turns)] : c.lo <= c.hi}

LEMMA HalfIs ==
  ASSUME NEW size \in Nat, size >= 2
  PROVE  /\ (size + 1) \div 2 \in Nat /\ (size + 1) \div 2 >= 1 /\ (size + 1) \div 2 < size
         /\ Ratio((size + 1) \div 2, size) \in Ratios
  <1> DEFINE half == (size + 1) \div 2
             m == half * 1000 + size \div 2
  <1>1. half \in Nat /\ half >= 1 /\ half < size
    OBVIOUS
  <1> HIDE DEF half
  <1>2. m \in Int
    BY <1>1
  <1> HIDE DEF m
  <1>3. m \div size \in Int
    BY <1>2, QuotientIs
  <1>4. Ratio(half, size) = Within(m \div size, 100, 900)
    BY DEF Ratio, m
  <1>5. Ratio(half, size) \in Ratios
    BY <1>3, <1>4 DEF Within, Ratios
  <1> QED
    BY <1>1, <1>5 DEF half

LEMMA HalvedIs ==
  ASSUME NEW c \in Parts, NEW dir \in Dirs, c.lo < c.hi
  PROVE  \E m \in Int, x \in Turns :
           /\ c.lo < m /\ m <= c.hi
           /\ \A i \in Int :
                Halved(c, i, dir) =
                  IF i < m THEN [lo |-> c.lo, hi |-> m - 1, way |-> Append(c.way, x)]
                  ELSE [lo |-> m, hi |-> c.hi, way |-> Append(c.way, Other(x))]
  <1> DEFINE size == c.hi - c.lo + 1
             half == (size + 1) \div 2
             ratio == Ratio(half, size)
             x == Turn(dir, ratio, "first")
             m == c.lo + half
  <1>1. c.lo \in Int /\ c.hi \in Int
    BY DEF Parts
  <1>2. size \in Nat /\ size >= 2
    BY <1>1
  <1>3. half \in Nat /\ half >= 1 /\ half < size /\ ratio \in Ratios
    BY <1>2, HalfIs
  <1>4. x \in Turns /\ Other(x) = Turn(dir, ratio, "second")
    <2> HIDE DEF ratio
    <2> QED
      BY <1>3, TurnPair
  <1>5. m \in Int /\ c.lo < m /\ m <= c.hi
    BY <1>1, <1>3
  <1>6. ASSUME NEW i \in Int
        PROVE  Halved(c, i, dir) =
                 IF i < m THEN [lo |-> c.lo, hi |-> m - 1, way |-> Append(c.way, x)]
                 ELSE [lo |-> m, hi |-> c.hi, way |-> Append(c.way, Other(x))]
    <2>1. size # 1 /\ Turn(dir, ratio, "second") = Other(x)
      BY <1>2, <1>4
    <2>2. Halved(c, i, dir) =
            IF size = 1 THEN c
            ELSE IF i < c.lo + half
            THEN [lo |-> c.lo, hi |-> c.lo + half - 1,
                  way |-> Append(c.way, Turn(dir, Ratio(half, size), "first"))]
            ELSE [lo |-> c.lo + half, hi |-> c.hi,
                  way |-> Append(c.way, Turn(dir, Ratio(half, size), "second"))]
      BY ZenonT(30) DEF Halved
    <2>5. c.lo + half - 1 = m - 1
      BY <1>1, <1>3
    <2>3. CASE i < m
      BY <2>1, <2>2, <2>3, <2>5, Zenon
    <2>4. CASE ~ (i < m)
      BY <2>1, <2>2, <2>4, Zenon
    <2> HIDE DEF m, x
    <2> QED
      BY <2>3, <2>4
  <1> HIDE DEF m, x
  <1> QED
    BY <1>4, <1>5, <1>6

LEMMA HalvedOne ==
  ASSUME NEW c \in Parts, NEW i, NEW dir, ~ (c.lo < c.hi)
  PROVE  Halved(c, i, dir) = c
  <1>1. c.lo \in Int /\ c.hi \in Int /\ c.lo <= c.hi
    BY DEF Parts
  <1>2. c.hi - c.lo + 1 = 1
    BY <1>1
  <1> QED
    BY <1>2 DEF Halved

(* What becomes of a part by one more split, for its members i and j.      *)
GoesOn(c, h, i, dir) ==
  /\ h \in Parts /\ h.lo <= i /\ i <= h.hi /\ h.lo >= c.lo /\ h.hi <= c.hi
  /\ c.lo < c.hi => h.hi - h.lo < c.hi - c.lo
  /\ \/ h.way = c.way /\ ~ (c.lo < c.hi)
     \/ \E x \in Turns : h.way = Append(c.way, x)
  /\ \A j \in Int : j >= h.lo /\ j <= h.hi => Halved(c, j, dir) = h
  /\ \A j \in Int : \/ Halved(c, j, dir) = h
                    \/ Part(h.way, Halved(c, j, dir).way, Len(c.way) + 1)
  /\ c.lo < c.hi => \E j \in Int : /\ j >= c.lo /\ j <= c.hi
                                   /\ Part(h.way, Halved(c, j, dir).way, Len(c.way) + 1)

LEMMA HalvedStep ==
  ASSUME NEW c \in Parts, NEW dir \in Dirs, NEW i \in Int, c.lo <= i, i <= c.hi
  PROVE  GoesOn(c, Halved(c, i, dir), i, dir)
  <1> DEFINE g(j) == Halved(c, j, dir)
             h == g(i)
  <1> USE DEF GoesOn
  <1>1. c.lo \in Int /\ c.hi \in Int /\ c.way \in Seq(Turns)
    BY DEF Parts
  <1>2. CASE ~ (c.lo < c.hi)
    <2>1. \A j : g(j) = c
      BY <1>2, HalvedOne
    <2> HIDE DEF g
    <2>2. h = c
      BY <2>1
    <2> QED
      BY <1>1, <1>2, <2>1, <2>2 DEF g
  <1>3. CASE c.lo < c.hi
    <2> DEFINE n == Len(c.way) + 1
    <2>1. PICK m \in Int, x \in Turns :
            /\ c.lo < m /\ m <= c.hi
            /\ \A j \in Int :
                 g(j) = IF j < m THEN [lo |-> c.lo, hi |-> m - 1, way |-> Append(c.way, x)]
                        ELSE [lo |-> m, hi |-> c.hi, way |-> Append(c.way, Other(x))]
      BY <1>3, HalvedIs
    <2> DEFINE a == Append(c.way, x)
               b == Append(c.way, Other(x))
               p == [lo |-> c.lo, hi |-> m - 1, way |-> a]
               q == [lo |-> m, hi |-> c.hi, way |-> b]
    <2> HIDE DEF g
    <2>2. \A j \in Int : (j < m => g(j) = p) /\ (j >= m => g(j) = q)
      BY <2>1
    <2>3. Other(x) \in Turns /\ Other(Other(x)) = x
      BY TurnIs
    <2>4. /\ a \in Seq(Turns) /\ Len(a) = n /\ n \in 1 .. n /\ \A k \in 1 .. n - 1 : a[k] = c.way[k]
          /\ a[n] = x
      BY <1>1, AppendIs
    <2>5. /\ b \in Seq(Turns) /\ Len(b) = n /\ \A k \in 1 .. n - 1 : b[k] = c.way[k]
          /\ b[n] = Other(x)
      BY <1>1, <2>3, AppendIs
    <2>6. Part(a, b, n) /\ Part(b, a, n)
      BY <2>3, <2>4, <2>5 DEF Part, Agree
    <2>7. p \in Parts /\ q \in Parts
      BY <1>1, <2>1, <2>4, <2>5 DEF Parts
    <2>8. /\ p.lo = c.lo /\ p.hi = m - 1 /\ p.way = a
          /\ q.lo = m /\ q.hi = c.hi /\ q.way = b
      OBVIOUS
    <2>9. \E y \in Turns : a = Append(c.way, y)
      OBVIOUS
    <2>10. \E y \in Turns : b = Append(c.way, y)
      BY <2>3
    <2> HIDE DEF a, b, p, q, n
    <2>11. CASE i < m
      <3>1. h = p
        BY <2>2, <2>11
      <3>2. h \in Parts /\ h.lo <= i /\ i <= h.hi /\ h.lo >= c.lo /\ h.hi <= c.hi
        BY <1>1, <2>1, <2>7, <2>8, <2>11, <3>1
      <3>3. h.hi - h.lo < c.hi - c.lo
        BY <1>1, <2>1, <2>8, <3>1
      <3>4. \E y \in Turns : h.way = Append(c.way, y)
        BY <2>8, <2>9, <3>1
      <3>5. \A j \in Int : j >= h.lo /\ j <= h.hi => g(j) = h
        BY <2>1, <2>2, <2>8, <3>1
      <3>6. \A j \in Int : g(j) = h \/ Part(h.way, g(j).way, n)
        BY <2>2, <2>6, <2>8, <3>1
      <3>7. g(c.hi) = q
        BY <1>1, <2>1, <2>2
      <3>8. \E j \in Int : j >= c.lo /\ j <= c.hi /\ Part(h.way, g(j).way, n)
        BY <1>1, <1>3, <2>6, <2>8, <3>1, <3>7
      <3> QED
        BY <3>2, <3>3, <3>4, <3>5, <3>6, <3>8 DEF g, n
    <2>12. CASE i >= m
      <3>1. h = q
        BY <2>2, <2>12
      <3>2. h \in Parts /\ h.lo <= i /\ i <= h.hi /\ h.lo >= c.lo /\ h.hi <= c.hi
        BY <1>1, <2>1, <2>7, <2>8, <2>12, <3>1
      <3>3. h.hi - h.lo < c.hi - c.lo
        BY <1>1, <2>1, <2>8, <3>1
      <3>4. \E y \in Turns : h.way = Append(c.way, y)
        BY <2>8, <2>10, <3>1
      <3>5. \A j \in Int : j >= h.lo /\ j <= h.hi => g(j) = h
        BY <2>1, <2>2, <2>8, <3>1
      <3>6. \A j \in Int : g(j) = h \/ Part(h.way, g(j).way, n)
        BY <2>2, <2>6, <2>8, <3>1
      <3>7. g(c.lo) = p
        BY <1>1, <2>1, <2>2
      <3>8. \E j \in Int : j >= c.lo /\ j <= c.hi /\ Part(h.way, g(j).way, n)
        BY <1>1, <1>3, <2>6, <2>8, <3>1, <3>7
      <3> QED
        BY <3>2, <3>3, <3>4, <3>5, <3>6, <3>8 DEF g, n
    <2> QED
      BY <2>1, <2>11, <2>12
  <1> QED
    BY <1>2, <1>3

LEMMA HalvedStays ==
  ASSUME NEW c \in Parts, NEW dir \in Dirs, NEW i \in Int
  PROVE  Halved(c, i, dir) \in Parts
  <1>1. CASE ~ (c.lo < c.hi)
    BY <1>1, HalvedOne
  <1>2. CASE c.lo < c.hi
    <2>1. PICK m \in Int, x \in Turns :
            /\ c.lo < m /\ m <= c.hi
            /\ Halved(c, i, dir) =
                 IF i < m THEN [lo |-> c.lo, hi |-> m - 1, way |-> Append(c.way, x)]
                 ELSE [lo |-> m, hi |-> c.hi, way |-> Append(c.way, Other(x))]
      BY <1>2, HalvedIs
    <2>2. c.lo \in Int /\ c.hi \in Int /\ c.way \in Seq(Turns) /\ Other(x) \in Turns
      BY TurnIs DEF Parts
    <2>3. Append(c.way, x) \in Seq(Turns) /\ Append(c.way, Other(x)) \in Seq(Turns)
      BY <2>2, AppendIs
    <2> QED
      BY <2>1, <2>2, <2>3 DEF Parts
  <1> QED
    BY <1>1, <1>2

(* The parts on the way to member i of n.                                  *)
Halving(f, n, i, dir) ==
  /\ f[0] = [lo |-> 1, hi |-> n, way |-> <<>>]
  /\ \A d \in 1 .. n : f[d] = Halved(f[d - 1], i, dir)

LEMMA ChainWayIs ==
  ASSUME NEW n \in Nat, n >= 1, NEW i \in 1 .. n, NEW dir \in Dirs
  PROVE  \E f : Halving(f, n, i, dir) /\ ChainWay(n, i, dir) = f[n].way
  <1> DEFINE c == [lo |-> 1, hi |-> n, way |-> <<>>]
             X == Parts
             Step(f, d) == IF d = 0 THEN c ELSE Halved(f[d - 1], i, dir)
             Down(f) == f = [d \in 0 .. n |-> Step(f, d)]
             part[d \in 0 .. n] == Step(part, d)
             F == [d \in 1 .. n |-> [u \in X |-> Halved(u, i, dir)]]
  <1>1. ChainWay(n, i, dir) = part[n].way
    BY DEF ChainWay
  <1>2. part = CHOOSE f : Down(f)
    BY DEF part
  <1> HIDE DEF part
  <1>3. c \in X
    <2>1. <<>> \in Seq(Turns)
      OBVIOUS
    <2> QED
      BY <2>1 DEF Parts
  <1>4. \A d \in 1 .. n, u \in X : Halved(u, i, dir) \in X
    BY HalvedStays
  <1>5. F \in [1 .. n -> [X -> X]]
    BY <1>4
  <1>6. \A d \in 1 .. n, u \in X : F[d][u] = Halved(u, i, dir)
    OBVIOUS
  <1> HIDE DEF X, F, Step, c
  <1>7. PICK f : AreIterates(f, X, n, c, F)
    BY <1>3, <1>5, IteratesExist
  <1>8. ASSUME NEW d \in 0 .. n PROVE f[d] = Step(f, d)
    <2>1. CASE d = 0
      BY <1>7, <2>1 DEF Step, AreIterates
    <2>2. CASE d # 0
      <3>1. d \in 1 .. n /\ d - 1 \in 0 .. n
        BY <2>2
      <3>2. f[d - 1] \in X /\ f[d] = F[d][f[d - 1]]
        BY <1>7, <3>1 DEF AreIterates
      <3> QED
        BY <1>6, <2>2, <3>1, <3>2 DEF Step
    <2> QED
      BY <2>1, <2>2
  <1>9. Down(f)
    BY <1>7, <1>8 DEF AreIterates
  <1> HIDE DEF Down
  <1>10. Down(part)
    BY <1>2, <1>9
  <1>11. \A d \in 0 .. n : part[d] = Step(part, d)
    BY <1>10 DEF Down
  <1>12. part[0] = c
    <2>1. 0 \in 0 .. n
      OBVIOUS
    <2> QED
      BY <1>11, <2>1 DEF Step
  <1>13. ASSUME NEW d \in 1 .. n PROVE part[d] = Halved(part[d - 1], i, dir)
    <2>1. d \in 0 .. n /\ d # 0
      OBVIOUS
    <2> QED
      BY <1>11, <2>1 DEF Step
  <1>14. Halving(part, n, i, dir)
    BY <1>12, <1>13 DEF Halving, c
  <1> QED
    BY <1>1, <1>14

(* A chain: the ways to two members part where a part of the chain that has*)
(* both is halved, and both halves have members.                           *)
LEMMA ChainShape ==
  ASSUME NEW n \in Nat, n >= 1, NEW dir \in Dirs
  PROVE  IsShape([i \in 1 .. n |-> ChainWay(n, i, dir)])
  <1> DEFINE G == [i \in 1 .. n |->
                     CHOOSE f : Halving(f, n, i, dir) /\ ChainWay(n, i, dir) = f[n].way]
             o == [i \in 1 .. n |-> ChainWay(n, i, dir)]
             In(d) == \A i \in 1 .. n :
                        /\ G[i][d] \in Parts /\ G[i][d].lo <= i /\ i <= G[i][d].hi
                        /\ G[i][d].lo >= 1 /\ G[i][d].hi <= n
             Small(d) == \A i \in 1 .. n :
                           \/ G[i][d].hi - G[i][d].lo <= n - 1 - d
                           \/ ~ (G[i][d].lo < G[i][d].hi)
             Shared(d) == \A i, j \in 1 .. n :
                            j >= G[i][d].lo /\ j <= G[i][d].hi => G[j][d] = G[i][d]
             Parted(d) == \A i, j \in 1 .. n :
                            \/ G[j][d] = G[i][d]
                            \/ \E k : Part(G[i][d].way, G[j][d].way, k)
             Full(d) == \A i \in 1 .. n : \A k \in 1 .. Len(G[i][d].way) :
                          \E j \in 1 .. n : Part(G[i][d].way, G[j][d].way, k)
             T == {d \in Nat : In(d) /\ Small(d) /\ Shared(d) /\ Parted(d) /\ Full(d)}
  <1>1. ASSUME NEW i \in 1 .. n
        PROVE  Halving(G[i], n, i, dir) /\ o[i] = G[i][n].way
    <2> DEFINE Ok(f) == Halving(f, n, i, dir) /\ ChainWay(n, i, dir) = f[n].way
    <2>1. \E f : Ok(f)
      BY ChainWayIs
    <2>2. G[i] = CHOOSE f : Ok(f)
      OBVIOUS
    <2> HIDE DEF G, Ok
    <2>3. Ok(G[i])
      BY <2>1, <2>2
    <2> QED
      BY <2>3 DEF Ok
  <1> HIDE DEF G
  <1>2. 0 \in T
    <2>1. \A i \in 1 .. n : G[i][0] = [lo |-> 1, hi |-> n, way |-> <<>>]
      BY <1>1 DEF Halving
    <2>2. <<>> \in Seq(Turns) /\ Len(<<>>) = 0
      OBVIOUS
    <2>7. [lo |-> 1, hi |-> n, way |-> <<>>] \in Parts
      BY <2>2 DEF Parts
    <2>3. In(0)
      BY <2>1, <2>7
    <2>4. Small(0)
      BY <2>1
    <2>5. Shared(0) /\ Parted(0)
      BY <2>1
    <2>6. Full(0)
      BY <2>1, <2>2
    <2> HIDE DEF In, Small, Shared, Parted, Full
    <2> QED
      BY <2>3, <2>4, <2>5, <2>6
  <1>3. ASSUME NEW d \in 1 .. n, d - 1 \in T PROVE d \in T
    <2>1. In(d - 1) /\ Small(d - 1) /\ Shared(d - 1) /\ Parted(d - 1) /\ Full(d - 1)
      BY <1>3
    <2> DEFINE c(i) == G[i][d - 1]
               h(i) == G[i][d]
               At(i, j) == Halved(c(i), j, dir)
    <2>2. \A i \in 1 .. n : h(i) = At(i, i)
      BY <1>1 DEF Halving
    <2>3. ASSUME NEW i \in 1 .. n
          PROVE  /\ c(i) \in Parts /\ c(i).lo <= i /\ i <= c(i).hi
                 /\ c(i).lo >= 1 /\ c(i).hi <= n
                 /\ c(i).lo \in Int /\ c(i).hi \in Int /\ c(i).way \in Seq(Turns)
      <3>1. /\ c(i) \in Parts /\ c(i).lo <= i /\ i <= c(i).hi
            /\ c(i).lo >= 1 /\ c(i).hi <= n
        BY <2>1
      <3> QED
        BY <3>1 DEF Parts
    <2>4. \A i, j \in 1 .. n : j >= c(i).lo /\ j <= c(i).hi => c(j) = c(i)
      BY <2>1
    <2>5. \A i, j \in 1 .. n : c(j) = c(i) \/ \E k : Part(c(i).way, c(j).way, k)
      BY <2>1
    <2>6. \A i \in 1 .. n : \A k \in 1 .. Len(c(i).way) :
            \E j \in 1 .. n : Part(c(i).way, c(j).way, k)
      BY <2>1
    <2>7. \A i \in 1 .. n : c(i).hi - c(i).lo <= n - 1 - (d - 1) \/ ~ (c(i).lo < c(i).hi)
      BY <2>1
    <2> HIDE DEF c, h
    <2>8. ASSUME NEW i \in 1 .. n PROVE GoesOn(c(i), h(i), i, dir)
      <3>1. h(i) = Halved(c(i), i, dir)
        BY <2>2
      <3>2. c(i) \in Parts /\ c(i).lo <= i /\ i <= c(i).hi /\ i \in Int
        BY <2>3
      <3>3. GoesOn(c(i), Halved(c(i), i, dir), i, dir)
        BY <3>2, HalvedStep
      <3> QED
        BY <3>1, <3>3
    <2> HIDE DEF At
    <2>9. \A i, j \in 1 .. n : c(j) = c(i) => h(j) = At(i, j)
      BY <2>2 DEF At
    <2>10. ASSUME NEW i \in 1 .. n
           PROVE  /\ h(i).lo \in Int /\ h(i).hi \in Int /\ h(i).way \in Seq(Turns)
                  /\ Len(h(i).way) \in Nat /\ Len(c(i).way) \in Nat
                  /\ Len(h(i).way) >= Len(c(i).way)
                  /\ \A k \in 1 .. Len(c(i).way) : h(i).way[k] = c(i).way[k]
      <3>1. h(i).lo \in Int /\ h(i).hi \in Int /\ h(i).way \in Seq(Turns)
        BY <2>8 DEF Parts, GoesOn
      <3>2. c(i).way \in Seq(Turns) /\ Len(c(i).way) \in Nat
        BY <2>3, LenProperties
      <3>3. CASE h(i).way = c(i).way
        BY <3>1, <3>2, <3>3
      <3>4. CASE \E x \in Turns : h(i).way = Append(c(i).way, x)
        <4>1. PICK x \in Turns : h(i).way = Append(c(i).way, x)
          BY <3>4
        <4>2. /\ Len(h(i).way) = Len(c(i).way) + 1
              /\ \A k \in 1 .. Len(c(i).way) : h(i).way[k] = c(i).way[k]
          BY <3>2, <4>1, AppendIs
        <4> QED
          BY <3>1, <3>2, <4>2
      <3> QED
        BY <2>8, <3>3, <3>4 DEF GoesOn
    <2>11. ASSUME NEW i \in 1 .. n, NEW j \in 1 .. n, NEW k, Part(c(i).way, c(j).way, k)
           PROVE  Part(h(i).way, h(j).way, k)
      <3> DEFINE s == c(i).way
                 t == c(j).way
                 u == h(i).way
                 v == h(j).way
      <3>1. s \in Seq(Turns) /\ t \in Seq(Turns)
        BY <2>3
      <3>2. u \in Seq(Turns) /\ Len(u) >= Len(s) /\ \A m \in 1 .. Len(s) : u[m] = s[m]
        BY <2>10
      <3>3. v \in Seq(Turns) /\ Len(v) >= Len(t) /\ \A m \in 1 .. Len(t) : v[m] = t[m]
        BY <2>10
      <3>4. Part(s, t, k)
        BY <2>11
      <3> HIDE DEF s, t, u, v
      <3>5. Part(u, v, k)
        BY <3>1, <3>2, <3>3, <3>4, PartOfLonger
      <3> QED
        BY <3>5 DEF u, v
    <2>12. In(d)
      <3>1. ASSUME NEW i \in 1 .. n
            PROVE  h(i) \in Parts /\ h(i).lo <= i /\ i <= h(i).hi /\ h(i).lo >= 1 /\ h(i).hi <= n
        <4>1. /\ h(i) \in Parts /\ h(i).lo <= i /\ i <= h(i).hi
              /\ h(i).lo >= c(i).lo /\ h(i).hi <= c(i).hi
          BY <2>8 DEF GoesOn
        <4>2. /\ c(i).lo >= 1 /\ c(i).hi <= n /\ c(i).lo \in Int /\ c(i).hi \in Int
          BY <2>3
        <4>3. h(i).lo \in Int /\ h(i).hi \in Int
          BY <2>10
        <4>4. h(i).lo >= 1
          BY <4>1, <4>2, <4>3
        <4>5. h(i).hi <= n
          BY <4>1, <4>2, <4>3
        <4> QED
          BY <4>1, <4>4, <4>5
      <3> QED
        BY <3>1 DEF h
    <2>13. Small(d)
      <3>1. ASSUME NEW i \in 1 .. n
            PROVE  h(i).hi - h(i).lo <= n - 1 - d \/ ~ (h(i).lo < h(i).hi)
        <4>1. CASE c(i).lo < c(i).hi
          <5>1. h(i).hi - h(i).lo < c(i).hi - c(i).lo
            BY <2>8, <4>1 DEF GoesOn
          <5>2. c(i).hi - c(i).lo <= n - 1 - (d - 1)
            BY <2>7, <4>1
          <5>3. n - 1 - (d - 1) = n - d /\ n - 1 - d = (n - d) - 1
            OBVIOUS
          <5>4. h(i).lo \in Int /\ h(i).hi \in Int /\ c(i).lo \in Int /\ c(i).hi \in Int
            BY <2>3, <2>10
          <5> QED
            BY <5>1, <5>2, <5>3, <5>4
        <4>2. CASE ~ (c(i).lo < c(i).hi)
          <5>1. h(i).lo \in Int /\ h(i).hi \in Int /\ c(i).lo \in Int /\ c(i).hi \in Int
            BY <2>3, <2>10
          <5>2. h(i).lo >= c(i).lo /\ h(i).hi <= c(i).hi
            BY <2>8 DEF GoesOn
          <5> QED
            BY <4>2, <5>1, <5>2
        <4> QED
          BY <4>1, <4>2
      <3> QED
        BY <3>1 DEF h
    <2>14. Shared(d)
      <3>1. ASSUME NEW i \in 1 .. n, NEW j \in 1 .. n, j >= h(i).lo, j <= h(i).hi
            PROVE  h(j) = h(i)
        <4>1. j >= c(i).lo /\ j <= c(i).hi
          BY <2>3, <2>8, <2>10, <3>1 DEF GoesOn
        <4>2. c(j) = c(i)
          BY <2>4, <4>1
        <4>3. At(i, j) = h(i)
          BY <2>8, <3>1 DEF GoesOn, At
        <4> QED
          BY <2>9, <4>2, <4>3
      <3> QED
        BY <3>1 DEF h
    <2>15. Parted(d)
      <3>1. ASSUME NEW i \in 1 .. n, NEW j \in 1 .. n
            PROVE  h(j) = h(i) \/ \E k : Part(h(i).way, h(j).way, k)
        <4>1. CASE c(j) = c(i)
          <5>1. h(j) = At(i, j)
            BY <2>9, <4>1
          <5>2. At(i, j) = h(i) \/ Part(h(i).way, At(i, j).way, Len(c(i).way) + 1)
            BY <2>8 DEF GoesOn, At
          <5> QED
            BY <5>1, <5>2
        <4>2. CASE c(j) # c(i)
          BY <2>5, <2>11, <4>2
        <4> QED
          BY <4>1, <4>2
      <3> QED
        BY <3>1 DEF h
    <2>16. Full(d)
      <3>1. ASSUME NEW i \in 1 .. n, NEW k \in 1 .. Len(h(i).way)
            PROVE  \E j \in 1 .. n : Part(h(i).way, h(j).way, k)
        <4>1. Len(h(i).way) \in Nat /\ Len(c(i).way) \in Nat
          BY <2>10
        <4>2. CASE k <= Len(c(i).way)
          <5>1. k \in 1 .. Len(c(i).way)
            BY <4>1, <4>2
          <5> QED
            BY <2>6, <2>11, <5>1
        <4>3. CASE k > Len(c(i).way)
          <5>1. k = Len(c(i).way) + 1 /\ c(i).lo < c(i).hi
            <6>1. h(i).way # c(i).way
              BY <4>1, <4>3
            <6>2. PICK x \in Turns : h(i).way = Append(c(i).way, x)
              BY <2>8, <6>1 DEF GoesOn
            <6>3. Len(h(i).way) = Len(c(i).way) + 1
              BY <2>3, <6>2, AppendIs
            <6>4. c(i).lo < c(i).hi
              <7>1. SUFFICES ASSUME ~ (c(i).lo < c(i).hi) PROVE FALSE
                OBVIOUS
              <7>2. h(i) = c(i)
                BY <2>2, <2>3, <7>1, HalvedOne DEF At
              <7> QED
                BY <6>1, <7>2
            <6> QED
              BY <4>1, <4>3, <6>3, <6>4
          <5>2. PICK j \in Int : /\ j >= c(i).lo /\ j <= c(i).hi
                                 /\ Part(h(i).way, At(i, j).way, Len(c(i).way) + 1)
            BY <2>8, <5>1 DEF GoesOn, At
          <5>3. j \in 1 .. n
            BY <2>3, <5>2
          <5>4. c(j) = c(i)
            BY <2>4, <5>2, <5>3
          <5>5. h(j) = At(i, j)
            BY <2>9, <5>3, <5>4
          <5> QED
            BY <5>1, <5>2, <5>3, <5>5
        <4> QED
          BY <4>1, <4>2, <4>3
      <3> QED
        BY <3>1 DEF h
    <2>17. d \in Nat
      OBVIOUS
    <2> HIDE DEF In, Small, Shared, Parted, Full
    <2> QED
      BY <2>12, <2>13, <2>14, <2>15, <2>16, <2>17
  <1>4. n \in T
    <2> HIDE DEF T
    <2> QED
      BY <1>2, <1>3, BoundedInduction
  <1>5. In(n) /\ Small(n) /\ Parted(n) /\ Full(n)
    BY <1>4
  <1>6. ASSUME NEW i \in 1 .. n
        PROVE  G[i][n].lo = i /\ G[i][n].way \in Seq(Turns)
    <2>1. /\ G[i][n].lo <= i /\ i <= G[i][n].hi /\ G[i][n].lo \in Int /\ G[i][n].hi \in Int
          /\ G[i][n].way \in Seq(Turns)
      BY <1>5 DEF Parts
    <2>2. G[i][n].hi - G[i][n].lo <= n - 1 - n \/ ~ (G[i][n].lo < G[i][n].hi)
      BY <1>5
    <2> QED
      BY <2>1, <2>2
  <1>7. \A i, j \in 1 .. n : i # j => \E k : Part(G[i][n].way, G[j][n].way, k)
    BY <1>5, <1>6
  <1>8. DOMAIN o = 1 .. n /\ \A i \in 1 .. n : o[i] = G[i][n].way
    BY <1>1
  <1> HIDE DEF o
  <1>9. \A i \in 1 .. n : o[i] \in Seq(Turns)
    BY <1>6, <1>8
  <1>10. \A i, j \in 1 .. n : i # j => \E k \in 1 .. Len(o[i]) : Part(o[i], o[j], k)
    <2>1. SUFFICES ASSUME NEW i \in 1 .. n, NEW j \in 1 .. n, i # j
                   PROVE  \E k \in 1 .. Len(o[i]) : Part(o[i], o[j], k)
      OBVIOUS
    <2>2. PICK k : Part(o[i], o[j], k)
      BY <1>7, <1>8, <2>1
    <2> QED
      BY <2>2 DEF Part
  <1>11. \A i \in 1 .. n : \A k \in 1 .. Len(o[i]) : \E j \in 1 .. n : Part(o[i], o[j], k)
    BY <1>5, <1>8
  <1>12. 1 \in 1 .. n
    OBVIOUS
  <1>13. IsShape(o)
    BY <1>8, <1>9, <1>10, <1>11, <1>12 DEF IsShape
  <1> QED
    BY <1>13 DEF o

(* Panes in an order, each once.                                           *)
Listing(ps) ==
  /\ ps \in Seq(Panes) /\ Len(ps) >= 1
  /\ \A i, j \in 1 .. Len(ps) : ps[i] = ps[j] => i = j

LEMMA ListingIs ==
  ASSUME NEW ps, Listing(ps)
  PROVE  /\ Len(ps) \in Nat /\ Len(ps) >= 1 /\ 1 \in 1 .. Len(ps)
         /\ \A i \in 1 .. Len(ps) : ps[i] \in ToSet(ps) /\ ps[i] \in Panes
         /\ \A p \in ToSet(ps) : Place(ps, p) \in 1 .. Len(ps) /\ ps[Place(ps, p)] = p
         /\ \A i \in 1 .. Len(ps) : Place(ps, ps[i]) = i
         /\ ToSet(ps) \subseteq Panes /\ ToSet(ps) # {} /\ IsFiniteSet(ToSet(ps))
  <1>1. Len(ps) \in Nat /\ Len(ps) >= 1 /\ DOMAIN ps = 1 .. Len(ps)
    BY LenProperties DEF Listing
  <1>2. \A i \in 1 .. Len(ps) : ps[i] \in Panes
    BY LenProperties DEF Listing
  <1>3. ToSet(ps) = {ps[i] : i \in 1 .. Len(ps)}
    BY <1>1 DEF ToSet
  <1>4. \A i \in 1 .. Len(ps) : ps[i] \in ToSet(ps)
    BY <1>3
  <1>5. ASSUME NEW p \in ToSet(ps)
        PROVE  p \in Panes /\ Place(ps, p) \in 1 .. Len(ps) /\ ps[Place(ps, p)] = p
    <2>1. PICK i \in 1 .. Len(ps) : ps[i] = p
      BY <1>3
    <2> QED
      BY <1>2, <2>1 DEF Place
  <1>6. \A i \in 1 .. Len(ps) : Place(ps, ps[i]) = i
    BY <1>4, <1>5 DEF Listing
  <1>7. 1 \in 1 .. Len(ps)
    BY <1>1
  <1>8. IsFiniteSet(ToSet(ps))
    <2>1. IsFiniteSet(1 .. Len(ps))
      BY <1>1, FS_Interval
    <2> DEFINE f == [i \in 1 .. Len(ps) |-> ps[i]]
    <2>2. f \in [1 .. Len(ps) -> ToSet(ps)] /\ \A p \in ToSet(ps) : \E i \in 1 .. Len(ps) : f[i] = p
      BY <1>3
    <2>3. f \in Surjection(1 .. Len(ps), ToSet(ps))
      <3> HIDE DEF f
      <3> QED
        BY <2>2 DEF Surjection
    <2> QED
      BY <2>1, <2>3, FS_Surjection
  <1> QED
    BY <1>1, <1>2, <1>4, <1>5, <1>6, <1>7, <1>8

LEMMA ShapeOfChain ==
  ASSUME NEW ps, Listing(ps), NEW dir \in Dirs
  PROVE  IsShape(Chain(ps, dir)) /\ DOMAIN Chain(ps, dir) = ToSet(ps)
  <1> DEFINE n == Len(ps)
             D == ToSet(ps)
             o == [i \in 1 .. n |-> ChainWay(n, i, dir)]
             f == [p \in D |-> Place(ps, p)]
             u == [p \in D |-> o[f[p]]]
  <1>1. n \in Nat /\ n >= 1
    BY ListingIs
  <1>2. IsShape(o)
    BY <1>1, ChainShape
  <1>3. f \in [D -> DOMAIN o]
    BY ListingIs
  <1>4. \A p, q \in D : f[p] = f[q] => p = q
    BY ListingIs
  <1>5. \A i \in DOMAIN o : \E p \in D : f[p] = i
    <2>1. SUFFICES ASSUME NEW i \in 1 .. n PROVE \E p \in D : f[p] = i
      OBVIOUS
    <2>2. ps[i] \in D /\ f[ps[i]] = i
      BY ListingIs
    <2> QED
      BY <2>2
  <1>6. \A p \in D : f[p] = Place(ps, p) /\ o[f[p]] = ChainWay(n, Place(ps, p), dir)
    BY ListingIs
  <1>7. IsShape(u)
    <2> HIDE DEF o, f, D
    <2> QED
      BY <1>2, <1>3, <1>4, <1>5, Relabelled
  <1>8. Chain(ps, dir) = u
    BY <1>6 DEF Chain
  <1> QED
    BY <1>7, <1>8

LEMMA IsListing ==
  ASSUME NEW D, D \subseteq Panes, NEW ps, ps \in Seq(D), Len(ps) >= 1,
         \A i, j \in 1 .. Len(ps) : ps[i] = ps[j] => i = j,
         \A p \in D : \E i \in 1 .. Len(ps) : ps[i] = p
  PROVE  Listing(ps) /\ ToSet(ps) = D
  <1>1. ps \in Seq(Panes)
    BY SeqMonotonic
  <1>2. DOMAIN ps = 1 .. Len(ps) /\ \A i \in 1 .. Len(ps) : ps[i] \in D
    BY LenProperties
  <1>3. ToSet(ps) = D
    BY <1>2 DEF ToSet
  <1> QED
    BY <1>1, <1>3 DEF Listing

(* The others, when the first has a place of its own.                      *)
LEMMA TailIs ==
  ASSUME NEW ps, Listing(ps), Len(ps) > 1
  PROVE  Listing(Tail(ps)) /\ ToSet(Tail(ps)) = ToSet(ps) \ {ps[1]}
  <1> DEFINE t == Tail(ps)
             D == ToSet(ps) \ {ps[1]}
  <1>1. /\ Len(ps) \in Nat /\ D \subseteq Panes /\ ps \in Seq(Panes) /\ ps # <<>>
        /\ 1 \in 1 .. Len(ps)
    BY ListingIs DEF Listing
  <1>2. Len(t) = Len(ps) - 1 /\ t \in Seq(Panes) /\ \A i \in 1 .. Len(t) : t[i] = ps[i + 1]
    BY <1>1, HeadTailProperties
  <1> HIDE DEF t
  <1>3. \A i \in 1 .. Len(t) : i + 1 \in 1 .. Len(ps) /\ i + 1 # 1
    BY <1>1, <1>2
  <1>4. \A i \in 1 .. Len(t) : t[i] \in D
    BY <1>1, <1>2, <1>3, ListingIs DEF Listing
  <1>5. t \in Seq(D)
    BY <1>1, <1>2, <1>4
  <1>6. \A i, j \in 1 .. Len(t) : t[i] = t[j] => i = j
    BY <1>1, <1>2, <1>3 DEF Listing
  <1>7. ASSUME NEW p \in D PROVE \E i \in 1 .. Len(t) : t[i] = p
    <2>1. Place(ps, p) \in 1 .. Len(ps) /\ ps[Place(ps, p)] = p
      BY ListingIs
    <2>2. Place(ps, p) - 1 \in 1 .. Len(t) /\ (Place(ps, p) - 1) + 1 = Place(ps, p)
      BY <1>1, <1>2, <2>1
    <2> QED
      BY <1>2, <2>1, <2>2
  <1> HIDE DEF D
  <1>9. Len(t) >= 1
    BY <1>1, <1>2
  <1>10. \A p \in D : \E i \in 1 .. Len(t) : t[i] = p
    BY <1>7
  <1>8. Listing(t) /\ ToSet(t) = D
    BY <1>1, <1>5, <1>6, <1>9, <1>10, IsListing
  <1> QED
    BY <1>8 DEF t, D

(* The active pane first, then the others in their order.                  *)
LEMMA ActiveFirst ==
  ASSUME NEW ps, Listing(ps), NEW a \in ToSet(ps)
  PROVE  LET us == <<a>> \o RemoveAt(ps, Place(ps, a))
         IN  Listing(us) /\ ToSet(us) = ToSet(ps)
  <1> DEFINE k == Place(ps, a)
             r == RemoveAt(ps, k)
             us == <<a>> \o r
             D == ToSet(ps)
             n == Len(ps)
  <1>1. n \in Nat /\ D \subseteq Panes /\ k \in 1 .. n /\ ps[k] = a /\ a \in D
    BY ListingIs
  <1>2. ps \in Seq(D)
    BY <1>1, ListingIs DEF Listing
  <1>3. /\ r \in Seq(D) /\ Len(r) = n - 1
        /\ \A i \in 1 .. k - 1 : r[i] = ps[i]
        /\ \A i \in k .. n - 1 : r[i] = ps[i + 1]
    BY <1>1, <1>2, RemoveAtIs
  <1> HIDE DEF k, D, n, r
  <1>4. us \in Seq(D) /\ Len(us) = n /\ \A i \in 1 .. n : us[i] = IF i = 1 THEN a ELSE r[i - 1]
    <2>1. <<a>> \in Seq(D) /\ Len(<<a>>) = 1 /\ <<a>>[1] = a
      BY <1>1
    <2> QED
      BY <1>1, <1>3, <2>1, ConcatProperties
  <1> HIDE DEF us
  <1> DEFINE from(i) == IF i = 1 THEN k ELSE IF i <= k THEN i - 1 ELSE i
  <1>5. \A i \in 1 .. n : from(i) \in 1 .. n /\ us[i] = ps[from(i)]
    <2>1. SUFFICES ASSUME NEW i \in 1 .. n
                   PROVE  from(i) \in 1 .. n /\ us[i] = ps[from(i)]
      OBVIOUS
    <2>2. CASE i = 1
      BY <1>1, <1>4, <2>2
    <2>3. CASE i # 1 /\ i <= k
      <3>1. i - 1 \in 1 .. k - 1 /\ us[i] = r[i - 1]
        BY <1>1, <1>4, <2>3
      <3> QED
        BY <1>1, <1>3, <2>3, <3>1
    <2>4. CASE i # 1 /\ i > k
      <3>1. i - 1 \in k .. n - 1 /\ us[i] = r[i - 1] /\ (i - 1) + 1 = i
        BY <1>1, <1>4, <2>4
      <3>2. r[i - 1] = ps[i]
        BY <1>3, <3>1
      <3> QED
        BY <1>1, <2>4, <3>1, <3>2
    <2> QED
      BY <1>1, <2>2, <2>3, <2>4
  <1>6. ASSUME NEW i \in 1 .. n, NEW j \in 1 .. n, us[i] = us[j] PROVE i = j
    <2>1. from(i) = from(j)
      BY <1>5, <1>6 DEF Listing, n
    <2> QED
      BY <1>1, <2>1
  <1>7. ASSUME NEW p \in D PROVE \E i \in 1 .. n : us[i] = p
    <2>1. PICK j \in 1 .. n : ps[j] = p
      BY ListingIs DEF D, n
    <2>2. CASE j = k
      BY <1>1, <1>4, <2>1, <2>2
    <2>3. CASE j < k
      <3>1. j + 1 \in 1 .. n /\ from(j + 1) = j
        BY <1>1, <2>3
      <3> QED
        BY <1>5, <2>1, <3>1
    <2>4. CASE j > k
      <3>1. from(j) = j
        BY <1>1, <2>4
      <3> QED
        BY <1>5, <2>1, <3>1
    <2> QED
      BY <1>1, <2>2, <2>3, <2>4
  <1>8. Listing(us) /\ ToSet(us) = D
    BY <1>1, <1>4, <1>6, <1>7, IsListing
  <1> QED
    BY <1>8 DEF us, r, k, D

-----------------------------------------------------------------------------
(* Depth first, the leaves come in one order, each once.                   *)
LEMMA LeftOfIs ==
  ASSUME NEW t, IsTree(t)
  PROVE  /\ \A p \in DOMAIN t : ~ LeftOf(t[p], t[p])
         /\ \A p, q \in DOMAIN t : p # q => LeftOf(t[p], t[q]) \/ LeftOf(t[q], t[p])
         /\ \A p, q, r \in DOMAIN t :
              LeftOf(t[p], t[q]) /\ LeftOf(t[q], t[r]) => LeftOf(t[p], t[r])
  <1>1. \A p \in DOMAIN t : t[p] \in Seq(Turns)
    BY DEF IsTree
  <1>2. \A p \in DOMAIN t : ~ LeftOf(t[p], t[p])
    BY <1>1, PartIs DEF LeftOf
  <1>3. ASSUME NEW p \in DOMAIN t, NEW q \in DOMAIN t, p # q
        PROVE  LeftOf(t[p], t[q]) \/ LeftOf(t[q], t[p])
    <2>1. PICK k \in 1 .. Len(t[p]) : Part(t[p], t[q], k)
      BY <1>3 DEF IsTree
    <2>2. /\ k \in 1 .. Len(t[q]) /\ Part(t[q], t[p], k)
          /\ t[p][k].turn # t[q][k].turn /\ t[p][k] \in Turns /\ t[q][k] \in Turns
      BY <1>1, <2>1, PartIs DEF Part
    <2>4. t[p][k].turn \in {"first", "second"} /\ t[q][k].turn \in {"first", "second"}
      BY <2>2, TurnIs
    <2>3. t[p][k].turn = "first" \/ t[q][k].turn = "first"
      BY <2>2, <2>4
    <2> QED
      BY <2>1, <2>2, <2>3 DEF LeftOf
  <1>4. ASSUME NEW p \in DOMAIN t, NEW q \in DOMAIN t, NEW r \in DOMAIN t,
               LeftOf(t[p], t[q]), LeftOf(t[q], t[r])
        PROVE  LeftOf(t[p], t[r])
    <2> DEFINE a == t[p]
               b == t[q]
               c == t[r]
    <2>1. a \in Seq(Turns) /\ b \in Seq(Turns) /\ c \in Seq(Turns)
      BY <1>1
    <2>2. PICK k \in 1 .. Len(a) : Part(a, b, k) /\ a[k].turn = "first"
      BY <1>4 DEF LeftOf
    <2>3. PICK j \in 1 .. Len(b) : Part(b, c, j) /\ b[j].turn = "first"
      BY <1>4 DEF LeftOf
    <2> HIDE DEF a, b, c
    <2>4. /\ k \in Nat /\ k >= 1 /\ k <= Len(a) /\ k <= Len(b) /\ b[k] = Other(a[k])
          /\ a[k].turn # b[k].turn /\ Agree(a, b, k - 1)
      BY <2>1, <2>2, PartIs
    <2>5. /\ j \in Nat /\ j >= 1 /\ j <= Len(b) /\ j <= Len(c) /\ c[j] = Other(b[j])
          /\ Agree(b, c, j - 1)
      BY <2>1, <2>3, PartIs
    <2>6. Len(a) \in Nat /\ Len(b) \in Nat /\ Len(c) \in Nat
      BY <2>1, LenProperties
    <2>7. CASE k < j
      <3>1. Agree(a, c, k - 1) /\ c[k] = b[k]
        BY <2>4, <2>5, <2>7 DEF Agree
      <3> QED
        BY <2>2, <2>4, <2>5, <2>6, <2>7, <3>1 DEF LeftOf, Part, a, c
    <2>8. CASE j < k
      <3>1. Agree(a, c, j - 1) /\ a[j] = b[j]
        BY <2>4, <2>5, <2>8 DEF Agree
      <3>2. j \in 1 .. Len(a) /\ j \in 1 .. Len(c) /\ c[j] = Other(a[j]) /\ a[j].turn = "first"
        BY <2>3, <2>4, <2>5, <2>6, <2>8, <3>1
      <3> QED
        BY <3>1, <3>2 DEF LeftOf, Part, a, c
    <2>9. k # j
      BY <2>2, <2>3, <2>4
    <2> QED
      BY <2>4, <2>5, <2>7, <2>8, <2>9
  <1> QED
    BY <1>2, <1>3, <1>4

LEMMA LeavesIs ==
  ASSUME NEW t, IsTree(t)
  PROVE  Listing(Leaves(t)) /\ ToSet(Leaves(t)) = DOMAIN t
  <1> DEFINE D == DOMAIN t
             n == Cardinality(D)
             L(p) == {q \in D : LeftOf(t[q], t[p])}
             rank == [p \in D |-> Cardinality(L(p)) + 1]
  <1>1. IsFiniteSet(D) /\ D # {} /\ D \subseteq Panes
    BY DEF IsTree
  <1>2. n \in Nat /\ n >= 1
    BY <1>1, FS_CardinalityType, FS_EmptySet
  <1>3. ASSUME NEW p \in D
        PROVE  IsFiniteSet(L(p)) /\ Cardinality(L(p)) \in Nat /\ Cardinality(L(p)) < n
    <2>1. L(p) \subseteq D /\ p \notin L(p)
      BY LeftOfIs
    <2>2. L(p) # D
      BY <2>1
    <2> HIDE DEF L
    <2> QED
      BY <1>1, <2>1, <2>2, FS_Subset, FS_CardinalityType
  <1>4. ASSUME NEW p \in D, NEW q \in D, LeftOf(t[p], t[q])
        PROVE  Cardinality(L(p)) < Cardinality(L(q))
    <2>1. L(p) \subseteq L(q) /\ p \in L(q) /\ p \notin L(p)
      BY <1>4, LeftOfIs
    <2>2. L(p) # L(q)
      BY <2>1
    <2>3. IsFiniteSet(L(q)) /\ Cardinality(L(q)) \in Nat /\ Cardinality(L(p)) \in Nat
      BY <1>3
    <2> HIDE DEF L
    <2>4. Cardinality(L(p)) <= Cardinality(L(q)) /\ Cardinality(L(p)) # Cardinality(L(q))
      BY <2>1, <2>2, <2>3, FS_Subset
    <2> QED
      BY <2>3, <2>4
  <1> HIDE DEF L
  <1>5. ASSUME NEW p \in D, NEW q \in D, p # q PROVE rank[p] # rank[q]
    <2>1. LeftOf(t[p], t[q]) \/ LeftOf(t[q], t[p])
      BY <1>5, LeftOfIs
    <2>2. Cardinality(L(p)) \in Nat /\ Cardinality(L(q)) \in Nat
      BY <1>3
    <2>3. Cardinality(L(p)) # Cardinality(L(q))
      BY <1>4, <2>1, <2>2
    <2> QED
      BY <2>2, <2>3
  <1>6. rank \in [D -> 1 .. n]
    BY <1>2, <1>3
  <1>7. \A i \in 1 .. n : \E p \in D : rank[p] = i
    <2>1. rank \in Injection(D, 1 .. n)
      BY <1>5, <1>6 DEF Injection, IsInjective
    <2>2. IsFiniteSet(1 .. n) /\ Cardinality(1 .. n) = n
      BY <1>2, FS_Interval
    <2> HIDE DEF rank, D
    <2>3. rank \in Surjection(D, 1 .. n)
      BY <2>1, <2>2, FS_Injection DEF n
    <2> QED
      BY <2>3 DEF Surjection
  <1> DEFINE ps == [i \in 1 .. n |-> CHOOSE p \in D : Cardinality(L(p)) = i - 1]
  <1>8. ASSUME NEW i \in 1 .. n PROVE ps[i] \in D /\ rank[ps[i]] = i
    <2>1. PICK p \in D : rank[p] = i
      BY <1>7
    <2>2. Cardinality(L(p)) = i - 1
      BY <1>3, <2>1
    <2>3. ps[i] \in D /\ Cardinality(L(ps[i])) = i - 1
      BY <2>2
    <2> QED
      BY <1>3, <2>3
  <1>9. ps \in Seq(D) /\ Len(ps) = n
    <2>1. ps \in [1 .. n -> D]
      BY <1>8
    <2> HIDE DEF ps, D
    <2> QED
      BY <1>2, <2>1
  <1>10. Leaves(t) = ps
    BY DEF Leaves, L
  <1> HIDE DEF ps
  <1>11. \A i, j \in 1 .. n : ps[i] = ps[j] => i = j
    BY <1>8
  <1>12. ASSUME NEW p \in D PROVE \E i \in 1 .. n : ps[i] = p
    <2>1. rank[p] \in 1 .. n /\ ps[rank[p]] \in D /\ rank[ps[rank[p]]] = rank[p]
      BY <1>6, <1>8
    <2>2. ps[rank[p]] = p
      BY <1>5, <2>1
    <2> QED
      BY <2>1, <2>2
  <1> HIDE DEF rank, D
  <1>13. Listing(ps) /\ ToSet(ps) = D
    BY <1>1, <1>2, <1>9, <1>11, <1>12, IsListing
  <1> QED
    BY <1>10, <1>13 DEF D

-----------------------------------------------------------------------------
(* The rows of the tiled preset.                                           *)
LEMMA TiledRowsIs ==
  ASSUME NEW n \in Nat, n >= 1
  PROVE  TiledRows(n) \in Nat /\ TiledRows(n) >= 1 /\ TiledRows(n) <= n
  <1> DEFINE T == {k \in Nat : 4*n < (2*k + 1) * (2*k + 1)}
  <1>1. n \in T
    <2>1. (2*n + 1) * (2*n + 1) = 4 * (n * n) + 4*n + 1
      OBVIOUS
    <2>2. n * n >= 0
      BY TimesMore
    <2>3. n * n \in Nat
      BY <2>2
    <2> HIDE DEF T
    <2>4. 4*n < 4 * (n * n) + 4*n + 1
      BY <2>3
    <2> QED
      BY <2>1, <2>4 DEF T
  <1>2. T \subseteq Nat /\ T # {}
    BY <1>1
  <1>3. PICK k \in T : \A m \in T : k <= m
    <2> HIDE DEF T
    <2> QED
      BY <1>2, LeastNumber
  <1>4. k \in Nat /\ k <= n
    BY <1>1, <1>3
  <1>5. 4*n < (2*k + 1) * (2*k + 1)
    BY <1>3
  <1>6. k # 0
    BY <1>5
  <1>7. k - 1 \in Nat /\ k - 1 \notin T
    BY <1>3, <1>4, <1>6
  <1>8. ~ (4*n < (2*(k-1) + 1) * (2*(k-1) + 1))
    BY <1>7
  <1>9. (2*(k-1) + 1) * (2*(k-1) + 1) = (2*k - 1) * (2*k - 1) /\ (2*k - 1) * (2*k - 1) \in Int
    BY <1>4
  <1>10. (2*k - 1) * (2*k - 1) <= 4*n
    BY <1>8, <1>9
  <1>11. k \in 1 .. n
    BY <1>4, <1>6
  <1>12. TiledRows(n) \in 1 .. n
    BY <1>5, <1>10, <1>11 DEF TiledRows
  <1> QED
    BY <1>12

LEMMA RestIs ==
  ASSUME NEW n \in Nat, NEW m \in Nat, m > 0
  PROVE  n % m \in Nat /\ n % m < m /\ n = m * (n \div m) + (n % m) /\ n \div m \in Nat
  BY SMTT(30)

(* Every row has a pane, and the rows follow each other from the first pane*)
(* to the last.                                                            *)
LEMMA TiledBeforeIs ==
  ASSUME NEW n \in Nat, n >= 1
  PROVE  /\ TiledBefore(n, 1) = 0 /\ TiledBefore(n, TiledRows(n) + 1) = n
         /\ \A i \in 1 .. TiledRows(n) :
              /\ TiledBefore(n, i) \in Nat /\ TiledBefore(n, i + 1) \in Nat
              /\ TiledBefore(n, i) < TiledBefore(n, i + 1)
         /\ \A i, j \in 1 .. TiledRows(n) + 1 :
              i <= j => TiledBefore(n, i) <= TiledBefore(n, j)
  <1> DEFINE m == TiledRows(n)
             d == n \div m
             e == n % m
             B(i) == TiledBefore(n, i)
  <1>1. m \in Nat /\ m >= 1 /\ m <= n
    BY TiledRowsIs
  <1>2. e \in Nat /\ e < m /\ n = m * d + e /\ d \in Nat
    BY <1>1, RestIs
  <1>3. d >= 1
    <2>1. SUFFICES ASSUME d = 0 PROVE FALSE
      BY <1>2
    <2>2. m * d = 0
      BY <1>1, <2>1
    <2> HIDE DEF m, d, e
    <2> QED
      BY <1>1, <1>2, <2>2
  <1>4. \A i : B(i) = (i - 1) * d + Lesser(i - 1, e)
    BY DEF TiledBefore
  <1> HIDE DEF m, d, e, B
  <1>5. \A i \in Nat : i >= 1 => (i - 1) * d \in Nat /\ i * d = (i - 1) * d + d
    <2>1. SUFFICES ASSUME NEW i \in Nat, i >= 1
                   PROVE  (i - 1) * d \in Nat /\ i * d = (i - 1) * d + d
      OBVIOUS
    <2>5. 0 <= i - 1 /\ i - 1 \in Int
      BY <2>1
    <2>2. d * 0 <= d * (i - 1)
      BY <1>2, <2>5, TimesMore
    <2>3. d * 0 = 0 /\ d * (i - 1) = (i - 1) * d /\ (i - 1) * d \in Int
      BY <1>2
    <2>4. i * d = (i - 1) * d + d
      BY <1>2
    <2> QED
      BY <2>2, <2>3, <2>4
  <1>6. \A i \in Nat : i >= 1 => Lesser(i - 1, e) \in Nat /\ Lesser(i - 1, e) <= Lesser(i, e)
    BY <1>2 DEF Lesser
  <1>7. B(1) = 0
    <2>1. (1 - 1) * d = 0 /\ Lesser(1 - 1, e) = 0
      BY <1>2 DEF Lesser
    <2> QED
      BY <1>4, <2>1
  <1>8. B(m + 1) = n
    <2>1. Lesser((m + 1) - 1, e) = e /\ (m + 1) - 1 = m
      BY <1>1, <1>2 DEF Lesser
    <2> QED
      BY <1>2, <1>4, <2>1
  <1>9. ASSUME NEW i \in 1 .. m
        PROVE  B(i) \in Nat /\ B(i + 1) \in Nat /\ B(i) < B(i + 1)
    <2>1. i \in Nat /\ i >= 1 /\ (i + 1) - 1 = i
      BY <1>1
    <2>2. B(i) = (i - 1) * d + Lesser(i - 1, e) /\ B(i + 1) = i * d + Lesser(i, e)
      BY <1>4, <2>1
    <2>3. (i - 1) * d \in Nat /\ i * d = (i - 1) * d + d
      BY <1>5, <2>1
    <2>4. Lesser(i - 1, e) \in Nat /\ Lesser(i, e) \in Nat /\ Lesser(i - 1, e) <= Lesser(i, e)
      BY <1>2, <1>6, <2>1 DEF Lesser
    <2> DEFINE x == (i - 1) * d
    <2> HIDE DEF x
    <2>5. x \in Nat /\ B(i) = x + Lesser(i - 1, e) /\ B(i + 1) = (x + d) + Lesser(i, e)
      BY <2>2, <2>3 DEF x
    <2> QED
      BY <1>2, <1>3, <2>4, <2>5
  <1>10. ASSUME NEW i \in 1 .. m + 1, NEW j \in 1 .. m + 1, i <= j PROVE B(i) <= B(j)
    <2>1. i - 1 \in Nat /\ j - 1 \in Nat /\ i - 1 <= j - 1
      BY <1>1, <1>10
    <2>2. d * (i - 1) <= d * (j - 1)
      BY <1>2, <2>1, TimesMore
    <2>3. Lesser(i - 1, e) \in Nat /\ Lesser(j - 1, e) \in Nat /\ Lesser(i - 1, e) <= Lesser(j - 1, e)
      BY <1>2, <2>1 DEF Lesser
    <2>4. d * (i - 1) = (i - 1) * d /\ d * (j - 1) = (j - 1) * d
      BY <1>2, <2>1
    <2>5. (i - 1) * d \in Int /\ (j - 1) * d \in Int
      BY <1>2, <2>1
    <2> DEFINE x == (i - 1) * d
               y == (j - 1) * d
    <2>6. B(i) = x + Lesser(i - 1, e) /\ B(j) = y + Lesser(j - 1, e)
      BY <1>4
    <2>7. x <= y /\ x \in Int /\ y \in Int
      BY <2>2, <2>4, <2>5
    <2> HIDE DEF x, y
    <2> QED
      BY <2>3, <2>6, <2>7
  <1>11. \A i \in 1 .. m : B(i) \in Nat /\ B(i + 1) \in Nat /\ B(i) < B(i + 1)
    BY <1>9
  <1>12. \A i, j \in 1 .. m + 1 : i <= j => B(i) <= B(j)
    BY <1>10
  <1> QED
    BY <1>7, <1>8, <1>11, <1>12 DEF B, m

(* Every place is in one row.                                              *)
LEMMA RowOfPlace ==
  ASSUME NEW n \in Nat, n >= 1, NEW k \in 1 .. n
  PROVE  \E i \in 1 .. TiledRows(n) :
           /\ TiledBefore(n, i) < k /\ k <= TiledBefore(n, i + 1)
           /\ \A j \in 1 .. TiledRows(n) :
                TiledBefore(n, j) < k /\ k <= TiledBefore(n, j + 1) => j = i
  <1> DEFINE m == TiledRows(n)
             B(i) == TiledBefore(n, i)
             T == {i \in 1 .. m : k <= B(i + 1)}
  <1>1. m \in Nat /\ m >= 1
    BY TiledRowsIs
  <1>2. /\ B(1) = 0 /\ B(m + 1) = n
        /\ \A i \in 1 .. m : B(i) \in Nat /\ B(i + 1) \in Nat /\ B(i) < B(i + 1)
    BY TiledBeforeIs
  <1>3. \A i, j \in 1 .. m + 1 : i <= j => B(i) <= B(j)
    BY TiledBeforeIs
  <1> HIDE DEF m, B
  <1>4. m \in T /\ T \subseteq Nat /\ T # {}
    BY <1>1, <1>2
  <1>5. PICK i \in T : \A j \in T : i <= j
    <2> HIDE DEF T
    <2> QED
      BY <1>4, LeastNumber
  <1>6. i \in 1 .. m /\ k <= B(i + 1)
    BY <1>5
  <1>7. B(i) < k
    <2>1. CASE i = 1
      BY <1>2, <2>1
    <2>2. CASE i # 1
      <3>1. i - 1 \in 1 .. m /\ (i - 1) + 1 = i /\ ~ (i <= i - 1)
        BY <1>1, <1>6, <2>2
      <3>2. i - 1 \notin T
        BY <1>5, <3>1
      <3>3. ~ (k <= B(i))
        BY <3>1, <3>2
      <3> QED
        BY <1>2, <1>6, <3>3
    <2> QED
      BY <2>1, <2>2
  <1>8. ASSUME NEW j \in 1 .. m, B(j) < k, k <= B(j + 1) PROVE j = i
    <2>1. i <= j
      BY <1>5, <1>8
    <2>2. SUFFICES ASSUME i + 1 <= j PROVE FALSE
      BY <1>1, <1>6, <2>1
    <2>3. i + 1 \in 1 .. m + 1 /\ j \in 1 .. m + 1
      BY <1>1, <1>6
    <2>4. B(i + 1) <= B(j)
      BY <1>3, <2>2, <2>3
    <2> QED
      BY <1>2, <1>6, <1>8, <2>4
  <1> QED
    BY <1>6, <1>7, <1>8 DEF m, B

(* The panes of row i: those at the places after TiledBefore(n, i).        *)
LEMMA TiledRowIs ==
  ASSUME NEW ps, Listing(ps), NEW i \in 1 .. TiledRows(Len(ps))
  PROVE  /\ Listing(TiledRow(ps, i)) /\ ToSet(TiledRow(ps, i)) \subseteq ToSet(ps)
         /\ \A p \in ToSet(ps) :
              p \in ToSet(TiledRow(ps, i)) <=> /\ TiledBefore(Len(ps), i) < Place(ps, p)
                                               /\ Place(ps, p) <= TiledBefore(Len(ps), i + 1)
  <1> DEFINE n == Len(ps)
             m == TiledRows(n)
             a == TiledBefore(n, i)
             b == TiledBefore(n, i + 1)
             row == TiledRow(ps, i)
             D == {p \in ToSet(ps) : a < Place(ps, p) /\ Place(ps, p) <= b}
  <1>1. n \in Nat /\ n >= 1
    BY ListingIs
  <1>2. m \in Nat /\ m >= 1 /\ TiledBefore(n, 1) = 0 /\ TiledBefore(n, m + 1) = n
    BY <1>1, TiledRowsIs, TiledBeforeIs
  <1>3. a \in Nat /\ b \in Nat /\ a < b
    BY <1>1, TiledBeforeIs
  <1>4. b <= n
    <2>1. i + 1 \in 1 .. m + 1 /\ m + 1 \in 1 .. m + 1 /\ i + 1 <= m + 1
      BY <1>2
    <2> QED
      BY <1>1, <1>2, <2>1, TiledBeforeIs
  <1>5. row = SubSeq(ps, a + 1, b)
    BY DEF TiledRow
  <1> HIDE DEF n, m, a, b, row
  <1>6. \A j \in a + 1 .. b : j \in 1 .. n /\ ps[j] \in ToSet(ps) /\ Place(ps, ps[j]) = j
    BY <1>1, <1>3, <1>4, ListingIs DEF n
  <1>7. \A j \in a + 1 .. b : ps[j] \in D
    BY <1>3, <1>6
  <1>8. /\ row \in Seq(D) /\ Len(row) = b - a
        /\ \A j \in 1 .. b - a : row[j] = ps[a + j]
    <2> HIDE DEF D
    <2>1. row = [j \in 1 .. b - a |-> ps[a + j]]
      BY <1>1, <1>3, <1>4, <1>5, LenProperties DEF Listing, n
    <2>2. \A j \in 1 .. b - a : a + j \in a + 1 .. b
      BY <1>3
    <2>3. row \in [1 .. b - a -> D]
      BY <1>7, <2>1, <2>2
    <2>4. b - a \in Nat
      BY <1>3
    <2> QED
      BY <2>1, <2>3, <2>4
  <1>9. Len(row) >= 1
    BY <1>3, <1>8
  <1>10. ASSUME NEW j \in 1 .. Len(row), NEW k \in 1 .. Len(row), row[j] = row[k] PROVE j = k
    <2>1. a + j \in a + 1 .. b /\ a + k \in a + 1 .. b /\ ps[a + j] = ps[a + k]
      BY <1>3, <1>8, <1>10
    <2>2. a + j = a + k
      BY <1>6, <2>1
    <2> QED
      BY <1>3, <1>8, <2>2
  <1>11. ASSUME NEW p \in D PROVE \E j \in 1 .. Len(row) : row[j] = p
    <2>1. ps[Place(ps, p)] = p /\ Place(ps, p) \in 1 .. n
      BY ListingIs DEF n
    <2>2. a < Place(ps, p) /\ Place(ps, p) <= b
      OBVIOUS
    <2>3. Place(ps, p) - a \in 1 .. b - a /\ a + (Place(ps, p) - a) = Place(ps, p)
      BY <1>1, <1>3, <2>1, <2>2
    <2> QED
      BY <1>8, <2>1, <2>3
  <1>12. D \subseteq Panes /\ D \subseteq ToSet(ps)
    BY ListingIs
  <1>13. Listing(row) /\ ToSet(row) = D
    <2> HIDE DEF D
    <2> QED
      BY <1>8, <1>9, <1>10, <1>11, <1>12, IsListing
  <1> QED
    BY <1>12, <1>13 DEF D, a, b, n, row

LEMMA ShapeOfTiled ==
  ASSUME NEW ps, Listing(ps)
  PROVE  IsShape(Tiled(ps)) /\ DOMAIN Tiled(ps) = ToSet(ps)
  <1> DEFINE n == Len(ps)
             m == TiledRows(n)
             D == ToSet(ps)
             row(i) == TiledRow(ps, i)
             r(p) == CHOOSE i \in 1 .. m : p \in ToSet(row(i))
             o == [i \in 1 .. m |-> ChainWay(m, i, "Horizontal")]
             inner == [i \in 1 .. m |-> Chain(row(i), "Vertical")]
             home == [p \in D |-> r(p)]
             u == Tiled(ps)
  <1>1. n \in Nat /\ n >= 1 /\ m \in Nat /\ m >= 1
    BY ListingIs, TiledRowsIs
  <1>2. "Horizontal" \in Dirs /\ "Vertical" \in Dirs
    BY DEF Dirs
  <1>3. IsShape(o)
    BY <1>1, <1>2, ChainShape
  <1>4. ASSUME NEW i \in 1 .. m
        PROVE  /\ Listing(row(i)) /\ ToSet(row(i)) \subseteq D
               /\ IsShape(inner[i]) /\ DOMAIN inner[i] = ToSet(row(i))
    BY <1>2, TiledRowIs, ShapeOfChain
  <1>5. ASSUME NEW p \in D
        PROVE  /\ r(p) \in 1 .. m /\ p \in ToSet(row(r(p)))
               /\ \A i \in 1 .. m : p \in ToSet(row(i)) => i = r(p)
    <2>1. Place(ps, p) \in 1 .. n
      BY ListingIs
    <2>2. PICK i \in 1 .. m :
            /\ TiledBefore(n, i) < Place(ps, p) /\ Place(ps, p) <= TiledBefore(n, i + 1)
            /\ \A j \in 1 .. m :
                 TiledBefore(n, j) < Place(ps, p) /\ Place(ps, p) <= TiledBefore(n, j + 1) => j = i
      BY <1>1, <2>1, RowOfPlace
    <2>3. \A j \in 1 .. m : p \in ToSet(row(j)) <=> j = i
      BY <2>2, TiledRowIs
    <2> HIDE DEF row, m
    <2> QED
      BY <2>3
  <1>6. u = [p \in D |-> ChainWay(m, r(p), "Horizontal") \o Chain(row(r(p)), "Vertical")[p]]
    BY Zenon DEF Tiled
  <1> HIDE DEF u, row, r, m, D
  <1>7. DOMAIN u = D /\ \A p \in D : u[p] = o[home[p]] \o inner[home[p]][p]
    <2>1. DOMAIN u = D
      BY <1>6
    <2>2. ASSUME NEW p \in D PROVE u[p] = o[home[p]] \o inner[home[p]][p]
      <3>1. r(p) \in 1 .. m
        BY <1>5
      <3>2. home[p] = r(p) /\ o[r(p)] = ChainWay(m, r(p), "Horizontal")
        BY <3>1
      <3>3. inner[r(p)] = Chain(row(r(p)), "Vertical")
        BY <3>1
      <3>4. u[p] = ChainWay(m, r(p), "Horizontal") \o Chain(row(r(p)), "Vertical")[p]
        BY <1>6
      <3> QED
        BY <3>2, <3>3, <3>4
    <2> QED
      BY <2>1, <2>2
  <1>8. DOMAIN o = 1 .. m
    OBVIOUS
  <1>9. \A p \in D : home[p] \in 1 .. m
    BY <1>5
  <1>10. ASSUME NEW i \in 1 .. m, NEW p
         PROVE  p \in DOMAIN inner[i] <=> p \in D /\ home[p] = i
    <2>1. p \in DOMAIN inner[i] => p \in D
      BY <1>4
    <2>2. ASSUME p \in D PROVE p \in DOMAIN inner[i] <=> home[p] = i
      <3>1. home[p] = r(p)
        BY <2>2
      <3>2. p \in ToSet(row(i)) <=> i = r(p)
        BY <1>5, <2>2
      <3>3. DOMAIN inner[i] = ToSet(row(i))
        BY <1>4
      <3> QED
        BY <3>1, <3>2, <3>3
    <2> QED
      BY <2>1, <2>2
  <1>11. \A i \in 1 .. m : IsShape(inner[i])
    BY <1>4
  <1> HIDE DEF o, inner, home
  <1>12. IsNested(u, o, inner, home)
    BY <1>3, <1>7, <1>8, <1>9, <1>10, <1>11 DEF IsNested
  <1>13. IsShape(u)
    BY <1>12, NestedShape
  <1> QED
    BY <1>7, <1>13 DEF u, D

(* A tree that is a function: what each operation returns, and what is left*)
(* of another ones's domain when it is written with EXCEPT.                *)
IsKept(t) == IsTree(t) /\ t = [p \in DOMAIN t |-> t[p]]

LEMMA KeptLeaf ==
  ASSUME NEW p \in Panes
  PROVE  IsKept(Leaf(p))
  BY TreeLeaf DEF IsKept, Leaf

LEMMA KeptPreset ==
  ASSUME NEW ps, Listing(ps), NEW preset \in Presets
  PROVE  IsKept(Preset(preset, ps)) /\ DOMAIN Preset(preset, ps) = ToSet(ps)
  <1> DEFINE t == Preset(preset, ps)
             D == ToSet(ps)
  <1>1. /\ D \subseteq Panes /\ IsFiniteSet(D) /\ D # {}
        /\ Len(ps) \in Nat /\ Len(ps) >= 1 /\ ps[1] \in Panes /\ ps[1] \in D
    BY ListingIs
  <1>2. SUFFICES t = [p \in DOMAIN t |-> t[p]] /\ IsShape(t) /\ DOMAIN t = D
    BY <1>1, TreeIsShape DEF IsKept
  <1>3. "Horizontal" \in Dirs /\ "Vertical" \in Dirs
    BY DEF Dirs
  <1>4. \A dir \in Dirs :
          /\ Chain(ps, dir) = [p \in DOMAIN Chain(ps, dir) |-> Chain(ps, dir)[p]]
          /\ IsShape(Chain(ps, dir)) /\ DOMAIN Chain(ps, dir) = D
    BY ShapeOfChain DEF Chain
  <1>5. ASSUME Len(ps) > 1, NEW dir \in Dirs, NEW across \in Dirs
        PROVE  LET b == Beside(dir, 600, Leaf(ps[1]), Chain(Tail(ps), across))
               IN  b = [p \in DOMAIN b |-> b[p]] /\ IsShape(b) /\ DOMAIN b = D
    <2> DEFINE a == Leaf(ps[1])
               c == Chain(Tail(ps), across)
               b == Beside(dir, 600, a, c)
    <2>1. b = [p \in DOMAIN b |-> b[p]]
      BY DEF Beside
    <2>2. IsShape(a) /\ DOMAIN a = {ps[1]}
      BY <1>1, TreeLeaf, TreeIsShape
    <2>3. Listing(Tail(ps)) /\ ToSet(Tail(ps)) = D \ {ps[1]}
      BY <1>5, TailIs
    <2>4. IsShape(c) /\ DOMAIN c = D \ {ps[1]}
      BY <2>3, ShapeOfChain
    <2> HIDE DEF a, c
    <2>5. \A p \in DOMAIN a : p \notin DOMAIN c
      BY <2>2, <2>4
    <2>6. IsShape(b) /\ DOMAIN b = DOMAIN a \cup DOMAIN c
      <3>1. 600 \in Ratios
        BY DEF Ratios
      <3>4. IsShape(a) /\ IsShape(c)
        BY <2>2, <2>4
      <3>5. dir \in Dirs
        OBVIOUS
      <3> HIDE DEF t, D
      <3>6. \A n \in Ratios : IsShape(Beside(dir, n, a, c))
        BY <2>5, <3>4, <3>5, ShapeBeside
      <3>2. IsShape(b)
        BY <3>1, <3>6
      <3>3. DOMAIN b = DOMAIN a \cup DOMAIN c
        BY DEF Beside
      <3> QED
        BY <3>2, <3>3
    <2>7. DOMAIN b = D
      <3>1. DOMAIN b = {ps[1]} \cup (D \ {ps[1]})
        BY <2>2, <2>4, <2>6
      <3> HIDE DEF b, D
      <3>2. ps[1] \in D
        BY <1>1
      <3> QED
        BY <3>1, <3>2
    <2> HIDE DEF b
    <2>8. b = [p \in DOMAIN b |-> b[p]] /\ IsShape(b) /\ DOMAIN b = D
      BY <2>1, <2>6, <2>7
    <2> QED
      BY <2>8 DEF b, a, c
  <1>6. Tiled(ps) = [p \in DOMAIN Tiled(ps) |-> Tiled(ps)[p]] /\ IsShape(Tiled(ps)) /\ DOMAIN Tiled(ps) = D
    <2> DEFINE rows == TiledRows(Len(ps))
               i(p) == CHOOSE i \in 1 .. rows : p \in ToSet(TiledRow(ps, i))
               way(p) == ChainWay(rows, i(p), "Horizontal") \o Chain(TiledRow(ps, i(p)), "Vertical")[p]
    <2>1. Tiled(ps) = [p \in D |-> way(p)]
      BY Zenon DEF Tiled
    <2> HIDE DEF way
    <2>2. Tiled(ps) = [p \in DOMAIN Tiled(ps) |-> Tiled(ps)[p]]
      BY <2>1
    <2> QED
      BY <2>2, ShapeOfTiled
  <1>7. CASE Len(ps) = 1
    <2>1. t = Leaf(ps[1])
      BY <1>7 DEF Preset
    <2>2. D = {ps[1]}
      BY <1>7, ListingIs
    <2> QED
      BY <1>1, <2>1, <2>2, KeptLeaf, TreeLeaf, TreeIsShape DEF IsKept
  <1>8. CASE Len(ps) > 1
    <2>1. ~ (Len(ps) = 1)
      BY <1>1, <1>8
    <2>2. CASE preset = "EvenHorizontal"
      <3>1. t = Chain(ps, "Vertical")
        BY <1>8, <2>1, <2>2 DEF Preset
      <3> QED
        BY <1>3, <1>4, <3>1
    <2>3. CASE preset = "EvenVertical"
      <3>1. t = Chain(ps, "Horizontal")
        BY <1>8, <2>1, <2>3 DEF Preset
      <3> QED
        BY <1>3, <1>4, <3>1
    <2>4. CASE preset = "MainVertical"
      <3>1. t = Beside("Vertical", 600, Leaf(ps[1]), Chain(Tail(ps), "Horizontal"))
        BY <1>8, <2>1, <2>4 DEF Preset
      <3> QED
        BY <1>3, <1>5, <1>8, <3>1
    <2>5. CASE preset = "MainHorizontal"
      <3>1. t = Beside("Horizontal", 600, Leaf(ps[1]), Chain(Tail(ps), "Vertical"))
        BY <1>8, <2>1, <2>5 DEF Preset
      <3> QED
        BY <1>3, <1>5, <1>8, <3>1
    <2>6. CASE preset = "Tiled"
      <3>1. t = Tiled(ps)
        BY <1>8, <2>1, <2>6 DEF Preset
      <3> QED
        BY <1>6, <3>1
    <2> QED
      BY <2>2, <2>3, <2>4, <2>5, <2>6 DEF Presets
  <1>9. Len(ps) = 1 \/ Len(ps) > 1
    <2> DEFINE n == Len(ps)
    <2>1. n \in Nat /\ n >= 1
      BY <1>1
    <2> HIDE DEF n
    <2>2. n = 1 \/ n > 1
      BY <2>1
    <2> QED
      BY <2>2 DEF n
  <1> HIDE DEF t
  <1> QED
    BY <1>7, <1>8, <1>9

-----------------------------------------------------------------------------
(* The invariant of the layout, and that every step keeps it.              *)
Drags == [pane : Panes, side : {"Right", "Bottom"}, at : Int]

LayoutInv == LayoutTypeOK /\ IsKept(tree)

LEMMA KeptWithRatio ==
  ASSUME NEW t, IsTree(t), NEW p \in DOMAIN t, NEW k \in 1 .. Len(t[p]), NEW ratio \in Ratios
  PROVE  IsKept(WithRatio(t, p, k, ratio))
  <1>1. IsTree(WithRatio(t, p, k, ratio))
    BY TreeWithRatio
  <1>2. WithRatio(t, p, k, ratio) = [q \in DOMAIN WithRatio(t, p, k, ratio) |-> WithRatio(t, p, k, ratio)[q]]
    BY DEF WithRatio
  <1> QED
    BY <1>1, <1>2 DEF IsKept

LEMMA KeptSplit ==
  ASSUME NEW t, IsTree(t), NEW target \in DOMAIN t, NEW dir \in Dirs,
         NEW p \in Panes, p \notin DOMAIN t, NEW position
  PROVE  IsKept(SplitIn(t, target, dir, p, position))
  <1> DEFINE u == SplitIn(t, target, dir, p, position)
  <1>1. IsTree(u)
    BY TreeSplit
  <1>2. u = [q \in DOMAIN u |-> u[q]]
    BY DEF SplitIn
  <1> QED
    BY <1>1, <1>2 DEF IsKept

LEMMA KeptClosed ==
  ASSUME NEW t, IsTree(t), NEW target \in DOMAIN t, t[target] # <<>>
  PROVE  IsKept(CloseIn(t, target))
  <1> DEFINE u == CloseIn(t, target)
  <1>1. IsTree(u)
    BY TreeClosed
  <1>2. u = [q \in DOMAIN u |-> u[q]]
    BY DEF CloseIn
  <1> QED
    BY <1>1, <1>2 DEF IsKept

LEMMA KeptSwapped ==
  ASSUME NEW t, IsKept(t), NEW p \in DOMAIN t, NEW q \in DOMAIN t
  PROVE  IsKept(Swapped(t, p, q))
  <1> DEFINE u == Swapped(t, p, q)
  <1>1. IsTree(t) /\ t = [x \in DOMAIN t |-> t[x]]
    BY DEF IsKept
  <1>2. IsTree(u)
    BY <1>1, TreeSwapped
  <1>3. u = [x \in DOMAIN u |-> u[x]]
    BY <1>1 DEF Swapped
  <1> QED
    BY <1>2, <1>3 DEF IsKept

LEMMA KeptReplaced ==
  ASSUME NEW t, IsTree(t), NEW old \in DOMAIN t, NEW new \in Panes, new \notin DOMAIN t
  PROVE  IsKept(Replaced(t, old, new))
  <1> DEFINE u == Replaced(t, old, new)
  <1>1. IsTree(u)
    BY TreeReplaced
  <1>2. u = [q \in DOMAIN u |-> u[q]]
    BY DEF Replaced
  <1> QED
    BY <1>1, <1>2 DEF IsKept

LEMMA KeptResized ==
  ASSUME Whole \in Rectangles, NEW t, IsKept(t), NEW p \in DOMAIN t, NEW axis, NEW delta \in Int
  PROVE  IsKept(ResizeIn(t, p, axis, delta))
  <1>1. IsTree(t)
    BY DEF IsKept
  <1>2. CASE ResizeIn(t, p, axis, delta) = t
    BY <1>2
  <1>3. CASE \E k \in Nearest(t[p], axis) :
               /\ k \in 1 .. Len(t[p])
               /\ ResizeIn(t, p, axis, delta) = WithRatio(t, p, k, Resized(t[p], k, delta))
    <2>1. PICK k \in 1 .. Len(t[p]) :
                 ResizeIn(t, p, axis, delta) = WithRatio(t, p, k, Resized(t[p], k, delta))
      BY <1>3
    <2>2. t[p] \in Seq(Turns)
      BY <1>1 DEF IsTree
    <2>3. Resized(t[p], k, delta) \in Ratios
      BY <2>2, ResizedIs
    <2> QED
      BY <1>1, <2>1, <2>3, KeptWithRatio
  <1> QED
    BY <1>1, <1>2, <1>3, ResizeInIs

LEMMA KeptApplied ==
  ASSUME NEW t, IsTree(t), NEW preset \in Presets, NEW active \in DOMAIN t
  PROVE  LET order == Leaves(t)
             panes == IF preset \in {"MainHorizontal", "MainVertical"}
                        THEN <<active>> \o RemoveAt(order, Place(order, active))
                        ELSE order
         IN  IsKept(Preset(preset, panes)) /\ DOMAIN Preset(preset, panes) = DOMAIN t
  <1> DEFINE order == Leaves(t)
             first == <<active>> \o RemoveAt(order, Place(order, active))
             panes == IF preset \in {"MainHorizontal", "MainVertical"} THEN first ELSE order
  <1>1. Listing(order) /\ ToSet(order) = DOMAIN t
    BY LeavesIs
  <1> HIDE DEF order
  <1>2. Listing(first) /\ ToSet(first) = DOMAIN t
    BY <1>1, ActiveFirst
  <1> HIDE DEF first
  <1>3. Listing(panes) /\ ToSet(panes) = DOMAIN t
    BY <1>1, <1>2
  <1> HIDE DEF panes
  <1>4. IsKept(Preset(preset, panes)) /\ DOMAIN Preset(preset, panes) = DOMAIN t
    BY <1>3, KeptPreset
  <1> QED
    BY <1>4 DEF panes, first, order

(* A border that is hit is a split of the tree.                            *)
LEMMA BorderAtIs ==
  ASSUME NEW t, NEW row, NEW col, NEW s \in BorderAt(t, row, col)
  PROVE  \E p \in DOMAIN t : \E k \in 1 .. Len(t[p]) :
           /\ s = <<p, k>> /\ s[1] = p /\ s[2] = k /\ IsEdge(t[p], k)
           /\ OnGutter(t[p][k], SplitRect(t[p], k), row, col)
  <1>1. /\ s \in Splits(t)
        /\ OnGutter(t[s[1]][s[2]], SplitRect(t[s[1]], s[2]), row, col)
    BY DEF BorderAt
  <1>2. PICK p \in DOMAIN t : s \in {<<p, k>> : k \in {i \in 1 .. Len(t[p]) : IsEdge(t[p], i)}}
    BY <1>1 DEF Splits
  <1>3. PICK k \in {i \in 1 .. Len(t[p]) : IsEdge(t[p], i)} : s = <<p, k>>
    BY <1>2
  <1>4. s[1] = p /\ s[2] = k
    BY <1>3
  <1> QED
    BY <1>1, <1>3, <1>4

LEMMA NamedIs ==
  ASSUME NEW t, NEW hit, NEW k \in Named(t, hit)
  PROVE  /\ hit.pane \in DOMAIN t /\ k \in 1 .. Len(t[hit.pane])
         /\ IsEdge(t[hit.pane], k) /\ Side(t[hit.pane][k].dir) = hit.side
  BY DEF Named

LEMMA LayoutInitInv ==
  ASSUME LayoutAssumption, LayoutInit
  PROVE  LayoutInv
  <1>1. PICK p \in Panes : tree = Leaf(p)
    BY DEF LayoutInit
  <1>2. IsKept(tree)
    BY <1>1, KeptLeaf
  <1>3. IsTree(tree)
    BY <1>2 DEF IsKept
  <1>4. view \in Views /\ ops \in 0 .. MaxOps /\ steady \in BOOLEAN
    BY DEF LayoutInit, LayoutAssumption
  <1>5. drag = NoDrag
    BY DEF LayoutInit
  <1> QED
    BY <1>2, <1>3, <1>4, <1>5 DEF LayoutInv, LayoutTypeOK

LEMMA BecomesInv ==
  ASSUME LayoutAssumption, LayoutInv, NEW t, IsKept(t), Becomes(t)
  PROVE  LayoutInv'
  <1>1. /\ ops < MaxOps /\ ops' = ops + 1 /\ tree' = t /\ view' = view /\ drag' = drag
        /\ steady' \in BOOLEAN
    BY DEF Becomes
  <1>2. /\ view \in Views /\ ops \in 0 .. MaxOps /\ MaxOps \in Nat
        /\ drag = NoDrag \/ drag \in [pane : Panes, side : {"Right", "Bottom"}, at : Int]
    BY DEF LayoutInv, LayoutTypeOK, LayoutAssumption
  <1>3. IsTree(t)
    BY DEF IsKept
  <1>4. IsKept(tree)'
    BY <1>1 DEF IsKept, IsTree, Part, Agree
  <1>5. IsTree(tree)'
    BY <1>4 DEF IsKept
  <1>6. ops' \in 0 .. MaxOps
    BY <1>1, <1>2
  <1> QED
    BY <1>1, <1>2, <1>4, <1>5, <1>6 DEF LayoutInv, LayoutTypeOK

LEMMA CommandsInv ==
  ASSUME LayoutAssumption, LayoutInv, Commands
  PROVE  LayoutInv'
  <1>1. IsKept(tree) /\ IsTree(tree)
    BY DEF LayoutInv, LayoutTypeOK
  <1>2. \A p \in Fresh : p \in Panes /\ p \notin DOMAIN tree
    BY DEF Fresh, InTree
  <1>3. ASSUME NEW t \in Declared, BuildDeclared(t) PROVE LayoutInv'
    <2>1. IsKept(t)
      BY DEF LayoutAssumption, IsKept
    <2> QED
      BY <1>3, <2>1, BecomesInv DEF BuildDeclared
  <1>4. ASSUME NEW q \in InTree, NEW dir \in Dirs, NEW position \in {"Before", "After"},
               SplitPane(q, dir, position)
        PROVE  LayoutInv'
    <2>1. PICK p \in Fresh : Becomes(SplitIn(tree, q, dir, p, position))
      BY <1>4 DEF SplitPane
    <2>2. IsKept(SplitIn(tree, q, dir, p, position))
      BY <1>1, <1>2, KeptSplit DEF InTree
    <2> QED
      BY <2>1, <2>2, BecomesInv
  <1>5. ASSUME NEW p \in InTree, ClosePane(p) PROVE LayoutInv'
    <2>1. IsKept(CloseIn(tree, p)) /\ Becomes(CloseIn(tree, p))
      BY <1>1, <1>5, KeptClosed DEF ClosePane, InTree
    <2> QED
      BY <2>1, BecomesInv
  <1>6. ASSUME NEW p \in InTree, NEW q \in InTree, SwapPanes(p, q) PROVE LayoutInv'
    <2>1. IsKept(Swapped(tree, p, q)) /\ Becomes(Swapped(tree, p, q))
      BY <1>1, <1>6, KeptSwapped DEF SwapPanes, InTree
    <2> QED
      BY <2>1, BecomesInv
  <1>7. ASSUME NEW old \in InTree, ReplaceLeaf(old) PROVE LayoutInv'
    <2>1. PICK p \in Fresh : Becomes(Replaced(tree, old, p))
      BY <1>7 DEF ReplaceLeaf
    <2>2. IsKept(Replaced(tree, old, p))
      BY <1>1, <1>2, KeptReplaced DEF InTree
    <2> QED
      BY <2>1, <2>2, BecomesInv
  <1>8. ASSUME NEW preset \in Presets, NEW active \in InTree, ApplyPreset(preset, active)
        PROVE  LayoutInv'
    <2> DEFINE order == Leaves(tree)
               panes == IF preset \in {"MainHorizontal", "MainVertical"}
                          THEN <<active>> \o RemoveAt(order, Place(order, active))
                          ELSE order
    <2>1. Becomes(Preset(preset, panes))
      BY <1>8 DEF ApplyPreset, Arranged
    <2>2. IsKept(Preset(preset, panes))
      BY <1>1, KeptApplied DEF InTree
    <2> HIDE DEF panes
    <2> QED
      BY <2>1, <2>2, BecomesInv
  <1> QED
    BY <1>3, <1>4, <1>5, <1>6, <1>7, <1>8 DEF Commands

(* What a step of a drag and a resize do to the tree.                      *)
LEMMA DragMoveIs ==
  ASSUME LayoutAssumption, LayoutInv, NEW delta \in Deltas, DragMove(delta)
  PROVE  \E k \in Named(tree, drag) :
           LET p == drag.pane
               n == tree[p][k]
               r == SplitRect(tree[p], k)
           IN  /\ p \in DOMAIN tree /\ k \in 1 .. Len(tree[p]) /\ n \in Turns
               /\ r \in Rectangles /\ Dragged(n, r, delta) \in Ratios
               /\ Applied(n, r, delta) \in Int /\ delta \in Int
               /\ drag \in [pane : Panes, side : {"Right", "Bottom"}, at : Int]
               /\ tree' = WithRatio(tree, p, k, Dragged(n, r, delta))
               /\ drag' = [drag EXCEPT !.at = @ + Applied(n, r, delta)]
               /\ ops < MaxOps /\ ops' = ops + 1 /\ view' = view /\ steady' = steady
  <1>1. PICK k \in Named(tree, drag) :
          /\ tree' = WithRatio(tree, drag.pane, k,
                               Dragged(tree[drag.pane][k], SplitRect(tree[drag.pane], k), delta))
          /\ drag' = [drag EXCEPT
                        !.at = @ + Applied(tree[drag.pane][k], SplitRect(tree[drag.pane], k), delta)]
    BY DEF DragMove
  <1> DEFINE p == drag.pane
             n == tree[p][k]
             r == SplitRect(tree[p], k)
  <1>2. drag \in [pane : Panes, side : {"Right", "Bottom"}, at : Int]
    BY DEF DragMove, LayoutInv, LayoutTypeOK
  <1>3. p \in DOMAIN tree /\ k \in 1 .. Len(tree[p])
    BY NamedIs
  <1>4. tree[p] \in Seq(Turns)
    BY <1>3 DEF LayoutInv, LayoutTypeOK, IsTree
  <1>5. n \in Turns
    BY <1>3, <1>4, ElementOfSeq
  <1>6. r \in Rectangles
    <2>1. Whole \in Rectangles
      BY WholeIs DEF LayoutInv, LayoutTypeOK
    <2>2. PICK a : OnWay(a, Whole, tree[p])
      BY <1>4, <2>1, DescendedIs
    <2> QED
      BY <1>3, <1>4, <2>1, <2>2, SplitRectIs DEF SplitRect
  <1>7. delta \in Int
    BY DEF LayoutAssumption
  <1>8. Dragged(n, r, delta) \in Ratios /\ Applied(n, r, delta) \in Int
    BY <1>5, <1>6, <1>7, DraggedIs
  <1>9. ops < MaxOps /\ ops' = ops + 1 /\ view' = view /\ steady' = steady
    BY DEF DragMove
  <1> QED
    BY <1>1, <1>2, <1>3, <1>5, <1>6, <1>7, <1>8, <1>9

LEMMA LayoutStepInv ==
  ASSUME LayoutAssumption, LayoutInv, LayoutNext
  PROVE  LayoutInv'
  <1>1. /\ IsTree(tree) /\ IsKept(tree) /\ view \in Views /\ steady \in BOOLEAN
        /\ ops \in 0 .. MaxOps /\ MaxOps \in Nat
        /\ drag = NoDrag \/ drag \in Drags
    BY DEF LayoutInv, LayoutTypeOK, LayoutAssumption, Drags
  <1>2. Whole \in Rectangles
    BY <1>1, WholeIs
  <1>3. CASE Commands
    BY <1>3, CommandsInv
  <1>4. CASE Resizes
    <2>1. PICK p \in InTree, axis \in Dirs, delta \in {-3, 3} : ResizePane(p, axis, delta)
      BY <1>4 DEF Resizes
    <2>2. delta \in Int
      OBVIOUS
    <2>3. IsKept(ResizeIn(tree, p, axis, delta)) /\ Becomes(ResizeIn(tree, p, axis, delta))
      BY <1>1, <1>2, <2>1, <2>2, KeptResized DEF ResizePane, InTree
    <2> QED
      BY <2>3, BecomesInv
  <1>5. ASSUME NEW v \in Views \ {view}, ViewChanges(v) PROVE LayoutInv'
    <2>1. /\ ops < MaxOps /\ ops' = ops + 1 /\ view' = v /\ tree' = tree /\ drag' = drag
          /\ steady' \in BOOLEAN
      BY <1>5 DEF ViewChanges
    <2>2. IsTree(tree)' /\ IsKept(tree)'
      BY <1>1, <2>1 DEF IsKept, IsTree, Part, Agree
    <2>3. ops' \in 0 .. MaxOps
      BY <1>1, <2>1
    <2> QED
      BY <1>1, <2>1, <2>2, <2>3 DEF LayoutInv, LayoutTypeOK, Drags
  <1>6. ASSUME NEW row \in 1 .. view[1], NEW col \in 1 .. view[2], BeginDrag(row, col)
        PROVE  LayoutInv'
    <2>1. tree' = tree /\ view' = view /\ steady' = steady /\ ops' = ops
      BY <1>6 DEF BeginDrag
    <2>2. PICK s \in BorderAt(tree, row, col) :
            drag' = [pane |-> s[1], side |-> Side(tree[s[1]][s[2]].dir),
                     at |-> IF Side(tree[s[1]][s[2]].dir) = "Right" THEN col ELSE row]
      BY <1>6 DEF BeginDrag
    <2>3. s[1] \in Panes
      BY <1>1, BorderAtIs DEF IsTree
    <2>4. row \in Int /\ col \in Int
      BY <1>1, WholeIs
    <2>5. \A dir : Side(dir) \in {"Right", "Bottom"}
      BY DEF Side
    <2>6. drag' \in Drags
      BY <2>2, <2>3, <2>4, <2>5 DEF Drags
    <2>7. IsTree(tree)' /\ IsKept(tree)'
      BY <1>1, <2>1 DEF IsKept, IsTree, Part, Agree
    <2> QED
      BY <1>1, <2>1, <2>6, <2>7 DEF LayoutInv, LayoutTypeOK, Drags
  <1>7. ASSUME NEW delta \in Deltas, DragMove(delta) PROVE LayoutInv'
    <2>1. PICK k \in Named(tree, drag) :
           LET p == drag.pane
               n == tree[p][k]
               r == SplitRect(tree[p], k)
           IN  /\ p \in DOMAIN tree /\ k \in 1 .. Len(tree[p]) /\ n \in Turns
               /\ r \in Rectangles /\ Dragged(n, r, delta) \in Ratios
               /\ Applied(n, r, delta) \in Int /\ delta \in Int
               /\ drag \in [pane : Panes, side : {"Right", "Bottom"}, at : Int]
               /\ tree' = WithRatio(tree, p, k, Dragged(n, r, delta))
               /\ drag' = [drag EXCEPT !.at = @ + Applied(n, r, delta)]
               /\ ops < MaxOps /\ ops' = ops + 1 /\ view' = view /\ steady' = steady
      BY <1>7, DragMoveIs
    <2>2. IsKept(WithRatio(tree, drag.pane, k,
                   Dragged(tree[drag.pane][k], SplitRect(tree[drag.pane], k), delta)))
      BY <1>1, <2>1, KeptWithRatio
    <2>3. IsTree(tree)' /\ IsKept(tree)'
      <3> DEFINE t == WithRatio(tree, drag.pane, k,
                        Dragged(tree[drag.pane][k], SplitRect(tree[drag.pane], k), delta))
      <3>1. tree' = t
        BY <2>1
      <3>2. IsKept(t) /\ IsTree(t)
        BY <2>2 DEF IsKept
      <3> HIDE DEF t
      <3> QED
        BY <3>1, <3>2 DEF IsKept, IsTree, Part, Agree
    <2>4. drag' \in Drags
      BY <2>1 DEF Drags
    <2>5. ops' \in 0 .. MaxOps
      BY <1>1, <2>1
    <2> QED
      BY <1>1, <2>1, <2>3, <2>4, <2>5 DEF LayoutInv, LayoutTypeOK, Drags
  <1>8. CASE EndDrag
    <2>1. tree' = tree /\ view' = view /\ drag' = NoDrag /\ steady' = TRUE /\ ops' = ops
      BY <1>8 DEF EndDrag
    <2>2. IsTree(tree)' /\ IsKept(tree)'
      BY <1>1, <2>1 DEF IsKept, IsTree, Part, Agree
    <2> QED
      BY <1>1, <2>1, <2>2 DEF LayoutInv, LayoutTypeOK
  <1> QED
    BY <1>3, <1>4, <1>5, <1>6, <1>7, <1>8 DEF LayoutNext

LEMMA LayoutStutter ==
  ASSUME LayoutInv, UNCHANGED layoutVars
  PROVE  LayoutInv'
  <1>1. tree' = tree /\ view' = view /\ drag' = drag /\ steady' = steady /\ ops' = ops
    BY DEF layoutVars
  <1>2. IsTree(tree)' /\ IsKept(tree)'
    BY <1>1 DEF LayoutInv, LayoutTypeOK, IsKept, IsTree, Part, Agree
  <1> QED
    BY <1>1, <1>2 DEF LayoutInv, LayoutTypeOK

LEMMA LayoutInvariant == LayoutSpec => []LayoutInv
  <1>1. LayoutInit => LayoutInv
    BY LayoutAssumption, LayoutInitInv
  <1>2. LayoutInv /\ [LayoutNext]_layoutVars => LayoutInv'
    BY LayoutAssumption, LayoutStepInv, LayoutStutter
  <1> QED
    BY <1>1, <1>2, PTL DEF LayoutSpec

(* Whatever the commands of the clients do to the layout, and in whatever  *)
(* order, every pane of a window is at one leaf of its tree, every split   *)
(* has two children and every ratio is in its range: what layout.rs takes  *)
(* for granted of the tree it is given, and what a split, a close, a swap, *)
(* a preset, a resize or a drag must leave behind.                         *)
THEOREM TreeStaysWhole == LayoutSpec => []LayoutTypeOK
  <1>1. LayoutInv => LayoutTypeOK
    BY DEF LayoutInv
  <1> QED
    BY <1>1, LayoutInvariant, PTL

(* In every state between drags no cell belongs to two panes, none lies    *)
(* outside the viewport, and the pane that pane_at_coord finds under a     *)
(* click is the one whose rectangle is painted there.                      *)
THEOREM ClicksFindWhatIsPainted == LayoutSpec => []CellsAgree
  <1>1. LayoutInv => CellsAgree
    BY LayoutAssumption, TreeCellsAgree DEF LayoutInv, LayoutTypeOK
  <1> QED
    BY <1>1, LayoutInvariant, PTL

-----------------------------------------------------------------------------
(* The pane that a border is named by, and the drag of this border.        *)

(* A pane is the last leaf of a first child of a direction at one split.   *)
LEMMA EdgeOfOne ==
  ASSUME NEW s \in Seq(Turns), NEW j \in 1 .. Len(s), NEW k \in 1 .. Len(s),
         IsEdge(s, j), IsEdge(s, k), s[j].dir = s[k].dir
  PROVE  j = k
  <1>1. Len(s) \in Nat /\ j \in Nat /\ k \in Nat
    BY LenProperties
  <1>2. s[j].turn = "first" /\ s[k].turn = "first"
    BY DEF IsEdge
  <1>3. ASSUME j < k PROVE FALSE
    <2>1. k \in j + 1 .. Len(s)
      BY <1>1, <1>3
    <2>2. s[k].turn = "second"
      BY <2>1 DEF IsEdge
    <2> QED
      BY <1>2, <2>2
  <1>4. ASSUME k < j PROVE FALSE
    <2>1. j \in k + 1 .. Len(s)
      BY <1>1, <1>4
    <2>2. s[j].turn = "second"
      BY <2>1 DEF IsEdge
    <2> QED
      BY <1>2, <2>2
  <1> QED
    BY <1>1, <1>3, <1>4

LEMMA SideIs ==
  ASSUME NEW c \in Dirs, NEW d \in Dirs, Side(c) = Side(d)
  PROVE  c = d
  BY DEF Dirs, Side

LEMMA NamedOne ==
  ASSUME NEW t, IsTree(t), NEW hit, NEW k \in Named(t, hit)
  PROVE  Named(t, hit) = {k}
  <1> DEFINE s == t[hit.pane]
  <1>1. hit.pane \in DOMAIN t /\ k \in 1 .. Len(s) /\ IsEdge(s, k) /\ Side(s[k].dir) = hit.side
    BY NamedIs
  <1>2. s \in Seq(Turns)
    BY <1>1 DEF IsTree
  <1>3. ASSUME NEW j \in Named(t, hit) PROVE j = k
    <2>1. j \in 1 .. Len(s) /\ IsEdge(s, j) /\ Side(s[j].dir) = hit.side
      BY NamedIs
    <2> HIDE DEF s
    <2>2. s[j] \in Turns /\ s[k] \in Turns
      BY <1>1, <1>2, <2>1, ElementOfSeq
    <2>3. s[j].dir \in Dirs /\ s[k].dir \in Dirs
      BY <2>2, TurnIs
    <2>4. s[j].dir = s[k].dir
      BY <1>1, <2>1, <2>3, SideIs
    <2> QED
      BY <1>1, <1>2, <2>1, <2>4, EdgeOfOne
  <1> QED
    BY <1>3

(* Another ratio leaves the ways, and so the names of the splits.          *)
KeepsWay(t, u, p, k, ratio) ==
  /\ p \in DOMAIN u /\ k \in 1 .. Len(u[p]) /\ u[p] \in Seq(Turns)
  /\ u[p][k] = Turn(t[p][k].dir, ratio, t[p][k].turn)
  /\ Above(u[p], k) = Above(t[p], k)
  /\ IsEdge(t[p], k) => IsEdge(u[p], k)

LEMMA SameWays ==
  ASSUME NEW t, IsTree(t), NEW p \in DOMAIN t, NEW k \in 1 .. Len(t[p]), NEW ratio \in Ratios
  PROVE  KeepsWay(t, WithRatio(t, p, k, ratio), p, k, ratio)
  <1> DEFINE u == WithRatio(t, p, k, ratio)
             s == t[p]
             w == u[p]
             n == Len(s)
  <1>1. s \in Seq(Turns)
    BY DEF IsTree
  <1>2. n \in Nat /\ k \in 1 .. n
    BY <1>1, LenProperties
  <1>3. Under(s, k, s)
    BY DEF Under, Agree
  <1>10. /\ DOMAIN u = DOMAIN t
         /\ \A q \in DOMAIN t :
              /\ u[q] \in Seq(Turns) /\ Len(u[q]) = Len(t[q])
              /\ \A i \in 1 .. Len(t[q]) :
                   u[q][i] = IF i = k /\ Under(t[p], k, t[q])
                               THEN Turn(t[q][i].dir, ratio, t[q][i].turn) ELSE t[q][i]
    <2>1. Rerated(t, u, p, k, ratio)
      BY WithRatioIs
    <2> QED
      BY <2>1 DEF Rerated
  <1> HIDE DEF u
  <1>4. DOMAIN u = DOMAIN t /\ w \in Seq(Turns) /\ Len(w) = n
    BY <1>10
  <1>5. \A i \in 1 .. n : w[i] = IF i = k THEN Turn(s[i].dir, ratio, s[i].turn) ELSE s[i]
    BY <1>3, <1>10
  <1> HIDE DEF s, w, n
  <1>6. w[k] = Turn(s[k].dir, ratio, s[k].turn)
    BY <1>2, <1>5
  <1>7. \A i \in 1 .. n : w[i].dir = s[i].dir /\ w[i].turn = s[i].turn
    <2>1. SUFFICES ASSUME NEW i \in 1 .. n PROVE w[i].dir = s[i].dir /\ w[i].turn = s[i].turn
      OBVIOUS
    <2>2. w[i] = IF i = k THEN Turn(s[i].dir, ratio, s[i].turn) ELSE s[i]
      BY <1>5
    <2> QED
      BY <2>2 DEF Turn
  <1>8. Above(w, k) = Above(s, k)
    <2>1. /\ Above(s, k) \in Seq(Turns) /\ Len(Above(s, k)) = k - 1
          /\ \A i \in 1 .. k - 1 : Above(s, k)[i] = s[i]
      BY <1>1, <1>2, AboveIs DEF n
    <2>2. /\ Above(w, k) \in Seq(Turns) /\ Len(Above(w, k)) = k - 1
          /\ \A i \in 1 .. k - 1 : Above(w, k)[i] = w[i]
      BY <1>2, <1>4, AboveIs
    <2>3. \A i \in 1 .. k - 1 : w[i] = s[i]
      BY <1>2, <1>5
    <2> QED
      BY <2>1, <2>2, <2>3, SeqEqual
  <1>9. IsEdge(s, k) => IsEdge(w, k)
    <2>1. ASSUME IsEdge(s, k) PROVE IsEdge(w, k)
      <3>1. w[k].turn = "first"
        BY <1>2, <1>7, <2>1 DEF IsEdge
      <3>2. ASSUME NEW i \in k + 1 .. Len(w)
            PROVE  w[i].turn = IF w[i].dir = w[k].dir THEN "second" ELSE "first"
        <4>1. i \in 1 .. n /\ i \in k + 1 .. Len(s)
          BY <1>2, <1>4 DEF n
        <4>2. s[i].turn = IF s[i].dir = s[k].dir THEN "second" ELSE "first"
          BY <2>1, <4>1 DEF IsEdge
        <4> QED
          BY <1>2, <1>7, <4>1, <4>2
      <3> QED
        BY <3>1, <3>2 DEF IsEdge
    <2> QED
      BY <2>1
  <1> QED
    BY <1>2, <1>4, <1>6, <1>8, <1>9 DEF u, w, s, n, KeepsWay

LEMMA BeginDragFollows ==
  ASSUME LayoutAssumption, LayoutInv, NEW row, NEW col, BeginDrag(row, col)
  PROVE  DragFollows'
  <1>1. PICK s \in BorderAt(tree, row, col) :
          drag' = [pane |-> s[1], side |-> Side(tree[s[1]][s[2]].dir),
                   at |-> IF Side(tree[s[1]][s[2]].dir) = "Right" THEN col ELSE row]
    BY DEF BeginDrag
  <1>2. PICK p \in DOMAIN tree : \E k \in 1 .. Len(tree[p]) :
           /\ s = <<p, k>> /\ s[1] = p /\ s[2] = k /\ IsEdge(tree[p], k)
           /\ OnGutter(tree[p][k], SplitRect(tree[p], k), row, col)
    BY BorderAtIs
  <1>3. PICK k \in 1 .. Len(tree[p]) :
           /\ s[1] = p /\ s[2] = k /\ IsEdge(tree[p], k)
           /\ OnGutter(tree[p][k], SplitRect(tree[p], k), row, col)
    BY <1>2
  <1> DEFINE n == tree[p][k]
             r == SplitRect(tree[p], k)
  <1>4. tree' = tree /\ view' = view
    BY DEF BeginDrag
  <1>5. IsTree(tree)
    BY DEF LayoutInv, LayoutTypeOK
  <1>6. n.dir \in Dirs
    <2>1. n \in Turns
      BY <1>5, LenProperties DEF IsTree
    <2> QED
      BY <2>1, TurnIs
  <1>7. drag' = [pane |-> p, side |-> Side(n.dir), at |-> IF Side(n.dir) = "Right" THEN col ELSE row]
    BY <1>1, <1>3
  <1>8. Gutter(n, r) = IF Side(n.dir) = "Right" THEN col ELSE row
    <2> HIDE DEF n, r
    <2>1. OnGutter(n, r, row, col)
      BY <1>3 DEF n, r
    <2> QED
      BY <1>6, <2>1 DEF OnGutter, Side, Dirs
  <1>9. k \in Named(tree, drag')
    BY <1>3, <1>7 DEF Named
  <1>10. Named(tree, drag') = {k}
    BY <1>5, <1>9, NamedOne
  <1>11. Gutter(tree[drag'.pane][k], SplitRect(tree[drag'.pane], k)) = drag'.at
    BY <1>7, <1>8
  <1>12. Named(tree', drag') = {k}
    BY <1>4, <1>10
  <1>13. Gutter(tree[drag.pane][k], SplitRect(tree[drag.pane], k))' = drag'.at
    <2>1. SplitRect(tree[drag.pane], k)' = Descended(Whole', Above(tree'[drag'.pane], k))
      BY DEF SplitRect
    <2>2. Whole' = Whole
      BY <1>4 DEF Whole
    <2>3. SplitRect(tree[drag.pane], k)' = SplitRect(tree[p], k) /\ tree'[drag'.pane] = tree[p]
      BY <1>4, <1>7, <2>1, <2>2 DEF SplitRect
    <2>4. drag'.pane = p
      BY <1>7
    <2> QED
      BY <1>11, <2>3, <2>4
  <1> QED
    BY <1>9, <1>12, <1>13 DEF DragFollows

LEMMA DragMoveFollows ==
  ASSUME LayoutAssumption, LayoutInv, DragFollows, NEW delta \in Deltas, DragMove(delta)
  PROVE  DragFollows'
  <1>1. PICK k \in Named(tree, drag) :
           LET p == drag.pane
               n == tree[p][k]
               r == SplitRect(tree[p], k)
           IN  /\ p \in DOMAIN tree /\ k \in 1 .. Len(tree[p]) /\ n \in Turns
               /\ r \in Rectangles /\ Dragged(n, r, delta) \in Ratios
               /\ Applied(n, r, delta) \in Int /\ delta \in Int
               /\ drag \in [pane : Panes, side : {"Right", "Bottom"}, at : Int]
               /\ tree' = WithRatio(tree, p, k, Dragged(n, r, delta))
               /\ drag' = [drag EXCEPT !.at = @ + Applied(n, r, delta)]
               /\ ops < MaxOps /\ ops' = ops + 1 /\ view' = view /\ steady' = steady
    BY DragMoveIs
  <1> DEFINE p == drag.pane
             n == tree[p][k]
             r == SplitRect(tree[p], k)
             u == WithRatio(tree, p, k, Dragged(n, r, delta))
             q == u[p][k]
  <1>2. /\ p \in DOMAIN tree /\ k \in 1 .. Len(tree[p]) /\ n \in Turns
        /\ r \in Rectangles /\ Dragged(n, r, delta) \in Ratios
        /\ tree' = u
    BY <1>1
  <1>3. IsTree(tree)
    BY DEF LayoutInv, LayoutTypeOK
  <1>4. SUFFICES ASSUME steady' PROVE DragFollows'
    BY DEF DragFollows
  <1>5. drag # NoDrag /\ steady
    BY <1>1, <1>4 DEF DragMove
  <1>6. Named(tree, drag) = {k}
    BY <1>3, NamedOne
  <1>7. Gutter(n, r) = drag.at
    BY <1>5, <1>6 DEF DragFollows
  <1>8. drag' = [drag EXCEPT !.at = @ + Applied(n, r, delta)]
    BY <1>1
  <1>9. drag'.pane = p /\ drag'.side = drag.side /\ drag'.at = drag.at + Applied(n, r, delta)
    <2>1. drag \in [pane : Panes, side : {"Right", "Bottom"}, at : Int]
      BY <1>1
    <2> HIDE DEF n, r
    <2> QED
      BY <1>8, <2>1
  <1>10. IsTree(u)
    BY <1>2, <1>3, TreeWithRatio
  <1>11. /\ p \in DOMAIN u /\ k \in 1 .. Len(u[p])
         /\ q = Turn(n.dir, Dragged(n, r, delta), n.turn)
         /\ Above(u[p], k) = Above(tree[p], k)
         /\ IsEdge(tree[p], k) => IsEdge(u[p], k)
    <2>1. /\ p \in DOMAIN u /\ k \in 1 .. Len(u[p]) /\ u[p] \in Seq(Turns)
          /\ u[p][k] = Turn(tree[p][k].dir, Dragged(n, r, delta), tree[p][k].turn)
          /\ Above(u[p], k) = Above(tree[p], k)
          /\ IsEdge(tree[p], k) => IsEdge(u[p], k)
      <3>1. KeepsWay(tree, u, p, k, Dragged(n, r, delta))
        <4> HIDE DEF n, r, p
        <4> QED
          BY <1>2, <1>3, SameWays
      <3> QED
        BY <3>1 DEF KeepsWay
    <2> QED
      BY <2>1
  <1>12. IsEdge(tree[p], k) /\ Side(n.dir) = drag.side
    BY NamedIs
  <1>13. q.dir = n.dir /\ q.ratio = Dragged(n, r, delta)
    BY <1>11 DEF Turn
  <1>14. Gutter(q, r) = Gutter(n, r) + Applied(n, r, delta)
    <2>1. n.dir \in {"Horizontal", "Vertical"} /\ n.ratio \in Int /\ delta \in Int
      BY <1>1, <1>2, TurnIs
    <2> HIDE DEF n, r, q
    <2> QED
      BY <1>2, <1>13, <2>1, DragKeepsItsBorder
  <1> HIDE DEF n, r, q, u
  <1>15. u[p][k] = q
    BY DEF q
  <1>16. k \in Named(u, drag')
    BY <1>9, <1>11, <1>12, <1>13, <1>15 DEF Named
  <1>17. Named(tree', drag') = {k}
    BY <1>2, <1>10, <1>16, NamedOne
  <1>18. SplitRect(tree[drag.pane], k)' = r
    <2>1. view' = view
      BY <1>1
    <2>2. SplitRect(tree[drag.pane], k)' = Descended(Whole', Above(tree'[drag'.pane], k))
      BY DEF SplitRect
    <2>3. Whole' = Whole
      BY <2>1 DEF Whole
    <2>4. tree'[drag'.pane] = u[p]
      BY <1>2, <1>9
    <2>5. Descended(Whole, Above(u[p], k)) = r
      BY <1>11 DEF SplitRect, r
    <2> QED
      BY <2>2, <2>3, <2>4, <2>5
  <1>19. Gutter(tree[drag.pane][k], SplitRect(tree[drag.pane], k))' = drag'.at
    BY <1>2, <1>7, <1>9, <1>14, <1>15, <1>18
  <1> QED
    BY <1>16, <1>17, <1>19 DEF DragFollows

LEMMA LayoutStepFollows ==
  ASSUME LayoutAssumption, LayoutInv, DragFollows, LayoutNext
  PROVE  DragFollows'
  <1>1. ASSUME NEW t, Becomes(t) PROVE DragFollows'
    BY <1>1 DEF Becomes, DragFollows
  <1>2. CASE Commands
    BY <1>1, <1>2 DEF Commands, BuildDeclared, SplitPane, ClosePane, SwapPanes, ReplaceLeaf, ApplyPreset
  <1>3. CASE Resizes
    BY <1>1, <1>3 DEF Resizes, ResizePane
  <1>4. ASSUME NEW v \in Views \ {view}, ViewChanges(v) PROVE DragFollows'
    BY <1>4 DEF ViewChanges, DragFollows
  <1>5. ASSUME NEW row \in 1 .. view[1], NEW col \in 1 .. view[2], BeginDrag(row, col)
        PROVE  DragFollows'
    BY <1>5, BeginDragFollows
  <1>6. ASSUME NEW delta \in Deltas, DragMove(delta) PROVE DragFollows'
    BY <1>6, DragMoveFollows
  <1>7. CASE EndDrag
    BY <1>7 DEF EndDrag, DragFollows
  <1> QED
    BY <1>2, <1>3, <1>4, <1>5, <1>6, <1>7 DEF LayoutNext

LEMMA LayoutStutterFollows ==
  ASSUME DragFollows, UNCHANGED layoutVars
  PROVE  DragFollows'
  <1>1. tree' = tree /\ view' = view /\ drag' = drag /\ steady' = steady
    BY DEF layoutVars
  <1> QED
    BY <1>1 DEF DragFollows, Named, SplitRect, Whole

(* As long as nothing but the drag has changed the layout, the pane and the*)
(* side that a drag keeps (ResizeDrag) name exactly one split, and the     *)
(* position it keeps is that of this split's border, whatever the pointer  *)
(* asked for: handle_resize_drag_event adds what adjust_split says it has  *)
(* applied, and drag_boundary finds the split again by its name.           *)
THEOREM DragFollowsItsBorder == LayoutSpec => []DragFollows
  <1>1. LayoutInit => LayoutInv /\ DragFollows
    BY LayoutAssumption, LayoutInitInv DEF LayoutInit, DragFollows
  <1>2. LayoutInv /\ DragFollows /\ [LayoutNext]_layoutVars => (LayoutInv /\ DragFollows)'
    BY LayoutAssumption, LayoutStepInv, LayoutStutter, LayoutStepFollows, LayoutStutterFollows
  <1> QED
    BY <1>1, <1>2, PTL DEF LayoutSpec

-----------------------------------------------------------------------------
(* What a resize and a step of a drag may change.                          *)
LEMMA SameAbove ==
  ASSUME NEW s \in Seq(Turns), NEW t \in Seq(Turns), NEW k \in 1 .. Len(s), Under(s, k, t)
  PROVE  Above(t, k) = Above(s, k)
  <1>1. k \in 1 .. Len(t) /\ Agree(s, t, k - 1)
    BY DEF Under
  <1>2. /\ Above(s, k) \in Seq(Turns) /\ Len(Above(s, k)) = k - 1
        /\ \A i \in 1 .. k - 1 : Above(s, k)[i] = s[i]
    BY AboveIs
  <1>3. /\ Above(t, k) \in Seq(Turns) /\ Len(Above(t, k)) = k - 1
        /\ \A i \in 1 .. k - 1 : Above(t, k)[i] = t[i]
    BY <1>1, AboveIs
  <1>4. \A i \in 1 .. k - 1 : s[i] = t[i]
    BY <1>1 DEF Agree
  <1> QED
    BY <1>2, <1>3, <1>4, SeqEqual

LEMMA OneBorderIs ==
  ASSUME IsTree(tree), NEW p \in DOMAIN tree, NEW k \in 1 .. Len(tree[p]), NEW ratio \in Ratios,
         tree' = WithRatio(tree, p, k, ratio)
  PROVE  OnlyMoves(p, {k})
  <1> DEFINE u == WithRatio(tree, p, k, ratio)
  <1>1. /\ DOMAIN u = DOMAIN tree
        /\ \A q \in DOMAIN tree :
             /\ u[q] \in Seq(Turns) /\ Len(u[q]) = Len(tree[q])
             /\ \A i \in 1 .. Len(tree[q]) :
                  u[q][i] = IF i = k /\ Under(tree[p], k, tree[q])
                              THEN Turn(tree[q][i].dir, ratio, tree[q][i].turn) ELSE tree[q][i]
    <2>1. Rerated(tree, u, p, k, ratio)
      BY WithRatioIs
    <2> QED
      BY <2>1 DEF Rerated
  <1>2. tree' = u
    OBVIOUS
  <1> HIDE DEF u
  <1>3. \A q \in DOMAIN tree : tree[q] \in Seq(Turns)
    BY DEF IsTree
  <1>4. ASSUME NEW x \in Moved PROVE x = Above(tree[p], k)
    <2>1. PICK s \in UNION {{<<q, i>> : i \in {j \in 1 .. Len(tree[q]) : tree'[q][j] # tree[q][j]}} :
                              q \in InTree} : x = Above(tree[s[1]], s[2])
      BY DEF Moved
    <2>2. PICK q \in InTree :
            s \in {<<q, i>> : i \in {j \in 1 .. Len(tree[q]) : tree'[q][j] # tree[q][j]}}
      BY <2>1
    <2>3. PICK i \in {j \in 1 .. Len(tree[q]) : tree'[q][j] # tree[q][j]} : s = <<q, i>>
      BY <2>2
    <2>4. q \in DOMAIN tree /\ i \in 1 .. Len(tree[q]) /\ u[q][i] # tree[q][i]
      BY <1>2, <2>3 DEF InTree
    <2>5. i = k /\ Under(tree[p], k, tree[q])
      BY <1>1, <2>4
    <2>6. Above(tree[q], k) = Above(tree[p], k)
      BY <1>3, <2>4, <2>5, SameAbove
    <2>7. s[1] = q /\ s[2] = i
      BY <2>3
    <2> QED
      BY <2>1, <2>5, <2>6, <2>7
  <1>5. InTree' = InTree
    BY <1>1, <1>2 DEF InTree
  <1> HIDE DEF Moved
  <1>6. Moved \subseteq {Above(tree[p], i) : i \in {k}}
    BY <1>4
  <1> QED
    BY <1>5, <1>6 DEF OnlyMoves

LEMMA OneBorderSame ==
  ASSUME tree' = tree, NEW p, NEW K
  PROVE  OnlyMoves(p, K)
  <1>1. Moved = {}
    BY DEF Moved
  <1>2. InTree' = InTree
    BY DEF InTree
  <1> QED
    BY <1>1, <1>2 DEF OnlyMoves

(* The nearest split is the innermost one of its axis.                     *)
LEMMA NearestIsInnermost ==
  ASSUME NEW s \in Seq(Turns), NEW axis \in Dirs
  PROVE  Nearest(s, axis) \subseteq Innermost(s, axis)
  <1> SUFFICES ASSUME NEW k \in Nearest(s, axis) PROVE k \in Innermost(s, axis)
    OBVIOUS
  <1>1. Len(s) \in Nat
    BY LenProperties
  <1>2. k \in 1 .. Len(s) /\ s[k].dir = axis
        /\ \A i \in 1 .. Len(s) : s[i].dir = axis => i <= k
    BY DEF Nearest, OnAxis
  <1>3. ASSUME NEW i \in k + 1 .. Len(s) PROVE s[i].dir # axis
    BY <1>1, <1>2
  <1> QED
    BY <1>2, <1>3 DEF Innermost

(* The cells of a rectangle along an axis.                                 *)
Ext(r, axis) == IF axis = "Horizontal" THEN r.rows ELSE r.cols

LEMMA ExtOfChild ==
  ASSUME NEW r \in Rectangles, NEW x \in Turns, NEW axis \in Dirs
  PROVE  /\ Ext(r, axis) \in Nat
         /\ x.dir # axis => Ext(ChildRect(r, x), axis) = Ext(r, axis)
         /\ x.dir = axis =>
              Ext(ChildRect(r, x), axis) = IF x.turn = "first" THEN Divided(Ext(r, axis), x.ratio).first
                                           ELSE Divided(Ext(r, axis), x.ratio).second
  <1>1. /\ r.row \in Nat /\ r.col \in Nat /\ r.rows \in Nat /\ r.cols \in Nat
        /\ r = [row |-> r.row, col |-> r.col, rows |-> r.rows, cols |-> r.cols]
    BY DEF Rectangles
  <1>2. x.dir \in {"Horizontal", "Vertical"} /\ axis \in {"Horizontal", "Vertical"}
    BY TurnIs DEF Dirs
  <1>3. Ext(r, axis) \in Nat
    BY <1>1 DEF Ext
  <1>4. CASE x.dir = "Horizontal"
    <2>1. /\ FirstRect(r, x).rows = Divided(r.rows, x.ratio).first
          /\ FirstRect(r, x).cols = r.cols
          /\ SecondRect(r, x).rows = Divided(r.rows, x.ratio).second
          /\ SecondRect(r, x).cols = r.cols
      BY <1>1, <1>4 DEF FirstRect, SecondRect
    <2> QED
      BY <1>2, <1>3, <1>4, <2>1 DEF Ext, ChildRect
  <1>5. CASE x.dir = "Vertical"
    <2>1. /\ FirstRect(r, x).cols = Divided(r.cols, x.ratio).first
          /\ FirstRect(r, x).rows = r.rows
          /\ SecondRect(r, x).cols = Divided(r.cols, x.ratio).second
          /\ SecondRect(r, x).rows = r.rows
      BY <1>1, <1>5 DEF FirstRect, SecondRect
    <2> QED
      BY <1>2, <1>3, <1>5, <2>1 DEF Ext, ChildRect
  <1> QED
    BY <1>2, <1>4, <1>5

(* Splits of the other axis only.                                          *)
LEMMA ExtBelow ==
  ASSUME NEW r, NEW s \in Seq(Turns), NEW a, OnWay(a, r, s), NEW axis \in Dirs,
         NEW k \in 0 .. Len(s), \A i \in k + 1 .. Len(s) : s[i].dir # axis
  PROVE  Ext(a[Len(s)], axis) = Ext(a[k], axis)
  <1> DEFINE m == Len(s)
             T == {i \in Nat : i >= k => Ext(a[i], axis) = Ext(a[k], axis)}
  <1>1. m \in Nat /\ \A i \in 1 .. m : s[i] \in Turns
    BY LenProperties
  <1>2. /\ \A i \in 0 .. m : a[i] \in Rectangles
        /\ \A i \in 1 .. m : a[i] = ChildRect(a[i - 1], s[i])
    BY DEF OnWay
  <1>3. k \in Nat /\ k <= m /\ \A i \in k + 1 .. m : s[i].dir # axis
    BY <1>1
  <1> HIDE DEF m
  <1>4. 0 \in T
    BY <1>3
  <1>5. ASSUME NEW i \in 1 .. m, i - 1 \in T PROVE i \in T
    <2>1. SUFFICES ASSUME i >= k PROVE Ext(a[i], axis) = Ext(a[k], axis)
      BY <1>1
    <2>2. CASE i = k
      BY <2>2
    <2>3. CASE i # k
      <3>1. i - 1 >= k /\ i - 1 \in Nat /\ i \in k + 1 .. m /\ i - 1 \in 0 .. m
        BY <1>1, <1>3, <2>1, <2>3
      <3>2. Ext(a[i - 1], axis) = Ext(a[k], axis)
        BY <1>5, <3>1
      <3>3. Ext(ChildRect(a[i - 1], s[i]), axis) = Ext(a[i - 1], axis)
        BY <1>1, <1>2, <1>3, <3>1, ExtOfChild
      <3> QED
        BY <1>2, <3>2, <3>3
    <2> QED
      BY <2>2, <2>3
  <1> HIDE DEF T
  <1>6. m \in T
    BY <1>1, <1>4, <1>5, BoundedInduction
  <1> QED
    BY <1>3, <1>6 DEF T, m

LEMMA ExtResized ==
  ASSUME Whole \in Rectangles, NEW t, IsTree(t), NEW p \in DOMAIN t, NEW axis \in Dirs,
         NEW k \in Nearest(t[p], axis), NEW delta \in Int
  PROVE  LET u == WithRatio(t, p, k, Resized(t[p], k, delta))
             before == Ext(Descended(Whole, t[p]), axis)
             after  == Ext(Descended(Whole, u[p]), axis)
         IN  (delta > 0 => after >= before) /\ (delta < 0 => after <= before)
  <1> DEFINE s == t[p]
             n == Len(s)
             ratio == Resized(s, k, delta)
             u == WithRatio(t, p, k, ratio)
             w == u[p]
  <1>1. s \in Seq(Turns) /\ n \in Nat /\ \A i \in 1 .. n : s[i] \in Turns
    BY LenProperties DEF IsTree
  <1>2. k \in 1 .. n /\ s[k].dir = axis /\ \A i \in 1 .. n : s[i].dir = axis => i <= k
    BY DEF Nearest, OnAxis
  <1>3. ratio \in Ratios
    BY <1>1, <1>2, ResizedIs
  <1>4. /\ DOMAIN u = DOMAIN t
        /\ \A q \in DOMAIN t :
             /\ u[q] \in Seq(Turns) /\ Len(u[q]) = Len(t[q])
             /\ \A i \in 1 .. Len(t[q]) :
                  u[q][i] = IF i = k /\ Under(t[p], k, t[q])
                              THEN Turn(t[q][i].dir, ratio, t[q][i].turn) ELSE t[q][i]
    <2> HIDE DEF ratio
    <2>1. k \in 1 .. Len(t[p])
      BY <1>2
    <2>2. Rerated(t, u, p, k, ratio)
      BY <1>3, <2>1, WithRatioIs
    <2> QED
      BY <2>2 DEF Rerated, ratio
  <1>5. Under(s, k, s)
    BY <1>2 DEF Under, Agree
  <1> HIDE DEF u
  <1>6. w \in Seq(Turns) /\ Len(w) = n
    BY <1>4
  <1>7. \A i \in 1 .. n : w[i] = IF i = k THEN Turn(s[i].dir, ratio, s[i].turn) ELSE s[i]
    BY <1>4, <1>5
  <1>8. PICK a : OnWay(a, Whole, s) /\ Descended(Whole, s) = a[n]
    BY <1>1, DescendedIs
  <1>9. PICK b : OnWay(b, Whole, w) /\ Descended(Whole, w) = b[n]
    BY <1>6, DescendedIs
  <1>10. ratio = Adjusted(s[k].ratio, IF s[k].turn = "first" THEN delta ELSE -delta,
                          Larger(1, Ext(SplitRect(s, k), axis) - 1))
    BY <1>2 DEF Resized, Ext, Dirs
  <1>11. SplitRect(s, k) = a[k - 1] /\ a[k - 1] \in Rectangles /\ a[k] = ChildRect(a[k - 1], s[k])
    BY <1>1, <1>2, <1>8, SplitRectIs DEF SplitRect
  <1> HIDE DEF s, w, n, ratio
  <1>12. k \in Nat /\ k >= 1 /\ k <= n /\ k - 1 \in Nat
    BY <1>1, <1>2
  <1>13. b[k - 1] = a[k - 1]
    <2>1. Agree(s, w, k - 1)
      <3>1. \A i \in 1 .. k - 1 : i \in 1 .. n /\ i # k
        BY <1>1, <1>12
      <3> QED
        BY <1>7, <3>1 DEF Agree
    <2>2. k - 1 <= Len(s) /\ k - 1 <= Len(w)
      BY <1>1, <1>6, <1>12 DEF n
    <2> QED
      BY <1>1, <1>6, <1>8, <1>9, <1>12, <2>1, <2>2, WaysAgree
  <1>14. b[k] = ChildRect(b[k - 1], w[k])
    BY <1>2, <1>6, <1>9 DEF OnWay
  <1>15. w[k] = Turn(s[k].dir, ratio, s[k].turn)
    BY <1>2, <1>7
  <1>16. w[k] \in Turns /\ w[k].dir = axis /\ w[k].ratio = ratio /\ w[k].turn = s[k].turn
    <2>1. w[k] \in Turns
      BY <1>2, <1>6, ElementOfSeq
    <2> QED
      BY <1>2, <1>15, <2>1 DEF Turn
  <1>17. Ext(a[n], axis) = Ext(a[k], axis)
    <2>1. \A i \in k + 1 .. Len(s) : s[i].dir # axis
      BY <1>1, <1>2, <1>12 DEF n
    <2>2. k \in 0 .. Len(s)
      BY <1>1, <1>12 DEF n
    <2> QED
      BY <1>1, <1>8, <2>1, <2>2, ExtBelow DEF n
  <1>18. Ext(b[n], axis) = Ext(b[k], axis)
    <2>1. \A i \in k + 1 .. Len(w) : w[i].dir # axis
      <3>1. SUFFICES ASSUME NEW i \in k + 1 .. n PROVE w[i].dir # axis
        BY <1>6
      <3>2. i \in 1 .. n /\ i # k /\ ~ (i <= k)
        BY <1>1, <1>12
      <3>3. w[i] = s[i]
        BY <1>7, <3>2
      <3> QED
        BY <1>2, <3>2, <3>3
    <2>2. k \in 0 .. Len(w)
      BY <1>1, <1>6, <1>12
    <2>3. Ext(b[Len(w)], axis) = Ext(b[k], axis)
      BY <1>6, <1>9, <2>1, <2>2, ExtBelow
    <2> QED
      BY <1>6, <2>3
  <1> DEFINE r == a[k - 1]
             e == Ext(r, axis)
             cells == Larger(1, e - 1)
             d == IF s[k].turn = "first" THEN delta ELSE -delta
             old == s[k].ratio
             before == Divided(e, old)
             after == Divided(e, Adjusted(old, d, cells))
  <1>19. s[k] \in Turns /\ old \in Ratios /\ s[k].turn \in {"first", "second"}
    <2>1. s[k] \in Turns
      BY <1>1, <1>2
    <2> QED
      BY <2>1, TurnIs
  <1>20. e \in Nat /\ cells \in Nat /\ cells > 0 /\ d \in Int
    <2>1. e \in Nat
      BY <1>11, <1>19, ExtOfChild
    <2> HIDE DEF e
    <2>2. cells \in Nat /\ cells > 0
      BY <2>1, LargerIs
    <2> QED
      BY <2>1, <2>2
  <1>21. Ext(a[k], axis) = IF s[k].turn = "first" THEN before.first ELSE before.second
    BY <1>2, <1>11, <1>19, ExtOfChild
  <1>22. ratio = Adjusted(old, d, cells)
    BY <1>10, <1>11
  <1>23. Ext(b[k], axis) = IF s[k].turn = "first" THEN after.first ELSE after.second
    <2>1. Ext(ChildRect(r, w[k]), axis) = IF w[k].turn = "first" THEN Divided(Ext(r, axis), w[k].ratio).first
                                          ELSE Divided(Ext(r, axis), w[k].ratio).second
      BY <1>11, <1>16, ExtOfChild
    <2> HIDE DEF d, cells, old
    <2> QED
      BY <1>13, <1>14, <1>16, <1>22, <2>1
  <1>24. /\ d > 0 => after.first >= before.first /\ after.second <= before.second
         /\ d < 0 => after.first <= before.first /\ after.second >= before.second
    <2> HIDE DEF d, cells, old, e
    <2> QED
      BY <1>19, <1>20, ResizeKeepsDirection
  <1>25. /\ before.first \in Nat /\ before.second \in Nat
         /\ after.first \in Nat /\ after.second \in Nat
    <2>1. Adjusted(old, d, cells) \in Int /\ old \in Int
      <3> HIDE DEF d, cells, old
      <3>1. Adjusted(old, d, cells) \in Ratios
        BY <1>19, <1>20, AdjustedIs
      <3> QED
        BY <1>19, <3>1 DEF Ratios
    <2> HIDE DEF d, cells, old, e
    <2> QED
      BY <1>20, <2>1, DividedIs
  <1> HIDE DEF before, after
  <1>26. (delta > 0 => Ext(b[k], axis) >= Ext(a[k], axis)) /\ (delta < 0 => Ext(b[k], axis) <= Ext(a[k], axis))
    <2>1. CASE s[k].turn = "first"
      BY <1>21, <1>23, <1>24, <1>25, <2>1
    <2>2. CASE s[k].turn # "first"
      BY <1>21, <1>23, <1>24, <1>25, <2>2
    <2> QED
      BY <2>1, <2>2
  <1>27. /\ delta > 0 => Ext(Descended(Whole, w), axis) >= Ext(Descended(Whole, s), axis)
         /\ delta < 0 => Ext(Descended(Whole, w), axis) <= Ext(Descended(Whole, s), axis)
    BY <1>8, <1>9, <1>17, <1>18, <1>26
  <1> QED
    BY <1>27 DEF s, w, u, ratio

LEMMA ResizeMovesOne ==
  ASSUME LayoutAssumption, LayoutInv, NEW p \in InTree, NEW axis \in Dirs, NEW delta \in {-3, 3},
         ResizePane(p, axis, delta)
  PROVE  /\ OnlyMoves(p, Innermost(tree[p], axis))
         /\ IF delta > 0 THEN Extent(tree', p, axis) >= Extent(tree, p, axis)
            ELSE Extent(tree', p, axis) <= Extent(tree, p, axis)
  <1>1. IsTree(tree) /\ Whole \in Rectangles /\ p \in DOMAIN tree
    BY WholeIs DEF LayoutInv, LayoutTypeOK, InTree
  <1>2. tree' = ResizeIn(tree, p, axis, delta)
    BY DEF ResizePane, Becomes
  <1>3. delta \in Int /\ (delta > 0 \/ delta < 0)
    OBVIOUS
  <1>4. \A t : p \in DOMAIN t => Extent(t, p, axis) = Ext(Descended(Whole, t[p]), axis)
    BY DEF Extent, Ext, Rects
  <1>5. CASE tree' = tree
    <2>1. Extent(tree, p, axis) \in Nat
      <3>1. tree[p] \in Seq(Turns)
        BY <1>1 DEF IsTree
      <3>2. PICK a : OnWay(a, Whole, tree[p]) /\ Descended(Whole, tree[p]) = a[Len(tree[p])]
        BY <1>1, <3>1, DescendedIs
      <3>3. Len(tree[p]) \in 0 .. Len(tree[p])
        BY <3>1, LenProperties
      <3>4. Descended(Whole, tree[p]) \in Rectangles
        BY <3>2, <3>3 DEF OnWay
      <3> QED
        BY <1>1, <1>4, <3>4 DEF Ext, Rectangles
    <2>2. Extent(tree', p, axis) = Extent(tree, p, axis)
      BY <1>5
    <2> QED
      BY <1>5, <2>1, <2>2, OneBorderSame
  <1>6. CASE \E k \in Nearest(tree[p], axis) :
               /\ k \in 1 .. Len(tree[p])
               /\ tree' = WithRatio(tree, p, k, Resized(tree[p], k, delta))
    <2>1. PICK k \in Nearest(tree[p], axis) :
               /\ k \in 1 .. Len(tree[p])
               /\ tree' = WithRatio(tree, p, k, Resized(tree[p], k, delta))
      BY <1>6
    <2> DEFINE ratio == Resized(tree[p], k, delta)
               u == WithRatio(tree, p, k, ratio)
    <2>2. tree[p] \in Seq(Turns)
      BY <1>1 DEF IsTree
    <2>3. ratio \in Ratios
      BY <1>1, <1>3, <2>1, <2>2, ResizedIs
    <2>4. OnlyMoves(p, Innermost(tree[p], axis))
      <3> HIDE DEF ratio
      <3>1. tree' = u
        BY <2>1 DEF ratio
      <3>2. OnlyMoves(p, {k})
        BY <1>1, <2>1, <2>3, <3>1, OneBorderIs
      <3>3. k \in Innermost(tree[p], axis)
        BY <2>1, <2>2, NearestIsInnermost
      <3> QED
        BY <3>2, <3>3 DEF OnlyMoves
    <2>5. LET before == Ext(Descended(Whole, tree[p]), axis)
              after  == Ext(Descended(Whole, u[p]), axis)
          IN  (delta > 0 => after >= before) /\ (delta < 0 => after <= before)
      BY <1>1, <1>3, <2>1, ExtResized
    <2>6. p \in DOMAIN u
      BY <1>1 DEF WithRatio
    <2>7. tree' = u
      BY <2>1
    <2> HIDE DEF u
    <2>8. Extent(tree', p, axis) = Ext(Descended(Whole, u[p]), axis)
      BY <1>4, <2>6, <2>7
    <2>9. Extent(tree, p, axis) = Ext(Descended(Whole, tree[p]), axis)
      BY <1>1, <1>4
    <2> QED
      BY <1>3, <2>4, <2>5, <2>8, <2>9
  <1>7. \/ OnAxis(tree[p], axis) = {} /\ ResizeIn(tree, p, axis, delta) = tree
        \/ \E k \in Nearest(tree[p], axis) :
             /\ k \in 1 .. Len(tree[p])
             /\ ResizeIn(tree, p, axis, delta) = WithRatio(tree, p, k, Resized(tree[p], k, delta))
    BY <1>1, <1>3, ResizeInIs
  <1> QED
    BY <1>2, <1>5, <1>6, <1>7

(* A resize command moves the border of the innermost split of the axis,   *)
(* the one nearest to the pane, and a step of a drag moves the border that *)
(* it holds, which is the one under the kept position as long as nothing   *)
(* but the drag has changed the layout; all other ratios stay, and a pane  *)
(* that is resized does not change its extent against the direction asked  *)
(* for (resize_in negates the delta for the second child, Ratio::adjust    *)
(* clamps).                                                                *)
THEOREM ResizeMovesOneBorder == LayoutSpec => BorderMovesAlone
  <1> DEFINE Held(k) ==
               /\ OnlyMoves(drag.pane, {k})
               /\ steady => Gutter(tree[drag.pane][k], SplitRect(tree[drag.pane], k)) = drag.at
  <1>1. ASSUME LayoutInv, DragFollows, NEW delta \in Deltas, DragMove(delta)
        PROVE  \E k \in Named(tree, drag) : Held(k)
    <2>1. PICK k \in Named(tree, drag) :
           LET p == drag.pane
               n == tree[p][k]
               r == SplitRect(tree[p], k)
           IN  /\ p \in DOMAIN tree /\ k \in 1 .. Len(tree[p]) /\ n \in Turns
               /\ r \in Rectangles /\ Dragged(n, r, delta) \in Ratios
               /\ Applied(n, r, delta) \in Int /\ delta \in Int
               /\ drag \in [pane : Panes, side : {"Right", "Bottom"}, at : Int]
               /\ tree' = WithRatio(tree, p, k, Dragged(n, r, delta))
               /\ drag' = [drag EXCEPT !.at = @ + Applied(n, r, delta)]
               /\ ops < MaxOps /\ ops' = ops + 1 /\ view' = view /\ steady' = steady
      BY <1>1, LayoutAssumption, DragMoveIs
    <2> DEFINE p == drag.pane
               ratio == Dragged(tree[p][k], SplitRect(tree[p], k), delta)
    <2>2. /\ p \in DOMAIN tree /\ k \in 1 .. Len(tree[p]) /\ ratio \in Ratios
          /\ tree' = WithRatio(tree, p, k, ratio)
      BY <2>1
    <2>3. IsTree(tree)
      BY <1>1 DEF LayoutInv, LayoutTypeOK
    <2>4. OnlyMoves(p, {k})
      <3> HIDE DEF p, ratio
      <3> QED
        BY <2>2, <2>3, OneBorderIs
    <2>5. ASSUME steady
          PROVE  Gutter(tree[drag.pane][k], SplitRect(tree[drag.pane], k)) = drag.at
      <3>1. drag # NoDrag
        BY <1>1 DEF DragMove
      <3> QED
        BY <1>1, <2>1, <2>5, <3>1 DEF DragFollows
    <2>6. Held(k)
      BY <2>4, <2>5
    <2> QED
      BY <2>1, <2>6
  <1>2. LayoutInv /\ DragFollows =>
          /\ (\E delta \in Deltas : DragMove(delta)) => \E k \in Named(tree, drag) : Held(k)
          /\ \A p \in InTree, axis \in Dirs, delta \in {-3, 3} :
               ResizePane(p, axis, delta) =>
                 /\ OnlyMoves(p, Innermost(tree[p], axis))
                 /\ IF delta > 0 THEN Extent(tree', p, axis) >= Extent(tree, p, axis)
                    ELSE Extent(tree', p, axis) <= Extent(tree, p, axis)
    BY <1>1, LayoutAssumption, ResizeMovesOne
  <1> QED
    BY <1>2, LayoutInvariant, DragFollowsItsBorder, PTL DEF BorderMovesAlone

-----------------------------------------------------------------------------
(* The pane that focus moves to: across the border on that side there is a *)
(* leaf that shares cells with the pane.                                   *)

(* A rectangle along an axis begins at Lo and ends before Lo + Ext.        *)
Lo(r, axis) == IF axis = "Horizontal" THEN r.row ELSE r.col
Across(axis) == IF axis = "Horizontal" THEN "Vertical" ELSE "Horizontal"

(* No pane of the tree is empty; and w are the rectangles on its ways.     *)
Laid(t, w) ==
  /\ IsTree(t) /\ Whole \in Rectangles /\ Whole.row = 1 /\ Whole.col = 1
  /\ \A p \in DOMAIN t : OnWay(w[p], Whole, t[p]) /\ Rects(t)[p] = w[p][Len(t[p])]
  /\ \A p \in DOMAIN t : Rects(t)[p].rows >= 1 /\ Rects(t)[p].cols >= 1

LEMMA LaidExists ==
  ASSUME LayoutAssumption, NEW t, IsTree(t), view \in Views,
         \A p \in DOMAIN t : Rects(t)[p].rows >= 1 /\ Rects(t)[p].cols >= 1
  PROVE  \E w : Laid(t, w)
  <1> DEFINE Fits(p, a) == OnWay(a, Whole, t[p]) /\ Descended(Whole, t[p]) = a[Len(t[p])]
             w == [p \in DOMAIN t |-> CHOOSE a : Fits(p, a)]
  <1>1. Whole \in Rectangles /\ Whole.row = 1 /\ Whole.col = 1
    BY WholeIs
  <1>2. ASSUME NEW p \in DOMAIN t PROVE Fits(p, w[p])
    <2>1. t[p] \in Seq(Turns)
      BY DEF IsTree
    <2>2. \E a : Fits(p, a)
      BY <1>1, <2>1, DescendedIs
    <2> HIDE DEF Fits
    <2> QED
      BY <2>2
  <1>3. \A p \in DOMAIN t : Rects(t)[p] = Descended(Whole, t[p])
    BY DEF Rects
  <1> HIDE DEF w
  <1>4. Laid(t, w)
    BY <1>1, <1>2, <1>3 DEF Laid
  <1> QED
    BY <1>4

LEMMA RectangleIs ==
  ASSUME NEW r \in Rectangles, NEW axis \in Dirs
  PROVE  /\ r.row \in Nat /\ r.col \in Nat /\ r.rows \in Nat /\ r.cols \in Nat
         /\ Lo(r, axis) \in Nat /\ Ext(r, axis) \in Nat
         /\ Across(axis) \in Dirs /\ Across(axis) # axis
         /\ \A other \in Dirs : other # axis => other = Across(axis)
  BY DEF Rectangles, Lo, Ext, Across, Dirs

(* A pane is inside of all rectangles on its way.                          *)
LEMMA PaneInside ==
  ASSUME NEW t, NEW w, Laid(t, w), NEW p \in DOMAIN t, NEW i \in 0 .. Len(t[p]), NEW axis \in Dirs
  PROVE  /\ w[p][i] \in Rectangles /\ Rects(t)[p] \in Rectangles
         /\ Lo(w[p][i], axis) <= Lo(Rects(t)[p], axis)
         /\ Lo(Rects(t)[p], axis) + Ext(Rects(t)[p], axis) <= Lo(w[p][i], axis) + Ext(w[p][i], axis)
         /\ Ext(Rects(t)[p], axis) >= 1 /\ Ext(w[p][i], axis) >= 1 /\ Lo(Rects(t)[p], axis) >= 1
  <1> DEFINE r == Rects(t)[p]
             s == w[p][i]
             n == Len(t[p])
  <1>1. t[p] \in Seq(Turns) /\ OnWay(w[p], Whole, t[p]) /\ r = w[p][n]
    BY DEF Laid, IsTree
  <1>2. n \in Nat /\ n \in 0 .. n /\ 0 \in 0 .. n
    BY <1>1, LenProperties
  <1>3. s \in Rectangles /\ r \in Rectangles /\ w[p][0] = Whole
    BY <1>1, <1>2 DEF OnWay
  <1>4. r.rows >= 1 /\ r.cols >= 1
    BY DEF Laid
  <1> HIDE DEF r
  <1>5. /\ r.row \in Nat /\ r.col \in Nat /\ r.rows \in Nat /\ r.cols \in Nat
        /\ s.row \in Nat /\ s.col \in Nat /\ s.rows \in Nat /\ s.cols \in Nat
    BY <1>3 DEF Rectangles
  <1> DEFINE row == r.row + r.rows - 1
             col == r.col + r.cols - 1
  <1>14. r.row \in Int /\ r.col \in Int /\ row \in Int /\ col \in Int
    BY <1>5
  <1>15. Covers(r, r.row, r.col)
    BY <1>4, <1>5 DEF Covers
  <1>16. Covers(r, row, col)
    <2>1. row >= r.row /\ row < r.row + r.rows
      BY <1>4, <1>5
    <2>2. col >= r.col /\ col < r.col + r.cols
      BY <1>4, <1>5
    <2> HIDE DEF row, col
    <2> QED
      BY <2>1, <2>2 DEF Covers
  <1>6. Covers(r, r.row, r.col) /\ Covers(r, row, col) /\ row \in Int /\ col \in Int
    BY <1>14, <1>15, <1>16
  <1> HIDE DEF row, col, n
  <1>7. Covers(s, r.row, r.col)
    <2>1. Covers(w[p][n], r.row, r.col)
      BY <1>1, <1>6
    <2> QED
      BY <1>1, <1>14, <2>1, InsideOfBefore DEF n
  <1>8. Covers(s, row, col)
    <2>1. Covers(w[p][n], row, col)
      BY <1>1, <1>6
    <2> QED
      BY <1>1, <1>6, <2>1, InsideOfBefore DEF n
  <1>9. Covers(Whole, r.row, r.col)
    <2>1. Covers(w[p][n], r.row, r.col)
      BY <1>1, <1>6
    <2>2. Covers(w[p][0], r.row, r.col)
      BY <1>1, <1>2, <1>14, <2>1, InsideOfBefore DEF n
    <2> QED
      BY <1>3, <2>2
  <1>10. r.row >= 1 /\ r.col >= 1
    BY <1>9 DEF Covers, Laid
  <1> HIDE DEF s
  <1>11. /\ s.row <= r.row /\ r.row + r.rows <= s.row + s.rows
         /\ s.col <= r.col /\ r.col + r.cols <= s.col + s.cols
    <2>1. s.row <= r.row /\ s.col <= r.col
      BY <1>7 DEF Covers
    <2>2. row < s.row + s.rows /\ col < s.col + s.cols
      BY <1>8 DEF Covers
    <2>3. r.row + r.rows <= s.row + s.rows
      BY <1>5, <2>2 DEF row
    <2>4. r.col + r.cols <= s.col + s.cols
      BY <1>5, <2>2 DEF col
    <2> QED
      BY <2>1, <2>3, <2>4
  <1>12. s.rows >= 1 /\ s.cols >= 1
    <2>1. ASSUME NEW a \in Nat, NEW b \in Nat, NEW c \in Nat, NEW d \in Nat,
                 a <= c, c + d <= a + b, d >= 1
          PROVE  b >= 1
      BY <2>1
    <2>2. s.rows >= 1
      BY <1>4, <1>5, <1>11, <2>1
    <2>3. s.cols >= 1
      BY <1>4, <1>5, <1>11, <2>1
    <2> QED
      BY <2>2, <2>3
  <1>13. /\ Lo(s, axis) <= Lo(r, axis) /\ Lo(r, axis) + Ext(r, axis) <= Lo(s, axis) + Ext(s, axis)
         /\ Ext(r, axis) >= 1 /\ Ext(s, axis) >= 1 /\ Lo(r, axis) >= 1
    BY <1>4, <1>10, <1>11, <1>12 DEF Lo, Ext
  <1> QED
    BY <1>3, <1>13 DEF r, s

(* A rectangle that is divided along an axis into a, a border and b.       *)
Cut(r, a, b, axis) ==
  /\ Lo(a, axis) = Lo(r, axis)
  /\ Lo(b, axis) = Lo(r, axis) + Ext(a, axis) + 1
  /\ Ext(r, axis) = Ext(a, axis) + 1 + Ext(b, axis)
  /\ \A other \in Dirs : other # axis =>
       /\ Lo(a, other) = Lo(r, other) /\ Ext(a, other) = Ext(r, other)
       /\ Lo(b, other) = Lo(r, other) /\ Ext(b, other) = Ext(r, other)

LEMMA CutIs ==
  ASSUME NEW r \in Rectangles, NEW x \in Turns, Ext(SecondRect(r, x), x.dir) >= 1
  PROVE  Cut(r, FirstRect(r, x), SecondRect(r, x), x.dir)
  <1>1. /\ r.row \in Nat /\ r.col \in Nat /\ r.rows \in Nat /\ r.cols \in Nat
        /\ r = [row |-> r.row, col |-> r.col, rows |-> r.rows, cols |-> r.cols]
    BY DEF Rectangles
  <1>2. x.dir \in {"Horizontal", "Vertical"} /\ x.ratio \in Int
    BY TurnIs
  <1>3. CASE x.dir = "Horizontal"
    <2> DEFINE d == Divided(r.rows, x.ratio)
    <2>1. /\ d.first \in Nat /\ d.second \in Nat /\ d.at \in Nat
          /\ r.rows >= 2 => d.at = d.first + 1 /\ d.at + d.second = r.rows
          /\ r.rows < 2 => d.second = 0
      BY <1>1, <1>2, DividedIs
    <2> HIDE DEF d
    <2>2. /\ FirstRect(r, x) = [row |-> r.row, col |-> r.col, rows |-> d.first, cols |-> r.cols]
          /\ SecondRect(r, x) = [row |-> r.row + d.at, col |-> r.col, rows |-> d.second, cols |-> r.cols]
      BY <1>1, <1>3 DEF FirstRect, SecondRect, d
    <2>3. d.second >= 1
      BY <1>3, <2>2 DEF Ext
    <2>4. d.at = d.first + 1 /\ d.at + d.second = r.rows
      BY <1>1, <2>1, <2>3
    <2> QED
      BY <1>1, <1>3, <2>1, <2>2, <2>4 DEF Cut, Lo, Ext, Dirs
  <1>4. CASE x.dir = "Vertical"
    <2> DEFINE d == Divided(r.cols, x.ratio)
    <2>1. /\ d.first \in Nat /\ d.second \in Nat /\ d.at \in Nat
          /\ r.cols >= 2 => d.at = d.first + 1 /\ d.at + d.second = r.cols
          /\ r.cols < 2 => d.second = 0
      BY <1>1, <1>2, DividedIs
    <2> HIDE DEF d
    <2>2. /\ FirstRect(r, x) = [row |-> r.row, col |-> r.col, rows |-> r.rows, cols |-> d.first]
          /\ SecondRect(r, x) = [row |-> r.row, col |-> r.col + d.at, rows |-> r.rows, cols |-> d.second]
      BY <1>1, <1>4 DEF FirstRect, SecondRect, d
    <2>3. d.second >= 1
      BY <1>4, <2>2 DEF Ext
    <2>4. d.at = d.first + 1 /\ d.at + d.second = r.cols
      BY <1>1, <2>1, <2>3
    <2> QED
      BY <1>1, <1>4, <2>1, <2>2, <2>4 DEF Cut, Lo, Ext, Dirs
  <1> QED
    BY <1>2, <1>3, <1>4

(* A split on the way of a pane, and a pane on its other side.             *)
SplitApart(t, w, p, q, k) ==
  /\ q \in DOMAIN t /\ k \in 1 .. Len(t[p]) /\ k \in 1 .. Len(t[q]) /\ t[p][k] \in Turns
  /\ t[p][k].turn = "first" => Cut(w[p][k - 1], w[p][k], w[q][k], t[p][k].dir)
  /\ t[p][k].turn = "second" => Cut(w[p][k - 1], w[q][k], w[p][k], t[p][k].dir)

LEMMA OtherSide ==
  ASSUME NEW t, NEW w, Laid(t, w), NEW p \in DOMAIN t, NEW k \in 1 .. Len(t[p])
  PROVE  \E q \in DOMAIN t : SplitApart(t, w, p, q, k)
  <1> DEFINE s == t[p]
             r == w[p][k - 1]
  <1>1. /\ \A q \in DOMAIN t : t[q] \in Seq(Turns) /\ OnWay(w[q], Whole, t[q])
        /\ IsTree(t)
    BY DEF Laid, IsTree
  <1>2. PICK q \in DOMAIN t : Part(s, t[q], k)
    BY <1>1 DEF IsTree
  <1> DEFINE u == t[q]
  <1>3. s \in Seq(Turns) /\ u \in Seq(Turns) /\ Len(s) \in Nat /\ Len(u) \in Nat
    BY <1>1, LenProperties
  <1>4. OnWay(w[p], Whole, s) /\ OnWay(w[q], Whole, u)
    BY <1>1
  <1> HIDE DEF s, u
  <1>5. /\ k \in Nat /\ k >= 1 /\ k <= Len(s) /\ k <= Len(u)
        /\ s[k] \in Turns /\ u[k] \in Turns /\ u[k] = Other(s[k])
        /\ Agree(s, u, k - 1)
    BY <1>2, <1>3, PartIs DEF u
  <1>6. k - 1 \in Nat /\ k - 1 <= Len(s) /\ k - 1 <= Len(u) /\ k \in 1 .. Len(s) /\ k \in 1 .. Len(u)
    BY <1>3, <1>5
  <1>7. w[q][k - 1] = r
    BY <1>3, <1>4, <1>5, <1>6, WaysAgree
  <1>8. w[p][k] = ChildRect(r, s[k]) /\ w[q][k] = ChildRect(r, u[k]) /\ r \in Rectangles
    BY <1>4, <1>6, <1>7, <1>3 DEF OnWay
  <1>9. /\ u[k].dir = s[k].dir /\ u[k].ratio = s[k].ratio /\ u[k].turn # s[k].turn
        /\ s[k].turn \in {"first", "second"} /\ u[k].turn \in {"first", "second"}
        /\ s[k].dir \in Dirs
    BY <1>5, TurnIs
  <1>10. FirstRect(r, u[k]) = FirstRect(r, s[k]) /\ SecondRect(r, u[k]) = SecondRect(r, s[k])
    BY <1>9 DEF FirstRect, SecondRect
  <1>11. \A axis \in Dirs : Ext(w[p][k], axis) >= 1 /\ Ext(w[q][k], axis) >= 1
    <2>1. k \in 0 .. Len(t[p]) /\ k \in 0 .. Len(t[q])
      BY <1>3, <1>5 DEF s, u
    <2> QED
      BY <2>1, PaneInside
  <1>12. CASE s[k].turn = "first"
    <2>1. w[p][k] = FirstRect(r, s[k]) /\ w[q][k] = SecondRect(r, s[k])
      BY <1>8, <1>9, <1>10, <1>12 DEF ChildRect
    <2>2. Cut(r, w[p][k], w[q][k], s[k].dir)
      BY <1>5, <1>8, <1>9, <1>11, <2>1, CutIs
    <2> QED
      BY <1>5, <1>6, <1>12, <2>2 DEF SplitApart, s, u
  <1>13. CASE s[k].turn = "second"
    <2>1. w[q][k] = FirstRect(r, s[k]) /\ w[p][k] = SecondRect(r, s[k])
      BY <1>8, <1>9, <1>10, <1>13 DEF ChildRect
    <2>2. Cut(r, w[q][k], w[p][k], s[k].dir)
      BY <1>5, <1>8, <1>9, <1>11, <2>1, CutIs
    <2> QED
      BY <1>5, <1>6, <1>13, <2>2 DEF SplitApart, s, u
  <1> QED
    BY <1>9, <1>12, <1>13

(* Of the side that is followed along the axis, and of two cells across it:*)
(* the edge at c, and a cell of the two that no border below can take.     *)
Edge(r, axis, side) ==
  IF side = "first" THEN Lo(r, axis) ELSE Lo(r, axis) + Ext(r, axis)

Meets(r, axis, side, c, x) ==
  /\ Edge(r, axis, side) = c
  /\ \/ Lo(r, Across(axis)) <= x /\ x + 1 < Lo(r, Across(axis)) + Ext(r, Across(axis))
     \/ Lo(r, Across(axis)) = x + 1
     \/ Lo(r, Across(axis)) + Ext(r, Across(axis)) = x + 1

LEMMA MeetsCut ==
  ASSUME NEW r \in Rectangles, NEW a \in Rectangles, NEW b \in Rectangles,
         NEW dir \in Dirs, Cut(r, a, b, dir), NEW axis \in Dirs, NEW side, NEW c, NEW x \in Nat,
         \A d \in Dirs : Ext(a, d) >= 1 /\ Ext(b, d) >= 1,
         Meets(r, axis, side, c, x)
  PROVE  Meets(a, axis, side, c, x) \/ Meets(b, axis, side, c, x)
  <1> DEFINE B == Across(axis)
  <1>1. B \in Dirs /\ B # axis /\ (dir = axis \/ dir = B)
    BY DEF Across, Dirs
  <1>2. /\ Lo(r, axis) \in Nat /\ Ext(r, axis) \in Nat /\ Lo(r, B) \in Nat /\ Ext(r, B) \in Nat
        /\ Lo(a, axis) \in Nat /\ Ext(a, axis) \in Nat /\ Lo(a, B) \in Nat /\ Ext(a, B) \in Nat
        /\ Lo(b, axis) \in Nat /\ Ext(b, axis) \in Nat /\ Lo(b, B) \in Nat /\ Ext(b, B) \in Nat
    BY <1>1, RectangleIs
  <1> HIDE DEF B
  <1>3. /\ Edge(r, axis, side) = c
        /\ \/ Lo(r, B) <= x /\ x + 1 < Lo(r, B) + Ext(r, B)
           \/ Lo(r, B) = x + 1
           \/ Lo(r, B) + Ext(r, B) = x + 1
    BY DEF Meets, B
  <1>4. CASE dir = axis
    <2>1. /\ Lo(a, axis) = Lo(r, axis) /\ Lo(b, axis) = Lo(r, axis) + Ext(a, axis) + 1
          /\ Ext(r, axis) = Ext(a, axis) + 1 + Ext(b, axis)
          /\ Lo(a, B) = Lo(r, B) /\ Ext(a, B) = Ext(r, B)
          /\ Lo(b, B) = Lo(r, B) /\ Ext(b, B) = Ext(r, B)
      BY <1>1, <1>4 DEF Cut
    <2>2. CASE side = "first"
      <3>1. Edge(a, axis, side) = c
        BY <1>3, <2>1, <2>2 DEF Edge
      <3> QED
        BY <1>3, <2>1, <3>1 DEF Meets, B
    <2>3. CASE side # "first"
      <3>1. Edge(b, axis, side) = c
        BY <1>2, <1>3, <2>1, <2>3 DEF Edge
      <3> QED
        BY <1>3, <2>1, <3>1 DEF Meets, B
    <2> QED
      BY <2>2, <2>3
  <1>5. CASE dir = B
    <2>1. /\ Lo(a, B) = Lo(r, B) /\ Lo(b, B) = Lo(r, B) + Ext(a, B) + 1
          /\ Ext(r, B) = Ext(a, B) + 1 + Ext(b, B)
          /\ Lo(a, axis) = Lo(r, axis) /\ Ext(a, axis) = Ext(r, axis)
          /\ Lo(b, axis) = Lo(r, axis) /\ Ext(b, axis) = Ext(r, axis)
      BY <1>1, <1>5 DEF Cut
    <2>2. Edge(a, axis, side) = c /\ Edge(b, axis, side) = c
      BY <1>3, <2>1 DEF Edge
    <2>3. Ext(a, B) >= 1 /\ Ext(b, B) >= 1
      BY <1>1
    <2>4. \/ Lo(a, B) <= x /\ x + 1 < Lo(a, B) + Ext(a, B)
          \/ Lo(a, B) = x + 1
          \/ Lo(a, B) + Ext(a, B) = x + 1
          \/ Lo(b, B) <= x /\ x + 1 < Lo(b, B) + Ext(b, B)
          \/ Lo(b, B) = x + 1
          \/ Lo(b, B) + Ext(b, B) = x + 1
      <3>1. \A i, j, l, m, n, o \in Nat :
              /\ m >= 1 /\ o >= 1 /\ l = i + m + 1 /\ j = m + 1 + o
              /\ (i <= x /\ x + 1 < i + j) \/ i = x + 1 \/ i + j = x + 1
              => \/ i <= x /\ x + 1 < i + m
                 \/ i = x + 1
                 \/ i + m = x + 1
                 \/ l <= x /\ x + 1 < l + o
                 \/ l = x + 1
                 \/ l + o = x + 1
        OBVIOUS
      <3> QED
        BY <1>2, <1>3, <2>1, <2>3
    <2> QED
      BY <2>2, <2>4 DEF Meets, B
  <1> QED
    BY <1>1, <1>4, <1>5

Cells(r) == r.rows + r.cols

LEMMA CutIsSmaller ==
  ASSUME NEW r \in Rectangles, NEW a \in Rectangles, NEW b \in Rectangles,
         NEW dir \in Dirs, Cut(r, a, b, dir)
  PROVE  Cells(a) \in Nat /\ Cells(b) \in Nat /\ Cells(a) < Cells(r) /\ Cells(b) < Cells(r)
  <1>1. /\ r.rows \in Nat /\ r.cols \in Nat /\ a.rows \in Nat /\ a.cols \in Nat
        /\ b.rows \in Nat /\ b.cols \in Nat
    BY RectangleIs
  <1>2. CASE dir = "Horizontal"
    <2>1. r.rows = a.rows + 1 + b.rows /\ a.cols = r.cols /\ b.cols = r.cols
      <3>1. "Vertical" \in Dirs /\ "Vertical" # dir
        BY <1>2 DEF Dirs
      <3> QED
        BY <1>2, <3>1 DEF Cut, Ext
    <2> QED
      BY <1>1, <2>1 DEF Cells
  <1>3. CASE dir = "Vertical"
    <2>1. r.cols = a.cols + 1 + b.cols /\ a.rows = r.rows /\ b.rows = r.rows
      <3>1. "Horizontal" \in Dirs /\ "Horizontal" # dir
        BY <1>3 DEF Dirs
      <3> QED
        BY <1>3, <3>1 DEF Cut, Ext
    <2> QED
      BY <1>1, <2>1 DEF Cells
  <1> QED
    BY <1>2, <1>3 DEF Dirs

(* Down from a rectangle that meets the two cells there is a pane that     *)
(* meets them: the smallest of these rectangles.                           *)
LEMMA PaneMeets ==
  ASSUME NEW t, NEW w, Laid(t, w), NEW p0 \in DOMAIN t, NEW k0 \in 0 .. Len(t[p0]),
         NEW axis \in Dirs, NEW side, NEW c, NEW x \in Nat,
         Meets(w[p0][k0], axis, side, c, x)
  PROVE  \E q \in DOMAIN t : Meets(Rects(t)[q], axis, side, c, x)
  <1> DEFINE D == DOMAIN t
             M(r) == Meets(r, axis, side, c, x)
             T == {n \in Nat : \E p \in D : \E i \in 0 .. Len(t[p]) : M(w[p][i]) /\ n = Cells(w[p][i])}
  <1>1. \A p \in D : \A i \in 0 .. Len(t[p]) : w[p][i] \in Rectangles
    BY DEF Laid, OnWay
  <1>2. \A r \in Rectangles : Cells(r) \in Nat
    BY DEF Cells, Rectangles
  <1>3. M(w[p0][k0])
    OBVIOUS
  <1> HIDE DEF M
  <1>4. Cells(w[p0][k0]) \in T
    BY <1>1, <1>2, <1>3
  <1>5. PICK n \in T : \A m \in T : n <= m
    <2>1. T \subseteq Nat /\ T # {}
      BY <1>4
    <2> HIDE DEF T
    <2> QED
      BY <2>1, LeastNumber
  <1>6. PICK p \in D : \E i \in 0 .. Len(t[p]) : M(w[p][i]) /\ n = Cells(w[p][i])
    BY <1>5
  <1>7. PICK i \in 0 .. Len(t[p]) : M(w[p][i]) /\ n = Cells(w[p][i])
    BY <1>6
  <1>8. \A q \in D : \A j \in 0 .. Len(t[q]) : M(w[q][j]) => Cells(w[p][i]) <= Cells(w[q][j])
    BY <1>1, <1>2, <1>5, <1>7
  <1> HIDE DEF T
  <1>9. t[p] \in Seq(Turns) /\ Len(t[p]) \in Nat
    BY LenProperties DEF Laid, IsTree
  <1>10. i = Len(t[p])
    <2>1. SUFFICES ASSUME i # Len(t[p]) PROVE FALSE
      OBVIOUS
    <2> DEFINE k == i + 1
    <2>2. k \in 1 .. Len(t[p]) /\ k - 1 = i /\ k \in 0 .. Len(t[p])
      BY <1>9, <2>1
    <2> HIDE DEF k
    <2>3. PICK q \in D : SplitApart(t, w, p, q, k)
      BY <2>2, OtherSide
    <2> DEFINE r == w[p][i]
               a == w[p][k]
               b == w[q][k]
               dir == t[p][k].dir
    <2>4. /\ k \in 1 .. Len(t[q]) /\ t[p][k] \in Turns
          /\ Cut(r, a, b, dir) \/ Cut(r, b, a, dir)
      BY <2>2, <2>3, TurnIs DEF SplitApart
    <2>5. k \in 0 .. Len(t[q])
      BY <2>4
    <2>6. dir \in Dirs
      BY <2>4, TurnIs
    <2>7. a \in Rectangles /\ b \in Rectangles /\ r \in Rectangles
      BY <1>1, <2>2, <2>5
    <2>8. \A d \in Dirs : Ext(a, d) >= 1 /\ Ext(b, d) >= 1
      BY <2>2, <2>5, PaneInside
    <2>9. M(r)
      BY <1>7
    <2>10. ~ (Cells(r) <= Cells(a)) /\ ~ (Cells(r) <= Cells(b))
      <3> HIDE DEF r, a, b, dir
      <3>1. /\ Cells(a) \in Nat /\ Cells(b) \in Nat /\ Cells(r) \in Nat
            /\ Cells(a) < Cells(r) /\ Cells(b) < Cells(r)
        BY <1>2, <2>4, <2>6, <2>7, CutIsSmaller
      <3> QED
        BY <3>1
    <2>11. M(a) \/ M(b)
      <3> HIDE DEF r, a, b, dir
      <3> QED
        BY <2>4, <2>6, <2>7, <2>8, <2>9, MeetsCut DEF M
    <2> QED
      BY <1>8, <2>2, <2>5, <2>10, <2>11
  <1>11. Rects(t)[p] = w[p][i]
    BY <1>10 DEF Laid
  <1> QED
    BY <1>7, <1>11 DEF M

(* The edge of a pane on the side of a direction.                          *)
Out(r, axis, side) == IF side = "first" THEN Lo(r, axis) + Ext(r, axis) ELSE Lo(r, axis)

LEMMA OutBelow ==
  ASSUME NEW t, NEW w, Laid(t, w), NEW p \in DOMAIN t, NEW axis \in Dirs,
         NEW side \in {"first", "second"}, NEW k \in 0 .. Len(t[p]),
         \A i \in k + 1 .. Len(t[p]) : ~ (t[p][i].dir = axis /\ t[p][i].turn = side)
  PROVE  Out(Rects(t)[p], axis, side) = Out(w[p][k], axis, side)
  <1> DEFINE m == Len(t[p])
             T == {i \in Nat : i >= k => Out(w[p][i], axis, side) = Out(w[p][k], axis, side)}
  <1>1. m \in Nat /\ k \in Nat /\ k <= m
    BY LenProperties DEF Laid, IsTree
  <1>2. \A i \in 0 .. m : w[p][i] \in Rectangles
    BY DEF Laid, OnWay
  <1>3. \A i \in k + 1 .. m : ~ (t[p][i].dir = axis /\ t[p][i].turn = side)
    OBVIOUS
  <1>4. 0 \in T
    BY <1>1
  <1>5. ASSUME NEW i \in 1 .. m, i - 1 \in T PROVE i \in T
    <2>1. SUFFICES ASSUME i > k PROVE Out(w[p][i], axis, side) = Out(w[p][i - 1], axis, side)
      BY <1>1, <1>5
    <2>2. PICK q \in DOMAIN t : SplitApart(t, w, p, q, i)
      BY OtherSide
    <2> DEFINE r == w[p][i - 1]
               a == w[p][i]
               b == w[q][i]
               dir == t[p][i].dir
               turn == t[p][i].turn
    <2>3. /\ turn = "first" => Cut(r, a, b, dir)
          /\ turn = "second" => Cut(r, b, a, dir)
      BY <2>2 DEF SplitApart
    <2>4. turn \in {"first", "second"} /\ dir \in Dirs
      BY <2>2, TurnIs DEF SplitApart
    <2>5. ~ (dir = axis /\ turn = side)
      BY <1>1, <1>3, <2>1
    <2>6. r \in Rectangles /\ a \in Rectangles /\ b \in Rectangles
      <3>1. i \in 0 .. m /\ i - 1 \in 0 .. m /\ i \in 0 .. Len(t[q])
        BY <1>1, <2>2 DEF SplitApart
      <3> QED
        BY <1>2, <3>1 DEF Laid, OnWay
    <2> HIDE DEF r, a, b, dir, turn
    <2>7. /\ Lo(r, axis) \in Nat /\ Ext(r, axis) \in Nat /\ Lo(a, axis) \in Nat
          /\ Ext(a, axis) \in Nat /\ Lo(b, axis) \in Nat /\ Ext(b, axis) \in Nat
      BY <2>6, RectangleIs
    <2>8. CASE dir # axis
      <3>1. Lo(a, axis) = Lo(r, axis) /\ Ext(a, axis) = Ext(r, axis)
        BY <2>3, <2>4, <2>8 DEF Cut
      <3> QED
        BY <3>1 DEF Out, a, r
    <2>9. CASE dir = axis /\ turn = "first"
      <3>1. side # "first"
        BY <2>5, <2>9
      <3>2. Lo(a, axis) = Lo(r, axis)
        BY <2>3, <2>9 DEF Cut
      <3> QED
        BY <3>1, <3>2 DEF Out, a, r
    <2>10. CASE dir = axis /\ turn = "second"
      <3>1. side = "first"
        BY <2>5, <2>10
      <3>2. Lo(a, axis) + Ext(a, axis) = Lo(r, axis) + Ext(r, axis)
        BY <2>3, <2>7, <2>10 DEF Cut
      <3> QED
        BY <3>1, <3>2 DEF Out, a, r
    <2> QED
      BY <2>4, <2>8, <2>9, <2>10
  <1> HIDE DEF T
  <1>6. m \in T
    <2> HIDE DEF m
    <2> QED
      BY <1>1, <1>4, <1>5, BoundedInduction
  <1>7. Rects(t)[p] = w[p][m]
    BY DEF Laid
  <1> QED
    BY <1>1, <1>6, <1>7 DEF T

(* Either the pane is at that side of the viewport, or across the border   *)
(* of the last split that has it on the other side there is a pane that    *)
(* has a cell next to one of the first two of its own.                     *)
LEMMA PaneBeside ==
  ASSUME NEW t, NEW w, Laid(t, w), NEW p \in DOMAIN t, NEW axis \in Dirs,
         NEW side \in {"first", "second"}, Ext(Rects(t)[p], Across(axis)) >= 2
  PROVE  LET r == Rects(t)[p]
             c == IF side = "first" THEN Out(r, axis, side) + 1 ELSE Out(r, axis, side) - 1
         IN  \/ Out(r, axis, side) = Out(Whole, axis, side)
             \/ \E q \in DOMAIN t : Meets(Rects(t)[q], axis, side, c, Lo(r, Across(axis)))
  <1> DEFINE r == Rects(t)[p]
             n == Len(t[p])
             c == IF side = "first" THEN Out(r, axis, side) + 1 ELSE Out(r, axis, side) - 1
             B == Across(axis)
             x == Lo(r, B)
             K == {i \in 1 .. n : t[p][i].dir = axis /\ t[p][i].turn = side}
             T == {n - i : i \in K}
  <1>1. n \in Nat /\ w[p][0] = Whole
    BY LenProperties DEF Laid, IsTree, OnWay
  <1>2. CASE K = {}
    <2>1. 0 \in 0 .. n /\ \A i \in 0 + 1 .. n : ~ (t[p][i].dir = axis /\ t[p][i].turn = side)
      BY <1>1, <1>2
    <2>2. Out(r, axis, side) = Out(w[p][0], axis, side)
      BY <2>1, OutBelow
    <2> QED
      BY <1>1, <2>2
  <1>3. CASE K # {}
    <2>1. PICK k \in K : \A i \in K : i <= k
      <3>1. T \subseteq Nat /\ T # {}
        BY <1>1, <1>3
      <3>2. PICK d \in T : \A e \in T : d <= e
        <4> HIDE DEF T
        <4> QED
          BY <3>1, LeastNumber
      <3>3. PICK k \in K : d = n - k
        BY <3>2
      <3>4. ASSUME NEW i \in K PROVE i <= k
        <4>1. n - i \in T /\ d <= n - i
          BY <3>2
        <4> QED
          BY <1>1, <3>3, <4>1
      <3> QED
        BY <3>4
    <2>2. k \in 1 .. n /\ t[p][k].dir = axis /\ t[p][k].turn = side /\ k \in 0 .. n
      BY <1>1
    <2>3. \A i \in k + 1 .. n : ~ (t[p][i].dir = axis /\ t[p][i].turn = side)
      <3>1. SUFFICES ASSUME NEW i \in k + 1 .. n, t[p][i].dir = axis, t[p][i].turn = side PROVE FALSE
        OBVIOUS
      <3>2. i \in K /\ ~ (i <= k)
        BY <1>1, <2>2, <3>1
      <3> QED
        BY <2>1, <3>2
    <2>4. Out(r, axis, side) = Out(w[p][k], axis, side)
      BY <2>2, <2>3, OutBelow
    <2>5. PICK q \in DOMAIN t : SplitApart(t, w, p, q, k)
      BY <2>2, OtherSide
    <2> DEFINE s == w[p][k - 1]
               a == w[p][k]
               b == w[q][k]
    <2>6. /\ side = "first" => Cut(s, a, b, axis)
          /\ side = "second" => Cut(s, b, a, axis)
          /\ k \in 0 .. Len(t[q])
      BY <2>2, <2>5 DEF SplitApart
    <2>7. k - 1 \in 0 .. n
      BY <1>1, <2>2
    <2>8. B \in Dirs /\ B # axis
      BY DEF Across, Dirs
    <2>9. /\ s \in Rectangles /\ a \in Rectangles /\ b \in Rectangles /\ r \in Rectangles
          /\ Lo(s, B) <= Lo(r, B) /\ Lo(r, B) + Ext(r, B) <= Lo(s, B) + Ext(s, B)
      BY <2>2, <2>6, <2>7, <2>8, PaneInside
    <2> HIDE DEF r, n, K, T, B, s, a, b
    <2>10. /\ Lo(s, B) \in Nat /\ Ext(s, B) \in Nat /\ Lo(r, B) \in Nat /\ Ext(r, B) \in Nat
           /\ Lo(a, axis) \in Nat /\ Ext(a, axis) \in Nat /\ Lo(b, axis) \in Nat /\ Ext(b, axis) \in Nat
           /\ Lo(s, axis) \in Nat /\ Ext(s, axis) \in Nat
      BY <2>8, <2>9, RectangleIs
    <2>11. Lo(b, B) = Lo(s, B) /\ Ext(b, B) = Ext(s, B)
      BY <2>6, <2>8 DEF Cut
    <2>12. Edge(b, axis, side) = c
      <3>1. Out(r, axis, side) = Out(a, axis, side)
        BY <2>4 DEF a
      <3>2. CASE side = "first"
        <4>1. Lo(a, axis) = Lo(s, axis) /\ Lo(b, axis) = Lo(s, axis) + Ext(a, axis) + 1
          BY <2>6, <3>2 DEF Cut
        <4> QED
          BY <2>10, <3>1, <3>2, <4>1 DEF Edge, Out
      <3>3. CASE side = "second"
        <4>1. Lo(b, axis) = Lo(s, axis) /\ Lo(a, axis) = Lo(s, axis) + Ext(b, axis) + 1
          BY <2>6, <3>3 DEF Cut
        <4> QED
          BY <2>10, <3>1, <3>3, <4>1 DEF Edge, Out
      <3> QED
        BY <3>2, <3>3
    <2>13. Lo(b, B) <= x /\ x + 1 < Lo(b, B) + Ext(b, B) /\ x \in Nat
      <3>1. Ext(r, B) >= 2
        BY DEF r, B
      <3> QED
        BY <2>9, <2>10, <2>11, <3>1
    <2>14. Meets(b, axis, side, c, x)
      BY <2>12, <2>13 DEF Meets, B
    <2> HIDE DEF c, x
    <2>15. \E u \in DOMAIN t : Meets(Rects(t)[u], axis, side, c, x)
      <3>1. Meets(w[q][k], axis, side, c, x)
        BY <2>14 DEF b
      <3>2. k \in 0 .. Len(t[q])
        BY <2>6
      <3>3. x \in Nat
        BY <2>13
      <3>4. \A e : \A y \in Nat :
              Meets(w[q][k], axis, side, e, y) =>
                \E u \in DOMAIN t : Meets(Rects(t)[u], axis, side, e, y)
        BY <3>2, PaneMeets
      <3> QED
        BY <3>1, <3>3, <3>4
    <2> QED
      BY <2>15 DEF c, x, r, B
  <1> QED
    BY <1>2, <1>3

(* The axis of a direction, and the child on the side it comes from.       *)
AxisOf(dir) == IF Sideways(dir) THEN "Vertical" ELSE "Horizontal"
TurnOf(dir) == IF dir \in {"Right", "Down"} THEN "first" ELSE "second"

Ways == {"Up", "Down", "Left", "Right"}

(* Where the first cell across the border on that side is.                 *)
Beyond(r, axis, side) ==
  IF side = "first" THEN Out(r, axis, side) + 1 ELSE Out(r, axis, side) - 1

LEMMA AxisIs ==
  ASSUME NEW dir \in Ways
  PROVE  /\ AxisOf(dir) \in Dirs /\ TurnOf(dir) \in {"first", "second"}
         /\ Across(AxisOf(dir)) = IF Sideways(dir) THEN "Horizontal" ELSE "Vertical"
  BY DEF Ways, AxisOf, TurnOf, Sideways, Across, Dirs

(* Faces, Span and Overlap in terms of the two axes.                       *)
LEMMA FacesIs ==
  ASSUME NEW a \in Rectangles, NEW b \in Rectangles, NEW dir \in Ways,
         \A d \in Dirs : /\ Lo(a, d) >= 1 /\ Ext(a, d) >= 1
                         /\ Lo(b, d) >= 1 /\ Ext(b, d) >= 1
  PROVE  Faces(a, b, dir) <=>
           Edge(b, AxisOf(dir), TurnOf(dir)) = Beyond(a, AxisOf(dir), TurnOf(dir))
  <1>1. /\ a.row \in Nat /\ a.col \in Nat /\ a.rows \in Nat /\ a.cols \in Nat
        /\ b.row \in Nat /\ b.col \in Nat /\ b.rows \in Nat /\ b.cols \in Nat
    BY RectangleIs DEF Rectangles
  <1>2. /\ a.row >= 1 /\ a.rows >= 1 /\ b.row >= 1 /\ b.rows >= 1
        /\ a.col >= 1 /\ a.cols >= 1 /\ b.col >= 1 /\ b.cols >= 1
    BY DEF Dirs, Lo, Ext
  <1>3. /\ RightEdge(a) = a.col + a.cols - 1 /\ RightEdge(b) = b.col + b.cols - 1
        /\ BottomEdge(a) = a.row + a.rows - 1 /\ BottomEdge(b) = b.row + b.rows - 1
    BY <1>1, <1>2 DEF RightEdge, BottomEdge, Larger
  <1>4. CASE dir = "Right"
    <2>1. AxisOf(dir) = "Vertical" /\ TurnOf(dir) = "first"
      BY <1>4 DEF AxisOf, TurnOf, Sideways
    <2>2. Edge(b, "Vertical", "first") = b.col /\ Beyond(a, "Vertical", "first") = a.col + a.cols + 1
      BY DEF Edge, Beyond, Out, Lo, Ext
    <2>3. Faces(a, b, dir) <=> b.col = RightEdge(a) + 2
      BY <1>4 DEF Faces
    <2> QED
      BY <1>1, <1>3, <2>1, <2>2, <2>3
  <1>5. CASE dir = "Left"
    <2>1. AxisOf(dir) = "Vertical" /\ TurnOf(dir) = "second"
      BY <1>5 DEF AxisOf, TurnOf, Sideways
    <2>2. Edge(b, "Vertical", "second") = b.col + b.cols /\ Beyond(a, "Vertical", "second") = a.col - 1
      BY DEF Edge, Beyond, Out, Lo, Ext
    <2>3. Faces(a, b, dir) <=> RightEdge(b) = a.col - 2
      BY <1>5 DEF Faces
    <2> QED
      BY <1>1, <1>3, <2>1, <2>2, <2>3
  <1>6. CASE dir = "Down"
    <2>1. AxisOf(dir) = "Horizontal" /\ TurnOf(dir) = "first"
      BY <1>6 DEF AxisOf, TurnOf, Sideways
    <2>2. Edge(b, "Horizontal", "first") = b.row /\ Beyond(a, "Horizontal", "first") = a.row + a.rows + 1
      BY DEF Edge, Beyond, Out, Lo, Ext
    <2>3. Faces(a, b, dir) <=> b.row = BottomEdge(a) + 2
      BY <1>6 DEF Faces
    <2> QED
      BY <1>1, <1>3, <2>1, <2>2, <2>3
  <1>7. CASE dir = "Up"
    <2>1. AxisOf(dir) = "Horizontal" /\ TurnOf(dir) = "second"
      BY <1>7 DEF AxisOf, TurnOf, Sideways
    <2>2. Edge(b, "Horizontal", "second") = b.row + b.rows /\ Beyond(a, "Horizontal", "second") = a.row - 1
      BY DEF Edge, Beyond, Out, Lo, Ext
    <2>3. Faces(a, b, dir) <=> BottomEdge(b) = a.row - 2
      BY <1>7 DEF Faces
    <2> QED
      BY <1>1, <1>3, <2>1, <2>2, <2>3
  <1> QED
    BY <1>4, <1>5, <1>6, <1>7 DEF Ways

LEMMA SpanIs ==
  ASSUME NEW a \in Rectangles, NEW dir \in Ways,
         \A d \in Dirs : Lo(a, d) >= 1 /\ Ext(a, d) >= 1
  PROVE  LET B == Across(AxisOf(dir))
         IN  Span(a, dir) = [lo |-> Lo(a, B), hi |-> Lo(a, B) + Ext(a, B) - 1]
  <1>1. a.row \in Nat /\ a.col \in Nat /\ a.rows \in Nat /\ a.cols \in Nat
    BY DEF Rectangles
  <1>2. a.row >= 1 /\ a.rows >= 1 /\ a.col >= 1 /\ a.cols >= 1
    BY DEF Dirs, Lo, Ext
  <1>3. RightEdge(a) = a.col + a.cols - 1 /\ BottomEdge(a) = a.row + a.rows - 1
    BY <1>1, <1>2 DEF RightEdge, BottomEdge, Larger
  <1> QED
    BY <1>3, AxisIs DEF Span, Lo, Ext

LEMMA OverlapIs ==
  ASSUME NEW i \in Nat, NEW j \in Nat, NEW k \in Nat, NEW l \in Nat, j >= 1, l >= 1
  PROVE  LET s == [lo |-> i, hi |-> i + j - 1]
             u == [lo |-> k, hi |-> k + l - 1]
         IN  /\ Overlap(s, u) \in Nat /\ Overlap(s, u) <= l
             /\ Distance(s, u) \in Nat
             /\ ((i <= k /\ k + 1 < i + j) \/ i = k + 1 \/ i + j = k + 1) /\ l >= 2
                  => Overlap(s, u) > 0
  <1> DEFINE s == [lo |-> i, hi |-> i + j - 1]
             u == [lo |-> k, hi |-> k + l - 1]
             m == (s.hi - s.lo) \div 2
             n == (u.hi - u.lo) \div 2
  <1>1. s.lo = i /\ s.hi = i + j - 1 /\ u.lo = k /\ u.hi = k + l - 1
    OBVIOUS
  <1>2. m \in Int /\ n \in Int
    OBVIOUS
  <1> HIDE DEF m, n
  <1>3. Distance(s, u) \in Nat
    BY <1>2 DEF Distance, Larger, m, n
  <1> HIDE DEF s, u
  <1>4. Overlap(s, u) \in Nat /\ Overlap(s, u) <= l
    BY <1>1 DEF Overlap, Larger, Lesser
  <1>5. ((i <= k /\ k + 1 < i + j) \/ i = k + 1 \/ i + j = k + 1) /\ l >= 2
          => Overlap(s, u) > 0
    BY <1>1 DEF Overlap, Larger, Lesser
  <1> QED
    BY <1>3, <1>4, <1>5 DEF s, u

(* Of a set of integers with an upper bound there is a greatest one.       *)
LEMMA BestExists ==
  ASSUME NEW S, S # {}, NEW f, NEW U \in Nat, \A x \in S : f[x] \in Int /\ f[x] <= U
  PROVE  \E x \in S : \A y \in S : f[x] >= f[y]
  <1> DEFINE T == {U - f[x] : x \in S}
  <1>1. T \subseteq Nat /\ T # {}
    OBVIOUS
  <1>2. PICK n \in T : \A m \in T : n <= m
    <2> HIDE DEF T
    <2> QED
      BY <1>1, LeastNumber
  <1>3. PICK x \in S : n = U - f[x]
    BY <1>2
  <1>4. ASSUME NEW y \in S PROVE f[x] >= f[y]
    <2>1. n <= U - f[y]
      BY <1>2
    <2> QED
      BY <1>3, <2>1
  <1> QED
    BY <1>4

LEMMA EdgesApart ==
  ASSUME NEW t, NEW w, Laid(t, w), NEW p \in DOMAIN t, NEW q \in DOMAIN t,
         NEW axis \in Dirs, NEW side \in {"first", "second"},
         Edge(Rects(t)[q], axis, side) = Beyond(Rects(t)[p], axis, side)
  PROVE  Out(Rects(t)[p], axis, side) # Out(Whole, axis, side) /\ p # q
  <1> DEFINE a == Rects(t)[p]
             b == Rects(t)[q]
  <1>1. 0 \in 0 .. Len(t[p]) /\ 0 \in 0 .. Len(t[q]) /\ w[q][0] = Whole
    BY LenProperties DEF Laid, IsTree, OnWay
  <1>2. /\ a \in Rectangles /\ b \in Rectangles /\ Whole \in Rectangles
        /\ Ext(a, axis) >= 1 /\ Ext(b, axis) >= 1
        /\ Lo(b, axis) + Ext(b, axis) <= Lo(Whole, axis) + Ext(Whole, axis)
        /\ Lo(Whole, axis) <= Lo(b, axis)
    BY <1>1, PaneInside
  <1>3. Edge(b, axis, side) = Beyond(a, axis, side)
    OBVIOUS
  <1> HIDE DEF a, b
  <1>4. /\ Lo(a, axis) \in Nat /\ Ext(a, axis) \in Nat /\ Lo(b, axis) \in Nat /\ Ext(b, axis) \in Nat
        /\ Lo(Whole, axis) \in Nat /\ Ext(Whole, axis) \in Nat
    BY <1>2, RectangleIs
  <1>5. Out(a, axis, side) # Out(Whole, axis, side)
    <2>1. CASE side = "first"
      BY <1>2, <1>3, <1>4, <2>1 DEF Edge, Beyond, Out
    <2>2. CASE side = "second"
      BY <1>2, <1>3, <1>4, <2>2 DEF Edge, Beyond, Out
    <2> QED
      BY <2>1, <2>2
  <1>6. a # b
    <2>1. CASE side = "first"
      BY <1>2, <1>3, <1>4, <2>1 DEF Edge, Beyond, Out
    <2>2. CASE side = "second"
      BY <1>2, <1>3, <1>4, <2>2 DEF Edge, Beyond, Out
    <2> QED
      BY <2>1, <2>2
  <1> QED
    BY <1>5, <1>6 DEF a, b

LEMMA AtEdgeIs ==
  ASSUME NEW r \in Rectangles, NEW dir \in Ways
  PROVE  AtEdge(r, dir) <=>
           Out(r, AxisOf(dir), TurnOf(dir)) = Out(Whole, AxisOf(dir), TurnOf(dir))
  BY DEF AtEdge, Ways, AxisOf, TurnOf, Sideways, Out, Lo, Ext

(* What faces a pane is not empty exactly when the pane is not at the edge.*)
Facing(rects, p, dir) ==
  {q \in DOMAIN rects \ {p} :
     Faces(rects[p], rects[q], dir) /\ Overlap(Span(rects[q], dir), Span(rects[p], dir)) > 0}

LEMMA NextIs ==
  ASSUME NEW rects, NEW p \in DOMAIN rects, NEW dir \in Ways, NEW U \in Nat,
         \A q \in DOMAIN rects :
           LET o == Overlap(Span(rects[q], dir), Span(rects[p], dir))
           IN  o \in Nat /\ o <= U /\ Distance(Span(rects[q], dir), Span(rects[p], dir)) \in Nat
  PROVE  NextInDirection(rects, p, dir) = {} <=> Facing(rects, p, dir) = {}
  <1> DEFINE O(q) == Overlap(Span(rects[q], dir), Span(rects[p], dir))
             D(q) == Distance(Span(rects[q], dir), Span(rects[p], dir))
             f == [q \in DOMAIN rects |-> 100000 * O(q) - D(q)]
             F == Facing(rects, p, dir)
  <1>1. \A q \in DOMAIN rects : O(q) \in Nat /\ O(q) <= U /\ D(q) \in Nat
    OBVIOUS
  <1>2. \A q \in DOMAIN rects : f[q] = 100000 * O(q) - D(q)
    OBVIOUS
  <1>3. F \subseteq DOMAIN rects
    BY DEF Facing
  <1>4. NextInDirection(rects, p, dir) = {q \in F : \A x \in F : f[q] >= f[x]}
    <2>1. NextInDirection(rects, p, dir) =
            {q \in F : \A x \in F : 100000 * O(q) - D(q) >= 100000 * O(x) - D(x)}
      BY DEF NextInDirection, Facing
    <2> HIDE DEF O, D, F, f
    <2> QED
      BY <1>2, <1>3, <2>1
  <1> HIDE DEF O, D, F
  <1>5. \A q \in DOMAIN rects : f[q] \in Int /\ f[q] <= 100000 * U
    BY <1>1, <1>2
  <1> DEFINE V == 100000 * U
  <1>6. V \in Nat /\ \A q \in F : f[q] \in Int /\ f[q] <= V
    BY <1>3, <1>5
  <1> HIDE DEF f, V
  <1>7. F # {} => \E x \in F : \A y \in F : f[x] >= f[y]
    BY <1>6, BestExists
  <1> QED
    BY <1>4, <1>7 DEF F

LEMMA NeighbourIs ==
  ASSUME NEW t, NEW w, Laid(t, w), NEW p \in DOMAIN t, NEW dir \in Ways,
         Ext(Rects(t)[p], Across(AxisOf(dir))) >= 2
  PROVE  NextInDirection(Rects(t), p, dir) = {} <=> AtEdge(Rects(t)[p], dir)
  <1> DEFINE rects == Rects(t)
             a == rects[p]
             axis == AxisOf(dir)
             side == TurnOf(dir)
             B == Across(axis)
  <1>1. DOMAIN rects = DOMAIN t
    BY DEF Rects
  <1>2. axis \in Dirs /\ side \in {"first", "second"} /\ B \in Dirs
    BY AxisIs DEF Dirs
  <1>3. \A q \in DOMAIN t :
          /\ rects[q] \in Rectangles
          /\ \A d \in Dirs : Lo(rects[q], d) >= 1 /\ Ext(rects[q], d) >= 1
    <2> SUFFICES ASSUME NEW q \in DOMAIN t
                 PROVE  /\ Rects(t)[q] \in Rectangles
                        /\ \A d \in Dirs : Lo(Rects(t)[q], d) >= 1 /\ Ext(Rects(t)[q], d) >= 1
      OBVIOUS
    <2>1. 0 \in 0 .. Len(t[q])
      BY LenProperties DEF Laid, IsTree
    <2> HIDE DEF rects
    <2>2. \A d \in Dirs : /\ Rects(t)[q] \in Rectangles
                          /\ Lo(Rects(t)[q], d) >= 1 /\ Ext(Rects(t)[q], d) >= 1
      BY <2>1, PaneInside
    <2> QED
      BY <1>2, <2>2
  <1>4. \A q \in DOMAIN t :
          Faces(a, rects[q], dir) <=> Edge(rects[q], axis, side) = Beyond(a, axis, side)
    <2> SUFFICES ASSUME NEW q \in DOMAIN t
                 PROVE  Faces(a, rects[q], dir) <=>
                          Edge(rects[q], axis, side) = Beyond(a, axis, side)
      OBVIOUS
    <2> DEFINE b == rects[q]
    <2>1. /\ a \in Rectangles /\ b \in Rectangles
          /\ \A d \in Dirs : /\ Lo(a, d) >= 1 /\ Ext(a, d) >= 1
                            /\ Lo(b, d) >= 1 /\ Ext(b, d) >= 1
      BY <1>3
    <2> HIDE DEF a, b
    <2> QED
      BY <2>1, FacesIs DEF b
  <1>5. \A q \in DOMAIN t : Span(rects[q], dir) =
          [lo |-> Lo(rects[q], B), hi |-> Lo(rects[q], B) + Ext(rects[q], B) - 1]
    <2> HIDE DEF rects
    <2> QED
      BY <1>3, SpanIs DEF B, axis
  <1>6. Ext(a, B) >= 2
    OBVIOUS
  <1>7. AtEdge(a, dir) <=> Out(a, axis, side) = Out(Whole, axis, side)
    BY <1>3, AtEdgeIs
  <1>8. \/ Out(a, axis, side) = Out(Whole, axis, side)
        \/ \E q \in DOMAIN t : Meets(rects[q], axis, side, Beyond(a, axis, side), Lo(a, B))
    BY <1>2, PaneBeside DEF Beyond
  <1>9. \A q \in DOMAIN t : Edge(rects[q], axis, side) = Beyond(a, axis, side)
          => Out(a, axis, side) # Out(Whole, axis, side) /\ p # q
    BY <1>2, EdgesApart
  <1> HIDE DEF rects, a, axis, side, B
  <1>10. \A q \in DOMAIN t :
           LET o == Overlap(Span(rects[q], dir), Span(a, dir))
           IN  /\ o \in Nat /\ o <= Ext(a, B)
               /\ Distance(Span(rects[q], dir), Span(a, dir)) \in Nat
               /\ Meets(rects[q], axis, side, Beyond(a, axis, side), Lo(a, B)) => o > 0
    <2> SUFFICES ASSUME NEW q \in DOMAIN t
                 PROVE  LET o == Overlap(Span(rects[q], dir), Span(a, dir))
                        IN  /\ o \in Nat /\ o <= Ext(a, B)
                            /\ Distance(Span(rects[q], dir), Span(a, dir)) \in Nat
                            /\ Meets(rects[q], axis, side, Beyond(a, axis, side), Lo(a, B)) => o > 0
      OBVIOUS
    <2> DEFINE i == Lo(rects[q], B)
               j == Ext(rects[q], B)
               k == Lo(a, B)
               l == Ext(a, B)
    <2>1. i \in Nat /\ j \in Nat /\ k \in Nat /\ l \in Nat /\ j >= 1 /\ l >= 2
      BY <1>2, <1>3, <1>6, RectangleIs DEF a
    <2>2. Span(rects[q], dir) = [lo |-> i, hi |-> i + j - 1] /\ Span(a, dir) = [lo |-> k, hi |-> k + l - 1]
      BY <1>5 DEF a
    <2>3. Meets(rects[q], axis, side, Beyond(a, axis, side), Lo(a, B))
            => \/ i <= k /\ k + 1 < i + j
               \/ i = k + 1
               \/ i + j = k + 1
      BY DEF Meets, B
    <2> HIDE DEF i, j, k, l
    <2>4. l >= 1
      BY <2>1
    <2> DEFINE s == [lo |-> i, hi |-> i + j - 1]
               u == [lo |-> k, hi |-> k + l - 1]
    <2>5. /\ Overlap(s, u) \in Nat /\ Overlap(s, u) <= l /\ Distance(s, u) \in Nat
          /\ ((i <= k /\ k + 1 < i + j) \/ i = k + 1 \/ i + j = k + 1) /\ l >= 2 => Overlap(s, u) > 0
      BY <2>1, <2>4, OverlapIs
    <2>6. Span(rects[q], dir) = s /\ Span(a, dir) = u
      BY <2>2
    <2> HIDE DEF s, u
    <2> QED
      BY <2>1, <2>3, <2>5, <2>6 DEF l
  <1>11. NextInDirection(rects, p, dir) = {} <=> Facing(rects, p, dir) = {}
    <2>1. Ext(a, B) \in Nat
      BY <1>2, <1>3, RectangleIs DEF a
    <2>2. \A q \in DOMAIN rects :
            LET o == Overlap(Span(rects[q], dir), Span(rects[p], dir))
            IN  o \in Nat /\ o <= Ext(a, B) /\ Distance(Span(rects[q], dir), Span(rects[p], dir)) \in Nat
      BY <1>1, <1>10 DEF a
    <2> QED
      BY <1>1, <2>1, <2>2, NextIs
  <1>12. ASSUME Out(a, axis, side) = Out(Whole, axis, side) PROVE Facing(rects, p, dir) = {}
    <2>1. \A q \in DOMAIN t : ~ Faces(a, rects[q], dir)
      BY <1>4, <1>9, <1>12
    <2> QED
      BY <1>1, <2>1 DEF Facing, a
  <1>13. ASSUME Out(a, axis, side) # Out(Whole, axis, side) PROVE Facing(rects, p, dir) # {}
    <2>1. PICK q \in DOMAIN t : Meets(rects[q], axis, side, Beyond(a, axis, side), Lo(a, B))
      BY <1>8, <1>13
    <2>2. Edge(rects[q], axis, side) = Beyond(a, axis, side)
      BY <2>1 DEF Meets
    <2>3. Faces(a, rects[q], dir) /\ q # p
      BY <1>4, <1>9, <2>2
    <2>4. Overlap(Span(rects[q], dir), Span(a, dir)) > 0
      BY <1>10, <2>1
    <2>5. q \in Facing(rects, p, dir)
      BY <1>1, <2>3, <2>4 DEF Facing, a
    <2> QED
      BY <2>5
  <1> QED
    BY <1>7, <1>11, <1>12, <1>13 DEF rects, a

(* Focus moves from a pane in a direction exactly when the pane is not at  *)
(* that edge of the viewport: pick_neighbor of layout.rs, for every tree,  *)
(* every viewport and every sequence of operations, drags among them.      *)
THEOREM FocusFindsNeighbour == LayoutSpec => []NeighbourFound
  <1>1. LayoutInv => NeighbourFound
    <2> SUFFICES ASSUME LayoutInv,
                        \A p \in InTree : Rects(tree)[p].rows >= 1 /\ Rects(tree)[p].cols >= 1,
                        NEW p \in InTree, NEW dir \in {"Up", "Down", "Left", "Right"},
                        (IF Sideways(dir) THEN Rects(tree)[p].rows ELSE Rects(tree)[p].cols) >= 2
                 PROVE  NextInDirection(Rects(tree), p, dir) = {} <=> AtEdge(Rects(tree)[p], dir)
      BY DEF NeighbourFound
    <2>1. dir \in Ways /\ p \in DOMAIN tree
      BY DEF Ways, InTree
    <2>2. IsTree(tree) /\ view \in Views
      BY DEF LayoutInv, LayoutTypeOK
    <2>3. PICK w : Laid(tree, w)
      BY <2>2, LayoutAssumption, LaidExists DEF InTree
    <2>4. Ext(Rects(tree)[p], Across(AxisOf(dir))) >= 2
      BY <2>1, AxisIs DEF Ext
    <2> QED
      BY <2>1, <2>3, <2>4, NeighbourIs
  <1> QED
    BY <1>1, LayoutInvariant, PTL
===============================================================================
