----------------------------- MODULE InputRouter -----------------------------
(***************************************************************************)
(* How one client's bytes become events: the paste, mouse and key parsers  *)
(* in a row, each of which holds back what may be the start of a sequence  *)
(* of its own, and the timer of the connection that flushes what is held.  *)
(* A parser's state is what it holds.  Bytes arrive one by one, which      *)
(* leaves the timer every chance to fire between two of them.              *)
(***************************************************************************)
EXTENDS Naturals, Sequences, SequencesExt, FiniteSets

CONSTANTS
  Tokens,      \* byte sequences a terminal may send
  MaxTokens,   \* bound of the model
  PasteCap     \* 4 MiB in the code

ASSUME RouterAssumption ==
  /\ Tokens \subseteq Seq(STRING \ {"tick"}) /\ <<>> \notin Tokens
  /\ MaxTokens \in Nat /\ PasteCap \in Nat

VARIABLES
  inPaste,     \* between an opener and its closer
  content,     \* of that paste, at most PasteCap bytes
  paste,       \* held by the paste parser: a start of Opener or of Closer
  mouse,       \* held by the mouse parser
  keys,        \* held by the key parser
  timed,       \* the idle-flush timer runs
  out,         \* events delivered: <<kind, bytes>>
  todo,        \* bytes of the present token that have not arrived
  tokens,      \* tokens sent
  fed,         \* ghost: all that has arrived, "tick" where the timer fired
  order        \* ghost: "kept"; "overtaken" when a mouse event or a paste
               \* has passed a key sequence that is incomplete; "lost" when
               \* a flush came in a mouse report or in such a sequence

routerVars ==
  <<inPaste, content, paste, mouse, keys, timed, out, todo, tokens, fed, order>>

Esc    == "esc"
Opener == <<Esc, "[", "2", "0", "0", "~">>
Closer == <<Esc, "[", "2", "0", "1", "~">>
Digits == {"0", "1", "2"}

RouterInit ==
  /\ inPaste = FALSE /\ content = <<>>
  /\ paste = <<>> /\ mouse = <<>> /\ keys = <<>>
  /\ timed = FALSE /\ order = "kept"
  /\ out = <<>> /\ todo = <<>> /\ tokens = 0 /\ fed = <<>>

-----------------------------------------------------------------------------
(* KeyParser: a sequence is complete, or given up with all its bytes, at   *)
(* the first byte that does not carry it on.                               *)
KeyGoesOn(held, b) ==
  \/ held = <<>> /\ b = Esc
  \/ held = <<Esc>> /\ b \in {"[", "O"}
  \/ Len(held) >= 2 /\ held[2] = "[" /\ b \in Digits \cup {";", ":"}

(* s: what the mouse and key parsers hold, and the events so far.          *)
FeedKey(s, b) ==
  IF KeyGoesOn(s.keys, b)
    THEN [s EXCEPT !.keys = Append(@, b)]
    ELSE [s EXCEPT !.keys = <<>>,
                   !.out  = Append(@, <<"key", Append(s.keys, b)>>)]

(* The bytes bs one after the other.                                       *)
FeedKeys(s, bs) ==
  LET after[n \in 0 .. Len(bs)] ==
        IF n = 0 THEN s ELSE FeedKey(after[n - 1], bs[n])
  IN  after[Len(bs)]

Semicolons(held) == Len(SelectSeq(held, LAMBDA b : b = ";"))

(* MouseParser: ESC [ < and up to three numbers.                           *)
MouseGoesOn(held, b) ==
  \/ Len(held) < 3 /\ b = <<Esc, "[", "<">>[Len(held) + 1]
  \/ Len(held) >= 3 /\ b \in Digits
  \/ Len(held) >= 3 /\ b = ";" /\ Semicolons(held) < 2

FeedMouse(s, b) ==
  IF MouseGoesOn(s.mouse, b)
    THEN [s EXCEPT !.mouse = Append(@, b)]
    ELSE IF Len(s.mouse) >= 3 /\ b = "M"
    THEN [s EXCEPT !.mouse = <<>>,
                   !.out   = Append(@, <<"mouse", Append(s.mouse, b)>>)]
    ELSE FeedKeys([s EXCEPT !.mouse = <<>>], Append(s.mouse, b))

FeedMice(s, bs) ==
  LET after[n \in 0 .. Len(bs)] ==
        IF n = 0 THEN s ELSE FeedMouse(after[n - 1], bs[n])
  IN  after[Len(bs)]

Parsers == [mouse |-> mouse, keys |-> keys, out |-> out]

Held == keys \o mouse \o (IF inPaste THEN <<>> ELSE paste)

Become(s) == mouse' = s.mouse /\ keys' = s.keys /\ out' = s.out

-----------------------------------------------------------------------------
(* PasteParser::consume outside a paste.                                   *)
OutsidePaste(b) ==
  LET held == Append(paste, b) IN
    \/ /\ IsStrictPrefix(held, Opener)
       /\ paste' = held
       /\ UNCHANGED <<inPaste, content, mouse, keys, out>>
    \/ /\ held = Opener
       /\ paste' = <<>> /\ inPaste' = TRUE /\ content' = <<>>
       /\ UNCHANGED <<mouse, keys, out>>
    \/ /\ ~IsPrefix(held, Opener)
       /\ paste' = <<>>
       /\ Become(FeedMice(Parsers, held))
       /\ UNCHANGED <<inPaste, content>>

Smaller(i, j) == IF i < j THEN i ELSE j

(* Mutant: the cap is looked at after the byte has been pushed.            *)
CappedLate(bs) == SubSeq(bs, 1, Smaller(Len(bs), PasteCap + 1))

Capped(bs) == SubSeq(bs, 1, Smaller(Len(bs), PasteCap))

(* Mutant: what looked like the closer's start is not put into the paste.  *)
InPasteForgets(b) ==
  LET held == Append(paste, b) IN
    \/ /\ IsStrictPrefix(held, Closer)
       /\ paste' = held
       /\ UNCHANGED <<inPaste, content, mouse, keys, out>>
    \/ /\ held = Closer
       /\ paste' = <<>> /\ inPaste' = FALSE /\ content' = <<>>
       /\ out' = Append(out, <<"paste", content>>)
       /\ UNCHANGED <<mouse, keys>>
    \/ /\ ~IsPrefix(held, Closer)
       /\ paste' = <<>> /\ content' = Capped(Append(content, b))
       /\ UNCHANGED <<inPaste, mouse, keys, out>>

(* ... and inside one.                                                     *)
InPaste(b) ==
  LET held == Append(paste, b) IN
    \/ /\ IsStrictPrefix(held, Closer)
       /\ paste' = held
       /\ UNCHANGED <<inPaste, content, mouse, keys, out>>
    \/ /\ held = Closer
       /\ paste' = <<>> /\ inPaste' = FALSE /\ content' = <<>>
       /\ out' = Append(out, <<"paste", content>>)
       /\ UNCHANGED <<mouse, keys>>
    \/ /\ ~IsPrefix(held, Closer)
       /\ paste' = <<>> /\ content' = Capped(content \o held)
       /\ UNCHANGED <<inPaste, mouse, keys, out>>

(* has_pending: something is held, the inside of a paste apart.            *)
HasPending(inside, p, m, k) ==
  (~inside /\ p # <<>>) \/ m # <<>> \/ k # <<>>

(* A frame with input: classify, then the timer is started or stopped.      *)
Byte ==
  /\ todo # <<>>
  /\ IF inPaste THEN InPaste(Head(todo)) ELSE OutsidePaste(Head(todo))
  /\ timed' = HasPending(inPaste', paste', mouse', keys')
  /\ todo'  = Tail(todo)
  /\ fed'   = Append(fed, Head(todo))
  /\ order' = IF order = "kept" /\ keys' \o mouse' # <<>>
                /\ out' # out /\ Last(out')[1] # "key" THEN "overtaken" ELSE order
  /\ UNCHANGED tokens

Typed ==
  /\ todo = <<>> /\ tokens < MaxTokens
  /\ todo' \in Tokens
  /\ tokens' = tokens + 1
  /\ UNCHANGED <<inPaste, content, paste, mouse, keys, timed, out, fed, order>>

-----------------------------------------------------------------------------
(* What flush_keys finds: the bytes the paste parser holds go to the mouse *)
(* parser, what that one then holds to the key parser, and an ESC which    *)
(* that one holds alone is the Escape key.                                 *)
AfterPaste == IF inPaste THEN Parsers ELSE FeedMice(Parsers, paste)

AfterMouse(s) == FeedKeys([s EXCEPT !.mouse = <<>>], s.mouse)

AfterKeys(s) ==
  IF s.keys = <<Esc>>
    THEN [s EXCEPT !.keys = <<>>, !.out = Append(@, <<"key", <<Esc>>>>)]
    ELSE s

(* Mutant: the mouse parser is flushed before the paste parser.            *)
FlushedInWrongOrder ==
  AfterKeys(FeedMice(AfterMouse(Parsers), IF inPaste THEN <<>> ELSE paste))

Flushed == AfterKeys(AfterMouse(AfterPaste))

(* The timer fires: flush_keys returns the first event only.               *)
IdleFlush ==
  /\ timed /\ timed' = FALSE
  /\ Become([Flushed EXCEPT !.out = SubSeq(@, 1, Smaller(Len(@), Len(out) + 1))])
  /\ paste' = IF inPaste THEN paste ELSE <<>>
  /\ fed' = Append(fed, "tick")
  /\ order' = IF Len(AfterPaste.mouse) > 3 \/ keys # <<>> THEN "lost" ELSE order
  /\ UNCHANGED <<inPaste, content, todo, tokens>>

RouterNext == Byte \/ Typed \/ IdleFlush

RouterSpec == RouterInit /\ [][RouterNext]_routerVars

-----------------------------------------------------------------------------
(* The reference: openers and closers are found in the whole input.        *)
Bytes(s) == SelectSeq(s, LAMBDA b : b # "tick")

At(w, s, i) == i + Len(w) - 1 <= Len(s) /\ SubSeq(s, i, i + Len(w) - 1) = w

Found(w, s) == {i \in 1 .. Len(s) : At(w, s, i)}

First(S) == CHOOSE i \in S : \A j \in S : i <= j

(* What is outside the pastes of s, and the contents of the complete ones. *)
Split[s \in Seq(STRING)] ==
  IF Found(Opener, s) = {} THEN [plain |-> Bytes(s), pastes |-> <<>>]
  ELSE LET i      == First(Found(Opener, s))
           before == Bytes(SubSeq(s, 1, i - 1))
           rest   == Bytes(SubSeq(s, i + 6, Len(s)))
       IN IF Found(Closer, rest) = {}
            THEN [plain |-> before, pastes |-> <<>>]
            ELSE LET j    == First(Found(Closer, rest))
                     left == Len(rest) - (j + 5)
                     k    == CHOOSE n \in 1 .. Len(s) + 1 :
                               /\ Len(Bytes(SubSeq(s, n, Len(s)))) = left
                               /\ n = 1 \/ s[n - 1] # "tick"
                     more == Split[SubSeq(s, k, Len(s))]
                 IN [plain  |-> before \o more.plain,
                     pastes |-> <<Capped(SubSeq(rest, 1, j - 1))>> \o more.pastes]

(* w comes directly after a start of itself: the parser does not begin anew*)
(* at the byte that disappoints it, and misses w.                          *)
Missed(w, s) ==
  \E i \in Found(w, s) : \E n \in 1 .. 5 : n < i /\ At(SubSeq(w, 1, n), s, i - n)

Interrupted(s) == Missed(Opener, s) \/ Missed(Closer, Bytes(s))

Delivered(kinds) ==
  FlattenSeq([n \in 1 .. Len(SelectSeq(out, LAMBDA e : e[1] \in kinds)) |->
                SelectSeq(out, LAMBDA e : e[1] \in kinds)[n][2]])

PastesOut == LET ps == SelectSeq(out, LAMBDA e : e[1] = "paste")
             IN [n \in 1 .. Len(ps) |-> ps[n][2]]

(* What each parser holds is the start of something it could complete.     *)
RouterTypeOK ==
  /\ inPaste \in BOOLEAN /\ timed \in BOOLEAN /\ tokens \in 0 .. MaxTokens
  /\ IsStrictPrefix(paste, IF inPaste THEN Closer ELSE Opener)
  /\ Len(content) <= PasteCap
  /\ \A n \in 1 .. Len(mouse) : MouseGoesOn(SubSeq(mouse, 1, n - 1), mouse[n])
  /\ \A n \in 1 .. Len(keys) : KeyGoesOn(SubSeq(keys, 1, n - 1), keys[n])

(* No byte outside a paste is lost, doubled or out of order on its way     *)
(* through the three parsers, whatever they held back and gave up and      *)
(* whenever the timer fired.  A mouse event or a paste may overtake a key  *)
(* sequence the terminal left incomplete; bytes are lost only when a flush *)
(* has more than one event to return (input_router.rs, classify,           *)
(* flush_keys).                                                            *)
NothingLost ==
  LET sent == Delivered({"key", "mouse"}) \o Held IN
    /\ order = "kept" => sent = Split[fed].plain
    /\ order # "lost" => Len(sent) = Len(Split[fed].plain)

(* What the paste and mouse parsers hold outside a paste has the timer     *)
(* running.                                                                *)
HeldIsTimed == (~inPaste /\ paste # <<>>) \/ mouse # <<>> => timed

(* And a paste is delivered as one event with its content, up to the cap,  *)
(* and never taken for keys (paste.rs); what the paste and mouse parsers   *)
(* hold outside a paste is flushed in the end, because the timer runs      *)
(* (connection.rs, has_pending).                                           *)
EveryByteArrives ==
  /\ ~Interrupted(fed) => NothingLost /\ PastesOut = Split[fed].pastes
  /\ HeldIsTimed

(* After a flush neither parser holds anything, and a lone Escape has been *)
(* delivered rather than parked in the next one (flush_keys, Invariants).  *)
FlushDelivers ==
  [][timed /\ fed' = Append(fed, "tick") =>
       /\ mouse' = <<>> /\ keys' # <<Esc>>
       /\ Held = <<Esc>> => out' = Append(out, <<"key", <<Esc>>>>)]_routerVars
=============================================================================
