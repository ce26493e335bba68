----------------------------- MODULE PaneIOProofs -----------------------------
(***************************************************************************)
(* Theorems about what goes on around a pane: its pipes, for any number of *)
(* them and any capacity of the output channel, its input, for any number  *)
(* of tasks and panes and any bound on the queues, and both together with  *)
(* the exec requests, for any number of requests, of lines that others type*)
(* and of resets.                                                          *)
(***************************************************************************)
EXTENDS MCPaneIO, SequenceTheorems, FiniteSetTheorems, TLAPS

-----------------------------------------------------------------------------
(* The exec requests.                                                      *)
Running == shell \in Execs \cup {User}

(* The prompt will not be the newest mark when the reader thread has come  *)
(* to the k-th mark: a start or a reset is ahead of it and no prompt after *)
(* that, or there is none now and none ahead.                              *)
NotPromptAt(k) ==
  \/ \E j \in 1 .. k - 1 :
       /\ output[j][1] \in {"C", "RIS"}
       /\ \A i \in j + 1 .. k - 1 : output[i][1] # "A"
  \/ prompt # "at" /\ \A i \in 1 .. k - 1 : output[i][1] # "A"

(* A pane that looks idle is idle once everything has been read: a command *)
(* that runs has covered the prompt, and the alternate screen comes up only*)
(* while one runs, so that it never hides a start behind a prompt.         *)
PromptInv ==
  /\ Running => NotPromptAt(Len(output) + 1)
  /\ \A k \in 1 .. Len(output) : output[k][1] = "alt" => NotPromptAt(k)
  /\ alt => prompt # "at"

(* A request that has not typed its line has left no trace.                *)
Unseen(e) ==
  pc[e] \in {"idle", "sending"} =>
    /\ last # e /\ shell # e
    /\ \A k \in 1 .. Len(input) : input[k] # e
    /\ \A k \in 1 .. Len(output) : output[k][2] # e

(* How far a request has come that nobody disturbs.                        *)
Unfinished(e) == count = base[e] /\ last # e /\ ~alt
Finished(e)   == count = base[e] + 1 /\ last = e /\ ~alt

Queued(e)   == input = <<e>> /\ output = <<>> /\ shell = Nothing /\ Unfinished(e)
Begun(e)   == /\ input = <<>> /\ output \in {<<>>, <<<<"C", e>>>>}
              /\ shell \in {e, "gone"} /\ Unfinished(e)
Ended(e)   == /\ input = <<>>
              /\ output \in {<<<<"C", e>>, <<"D", e>>, <<"A", e>>>>, <<<<"D", e>>, <<"A", e>>>>}
              /\ shell \in {Nothing, "gone"} /\ Unfinished(e)
Counted(e) == /\ input = <<>> /\ output \in {<<<<"A", e>>>>, <<>>}
              /\ shell \in {Nothing, "gone"} /\ Finished(e)

CalmInv(e) ==
  calm[e] =>
    /\ pc[e] = "sending" =>
         input = <<>> /\ output = <<>> /\ shell \in {Nothing, "gone"} /\ Unfinished(e)
    /\ pc[e] = "waiting" => Queued(e) \/ Begun(e) \/ Ended(e) \/ Counted(e)

Mark == {"C", "D", "A", "RIS", "alt", "main"} \X (Execs \cup {User})

ExecInv ==
  /\ ExecTypeOK /\ output \in Seq(Mark)
  /\ PromptInv
  /\ \A e \in Execs : Unseen(e) /\ CalmInv(e)
  /\ OwnAnswer

USE DEF shellVars, screenVars, execVars, allExecVars

-----------------------------------------------------------------------------
(* What lies ahead of a mark does not change when more is printed...       *)
LEMMA PrintedKeeps ==
  ASSUME output \in Seq(Mark), output' \in Seq(Mark), prompt' = prompt,
         Len(output) <= Len(output'),
         \A k \in 1 .. Len(output) : output'[k] = output[k],
         NEW k \in 1 .. Len(output) + 1, NotPromptAt(k)
  PROVE  NotPromptAt(k)'
  <1>1. Len(output) \in Nat /\ Len(output') \in Nat
    BY LenProperties
  <1>2. \A i \in 1 .. k - 1 : output'[i] = output[i]
    BY <1>1
  <1>3. \A j \in 1 .. k - 1 : \A i \in j + 1 .. k - 1 : i \in 1 .. k - 1
    BY <1>1
  <1> QED
    BY <1>2, <1>3 DEF NotPromptAt

(* ... and stays that way behind what is printed, unless that is a prompt. *)
LEMMA NoPromptPrinted ==
  ASSUME output \in Seq(Mark), output' \in Seq(Mark),
         NEW n, n = Len(output) + 1, NotPromptAt(n)', Len(output) <= Len(output'),
         \A i \in Len(output) + 1 .. Len(output') : output'[i][1] # "A",
         NEW k \in Len(output) + 1 .. Len(output') + 1
  PROVE  NotPromptAt(k)'
  <1>1. Len(output) \in Nat /\ Len(output') \in Nat
    BY LenProperties
  <1>2. \A i \in 1 .. k - 1 : i \in 1 .. Len(output) \/ output'[i][1] # "A"
    BY <1>1
  <1>3. CASE prompt' # "at" /\ \A i \in 1 .. Len(output) : output'[i][1] # "A"
    BY <1>2, <1>3 DEF NotPromptAt
  <1>4. ASSUME NEW j \in 1 .. Len(output), output'[j][1] \in {"C", "RIS"},
               \A i \in j + 1 .. Len(output) : output'[i][1] # "A"
        PROVE  NotPromptAt(k)'
    <2>1. j \in 1 .. k - 1 /\ \A i \in j + 1 .. k - 1 : output'[i][1] # "A"
      BY <1>1, <1>4
    <2> QED
      BY <1>4, <2>1 DEF NotPromptAt
  <1>5. n - 1 = Len(output)
    BY <1>1
  <1> QED
    BY <1>3, <1>4, <1>5 DEF NotPromptAt

LEMMA FeedKeeps ==
  ASSUME output \in Seq(Mark), PromptInv, ReaderFeeds,
         NEW k \in 1 .. Len(output), NotPromptAt(k + 1)
  PROVE  NotPromptAt(k)'
  <1>1. /\ Len(output) \in Nat /\ output # <<>> /\ output' = Tail(output)
        /\ Head(output) = output[1] /\ output[1] \in Mark
    BY LenProperties DEF ReaderFeeds
  <1>2. \A i \in 1 .. k - 1 : output'[i] = output[i + 1]
    BY <1>1, HeadTailProperties
  <1>3. /\ output[1][1] \in {"C", "RIS"} => prompt' # "at"
        /\ output[1][1] # "A" /\ prompt # "at" => prompt' # "at"
    BY <1>1 DEF ReaderFeeds, PromptInv, Mark
  <1>4. CASE prompt # "at" /\ \A i \in 1 .. k : output[i][1] # "A"
    <2>1. output[1][1] # "A" /\ \A i \in 1 .. k - 1 : output[i + 1][1] # "A"
      BY <1>1, <1>4
    <2> QED
      BY <1>2, <1>3, <1>4, <2>1 DEF NotPromptAt
  <1>5. ASSUME NEW j \in 1 .. k, output[j][1] \in {"C", "RIS"},
               \A i \in j + 1 .. k : output[i][1] # "A"
        PROVE  NotPromptAt(k)'
    <2>1. CASE j = 1
      <3>1. \A i \in 1 .. k - 1 : output[i + 1][1] # "A"
        BY <1>1, <1>5, <2>1
      <3> QED
        BY <1>2, <1>3, <1>5, <2>1, <3>1 DEF NotPromptAt
    <2>2. CASE j # 1
      <3>1. j - 1 \in 1 .. k - 1 /\ output'[j - 1] = output[j]
        BY <1>1, <1>2, <2>2
      <3>2. \A i \in (j - 1) + 1 .. k - 1 : output'[i][1] # "A"
        <4> TAKE i \in (j - 1) + 1 .. k - 1
        <4>1. i \in 1 .. k - 1 /\ i + 1 \in j + 1 .. k
          BY <1>1
        <4> QED
          BY <1>2, <1>5, <4>1
      <3> QED
        BY <1>5, <3>1, <3>2 DEF NotPromptAt
    <2> QED
      BY <2>1, <2>2
  <1>6. k + 1 - 1 = k
    BY <1>1
  <1> QED
    BY <1>4, <1>5, <1>6 DEF NotPromptAt

-----------------------------------------------------------------------------
(* An answer is of its type, and only a request that is over has one.      *)
LEMMA OverTypes ==
  ASSUME ExecTypeOK, NEW e \in Execs, NEW a \in Answer \ {"none"},
         NEW w \in Execs \cup {User, Nothing}, Over(e, <<a, w>>)
  PROVE  /\ pc' \in [Execs -> {"idle", "sending", "waiting", "over"}]
         /\ reply' \in [Execs -> Answer \X (Execs \cup {User, Nothing})]
         /\ \A f \in Execs : reply'[f][1] = "none" <=> pc'[f] # "over"
  <1>1. <<a, w>> \in Answer \X (Execs \cup {User, Nothing}) /\ <<a, w>>[1] = a
    OBVIOUS
  <1>2. /\ pc \in [Execs -> {"idle", "sending", "waiting", "over"}]
        /\ reply \in [Execs -> Answer \X (Execs \cup {User, Nothing})]
        /\ \A f \in Execs : reply[f][1] = "none" <=> pc[f] # "over"
    BY DEF ExecTypeOK
  <1>3. pc' = [pc EXCEPT ![e] = "over"] /\ reply' = [reply EXCEPT ![e] = <<a, w>>]
    BY DEF Over
  <1>4. reply'[e] = <<a, w>> /\ pc'[e] = "over"
    BY <1>2, <1>3
  <1>5. \A f \in Execs \ {e} : reply'[f] = reply[f] /\ pc'[f] = pc[f]
    BY <1>2, <1>3
  <1>6. pc' \in [Execs -> {"idle", "sending", "waiting", "over"}]
    BY <1>2, <1>3
  <1>7. reply' \in [Execs -> Answer \X (Execs \cup {User, Nothing})]
    BY <1>1, <1>2, <1>3
  <1> QED
    BY <1>1, <1>2, <1>4, <1>5, <1>6, <1>7

LEMMA InitExecInv == ExecInit => ExecInv
  <1> SUFFICES ASSUME ExecInit PROVE ExecInv
    OBVIOUS
  <1>1. Len(output) = 0 /\ Len(input) = 0 /\ output \in Seq(Mark)
    BY DEF ExecInit
  <1>2. ExecTypeOK
    <2>1. /\ <<"none", Nothing>> \in Answer \X (Execs \cup {User, Nothing})
          /\ <<"none", Nothing>>[1] = "none"
      BY DEF Answer
    <2>2. /\ reply \in [Execs -> Answer \X (Execs \cup {User, Nothing})]
          /\ \A e \in Execs : reply[e][1] = "none" <=> pc[e] # "over"
      BY <2>1 DEF ExecInit
    <2>3. /\ pc \in [Execs -> {"idle", "sending", "waiting", "over"}]
          /\ base \in [Execs -> Nat] /\ calm \in [Execs -> BOOLEAN]
          /\ input \in Seq(Execs \cup {User}) /\ count \in Nat
      BY DEF ExecInit
    <2> QED
      BY <2>2, <2>3 DEF ExecInit, ExecTypeOK
  <1>3. PromptInv
    BY <1>1, ExecAssumption DEF ExecInit, PromptInv, Running
  <1>4. \A e \in Execs : Unseen(e) /\ CalmInv(e)
    BY <1>1, ExecAssumption DEF ExecInit, Unseen, CalmInv
  <1>5. OwnAnswer
    BY DEF ExecInit, OwnAnswer
  <1> QED
    BY <1>1, <1>2, <1>3, <1>4, <1>5 DEF ExecInv

(* Types.                                                                  *)
LEMMA NextExecTypeOK ==
  ASSUME ExecAssumption, ExecTypeOK, output \in Seq(Mark), [ExecNext]_allExecVars
  PROVE  ExecTypeOK' /\ output' \in Seq(Mark)
  <1>1. ASSUME NEW e \in Execs, Check(e) PROVE ExecTypeOK' /\ output' \in Seq(Mark)
    <2>1. CASE Ready
      <3>1. /\ pc[e] = "idle" /\ pc' = [pc EXCEPT ![e] = "sending"]
            /\ base' = [base EXCEPT ![e] = count] /\ reply' = reply
        BY <1>1, <2>1 DEF Check
      <3>2. calm' \in [Execs -> BOOLEAN]
        BY <1>1, <2>1 DEF Check, ExecTypeOK
      <3>3. /\ pc' \in [Execs -> {"idle", "sending", "waiting", "over"}]
            /\ base' \in [Execs -> Nat]
            /\ \A f \in Execs : reply'[f][1] = "none" <=> pc'[f] # "over"
        BY <3>1 DEF ExecTypeOK
      <3> QED
        BY <1>1, <3>1, <3>2, <3>3 DEF Check, ExecTypeOK
    <2>2. CASE Over(e, <<"refused", Nothing>>) /\ UNCHANGED <<base, calm>>
      BY <1>1, <2>2, OverTypes DEF Check, ExecTypeOK, Answer
    <2> QED
      BY <1>1, <2>1, <2>2 DEF Check
  <1>2. ASSUME NEW e \in Execs, SendLine(e) PROVE ExecTypeOK' /\ output' \in Seq(Mark)
    <2>1. CASE pc' = [pc EXCEPT ![e] = "waiting"] /\ UNCHANGED reply
                 /\ input' = Append(input, e) /\ Disturbs(e)
      <3>1. calm' \in [Execs -> BOOLEAN]
        BY <2>1 DEF Disturbs, ExecTypeOK
      <3>2. input' \in Seq(Execs \cup {User})
        BY <2>1 DEF ExecTypeOK
      <3>3. /\ pc' \in [Execs -> {"idle", "sending", "waiting", "over"}]
            /\ \A f \in Execs : reply'[f][1] = "none" <=> pc'[f] # "over"
        BY <1>2, <2>1 DEF SendLine, ExecTypeOK
      <3> QED
        BY <1>2, <2>1, <3>1, <3>2, <3>3 DEF SendLine, ExecTypeOK
    <2>2. CASE Over(e, <<"refused", Nothing>>) /\ UNCHANGED <<input, calm>>
      BY <1>2, <2>2, OverTypes DEF SendLine, ExecTypeOK, Answer
    <2> QED
      BY <1>2, <2>1, <2>2 DEF SendLine
  <1>3. ASSUME NEW e \in Execs, Tick(e) PROVE ExecTypeOK' /\ output' \in Seq(Mark)
    <2>1. last \in Execs \cup {User, Nothing}
      BY DEF ExecTypeOK
    <2>2. PICK a \in Answer \ {"none"}, w \in Execs \cup {User, Nothing} : Over(e, <<a, w>>)
      BY <1>3, <2>1 DEF Tick, Answer
    <2> QED
      BY <1>3, <2>2, OverTypes DEF Tick, ExecTypeOK
  <1>4. ASSUME NEW e \in Execs, GiveUp(e) PROVE ExecTypeOK' /\ output' \in Seq(Mark)
    <2>1. last \in Execs \cup {User, Nothing}
      BY DEF ExecTypeOK
    <2>2. PICK a \in Answer \ {"none"}, w \in Execs \cup {User, Nothing} : Over(e, <<a, w>>)
      BY <1>4, <2>1 DEF GiveUp, Answer
    <2> QED
      BY <1>4, <2>2, OverTypes DEF GiveUp, ExecTypeOK
  <1>5. ASSUME NEW e \in Execs, Abandon(e) PROVE ExecTypeOK' /\ output' \in Seq(Mark)
    <2>1. Over(e, <<"abandoned", Nothing>>) /\ "abandoned" \in Answer \ {"none"}
      BY <1>5 DEF Abandon, Answer
    <2> QED
      BY <1>5, <2>1, OverTypes DEF Abandon, ExecTypeOK
  <1>6. CASE UserTypes
    BY <1>6 DEF UserTypes, Disturbs, ExecTypeOK
  <1>7. CASE ShellStarts
    <2>1. Head(input) \in Execs \cup {User} /\ Tail(input) \in Seq(Execs \cup {User})
      BY <1>7, HeadTailProperties DEF ShellStarts, ExecTypeOK
    <2>2. <<"C", Head(input)>> \in Mark
      BY <2>1 DEF Mark
    <2> QED
      BY <1>7, <2>1, <2>2 DEF ShellStarts, ExecTypeOK
  <1>8. CASE ShellFinishes
    <2>1. <<<<"D", shell>>, <<"A", shell>>>> \in Seq(Mark)
      BY <1>8 DEF ShellFinishes, Mark
    <2> QED
      BY <1>8, <2>1, ConcatProperties DEF ShellFinishes, ExecTypeOK
  <1>9. CASE CommandOdd
    <2>1. PICK o \in {<<<<"RIS", shell>>>>, <<<<"alt", shell>>, <<"main", shell>>>>,
                      <<<<"alt", shell>>>>} : output' = output \o o
      BY <1>9 DEF CommandOdd
    <2>2. \A m \in {"RIS", "alt", "main"} : <<m, shell>> \in Mark
      BY <1>9 DEF CommandOdd, Mark
    <2>3. o \in Seq(Mark)
      <3>1. CASE o = <<<<"alt", shell>>, <<"main", shell>>>>
        BY <2>2, <3>1
      <3>2. CASE o = <<<<"alt", shell>>>>
        BY <2>2, <3>2
      <3>3. CASE o = <<<<"RIS", shell>>>>
        BY <2>2, <3>3
      <3> QED
        BY <3>1, <3>2, <3>3
    <2>4. output' \in Seq(Mark)
      BY <2>1, <2>3, ConcatProperties
    <2> QED
      BY <1>9, <2>4 DEF CommandOdd, ExecTypeOK
  <1>10. CASE ShellExits
    BY <1>10 DEF ShellExits, ExecTypeOK
  <1>11. CASE ReaderFeeds
    <2>1. Tail(output) \in Seq(Mark) /\ Head(output) \in Mark
      BY <1>11, HeadTailProperties DEF ReaderFeeds
    <2>2. Head(output)[2] \in Execs \cup {User}
      BY <2>1 DEF Mark
    <2>3. count' \in Nat /\ last' \in Execs \cup {User, Nothing}
      BY <1>11, <2>2 DEF ReaderFeeds, ExecTypeOK
    <2>4. prompt' \in {"none", "at", "busy"}
      BY <1>11 DEF ReaderFeeds, ExecTypeOK
    <2>5. alt' \in BOOLEAN
      BY <1>11 DEF ReaderFeeds, ExecTypeOK
    <2> QED
      BY <1>11, <2>1, <2>3, <2>4, <2>5 DEF ReaderFeeds, ExecTypeOK
  <1>12. CASE UNCHANGED allExecVars
    BY <1>12 DEF ExecTypeOK
  <1> QED
    BY <1>1, <1>2, <1>3, <1>4, <1>5, <1>6, <1>7, <1>8, <1>9, <1>10, <1>11, <1>12
       DEF ExecNext

(* Whoever finds the pane idle, with nothing on its way, finds the shell   *)
(* at its prompt.                                                          *)
LEMMA NextPromptInv ==
  ASSUME ExecAssumption, ExecInv, output' \in Seq(Mark), [ExecNext]_allExecVars
  PROVE  PromptInv'
  <1>0. output \in Seq(Mark) /\ PromptInv /\ Len(output) \in Nat /\ Len(output') \in Nat
    BY LenProperties DEF ExecInv
  <1>1. ASSUME output' = output, prompt' = prompt, alt' = alt, shell' \in {shell, "gone"}
        PROVE  PromptInv'
    BY <1>0, <1>1, ExecAssumption DEF PromptInv, Running, NotPromptAt
  <1>2. ASSUME NEW e \in Execs,
               Check(e) \/ SendLine(e) \/ Tick(e) \/ GiveUp(e) \/ Abandon(e)
        PROVE  PromptInv'
    BY <1>1, <1>2 DEF Check, SendLine, Tick, GiveUp, Abandon
  <1>3. CASE UserTypes \/ ShellExits \/ UNCHANGED allExecVars
    BY <1>1, <1>3 DEF UserTypes, ShellExits
  <1>4. CASE ShellStarts
    <2>1. /\ Len(output') = Len(output) + 1
          /\ output'[Len(output) + 1] = <<"C", Head(input)>>
          /\ \A k \in 1 .. Len(output) : output'[k] = output[k]
          /\ prompt' = prompt /\ alt' = alt
      BY <1>0, <1>4 DEF ShellStarts
    <2>2. NotPromptAt(Len(output) + 1)'
      BY <1>0, <2>1 DEF NotPromptAt
    <2>3. ASSUME NEW k \in 1 .. Len(output'), output'[k][1] = "alt" PROVE NotPromptAt(k)'
      <3>1. k \in 1 .. Len(output) /\ output[k][1] = "alt"
        BY <1>0, <2>1, <2>3
      <3>2. NotPromptAt(k) /\ k \in 1 .. Len(output) + 1
        BY <1>0, <3>1 DEF PromptInv
      <3> QED
        BY <1>0, <2>1, <3>2, PrintedKeeps
    <2> QED
      BY <1>0, <2>1, <2>2, <2>3 DEF PromptInv
  <1>5. CASE ShellFinishes
    <2>1. /\ Len(output') = Len(output) + 2
          /\ output'[Len(output) + 1][1] = "D" /\ output'[Len(output) + 2][1] = "A"
          /\ \A k \in 1 .. Len(output) : output'[k] = output[k]
          /\ prompt' = prompt /\ alt' = alt /\ ~Running'
      BY <1>0, <1>5, ExecAssumption DEF ShellFinishes, Running
    <2>2. ASSUME NEW k \in 1 .. Len(output'), output'[k][1] = "alt" PROVE NotPromptAt(k)'
      <3>1. k \in 1 .. Len(output) /\ output[k][1] = "alt"
        BY <1>0, <2>1, <2>2
      <3>2. NotPromptAt(k) /\ k \in 1 .. Len(output) + 1
        BY <1>0, <3>1 DEF PromptInv
      <3> QED
        BY <1>0, <2>1, <3>2, PrintedKeeps
    <2> QED
      BY <1>0, <2>1, <2>2 DEF PromptInv
  <1>6. CASE CommandOdd
    <2>0. PICK o \in {<<<<"RIS", shell>>>>, <<<<"alt", shell>>, <<"main", shell>>>>,
                      <<<<"alt", shell>>>>} : output' = output \o o
      BY <1>6 DEF CommandOdd
    <2>1. /\ Len(o) \in {1, 2} /\ o \in Seq(Mark)
          /\ \A i \in 1 .. Len(o) : o[i][1] # "A"
      <3>1. \A m \in {"RIS", "alt", "main"} : <<m, shell>> \in Mark /\ <<m, shell>>[1] # "A"
        BY <1>6 DEF CommandOdd, Mark
      <3>2. CASE o = <<<<"alt", shell>>, <<"main", shell>>>>
        BY <3>1, <3>2
      <3>3. CASE o = <<<<"alt", shell>>>>
        BY <3>1, <3>3
      <3>4. CASE o = <<<<"RIS", shell>>>>
        BY <3>1, <3>4
      <3> QED
        BY <3>2, <3>3, <3>4
    <2>2. /\ Len(output') = Len(output) + Len(o)
          /\ \A k \in 1 .. Len(output) : output'[k] = output[k]
          /\ \A k \in Len(output) + 1 .. Len(output') : output'[k] = o[k - Len(output)]
      BY <1>0, <2>0, <2>1, ConcatProperties
    <2>3. \A k \in Len(output) + 1 .. Len(output') : output'[k][1] # "A"
      BY <1>0, <2>1, <2>2
    <2>4. prompt' = prompt /\ alt' = alt /\ Running
      BY <1>6 DEF CommandOdd, Running
    <2> DEFINE n == Len(output) + 1
    <2>5. NotPromptAt(n) /\ n \in 1 .. Len(output) + 1
      BY <1>0, <2>4 DEF PromptInv
    <2>6. Len(output) <= Len(output')
      BY <1>0, <2>1, <2>2
    <2>7. ASSUME NEW m, m = Len(output) + 1 PROVE NotPromptAt(m)'
      BY <1>0, <2>2, <2>4, <2>5, <2>6, <2>7, PrintedKeeps
    <2>8. ASSUME NEW k \in Len(output) + 1 .. Len(output') + 1 PROVE NotPromptAt(k)'
      <3>1. PICK m : m = Len(output) + 1
        OBVIOUS
      <3>2. NotPromptAt(m)'
        BY <2>7, <3>1
      <3> QED
        BY <1>0, <2>3, <2>6, <3>1, <3>2, NoPromptPrinted
    <2>9. ASSUME NEW k \in 1 .. Len(output'), output'[k][1] = "alt" PROVE NotPromptAt(k)'
      <3>1. CASE k \in 1 .. Len(output)
        <4>1. NotPromptAt(k) /\ k \in 1 .. Len(output) + 1
          BY <1>0, <2>2, <2>9, <3>1 DEF PromptInv
        <4> QED
          BY <1>0, <2>2, <2>4, <2>6, <4>1, PrintedKeeps
      <3>2. CASE k \notin 1 .. Len(output)
        <4>1. k \in Len(output) + 1 .. Len(output') + 1
          BY <1>0, <3>2
        <4> QED
          BY <2>8, <4>1
      <3> QED
        BY <3>1, <3>2
    <2>10. NotPromptAt(Len(output) + 1)'
      <3>1. Len(output') + 1 \in Len(output) + 1 .. Len(output') + 1
        BY <1>0, <2>6
      <3> QED
        BY <2>8, <3>1
    <2> QED
      BY <1>0, <2>4, <2>9, <2>10 DEF PromptInv
  <1>7. CASE ReaderFeeds
    <2>1. /\ Len(output') = Len(output) - 1 /\ shell' = shell
          /\ \A k \in 1 .. Len(output') : output'[k] = output[k + 1]
          /\ 1 \in 1 .. Len(output) /\ Head(output) = output[1] /\ output[1] \in Mark
      BY <1>0, <1>7, HeadTailProperties DEF ReaderFeeds
    <2>2. ASSUME NEW k \in 1 .. Len(output'), output'[k][1] = "alt" PROVE NotPromptAt(k)'
      <3>1. k \in 1 .. Len(output) /\ k + 1 \in 1 .. Len(output) /\ output[k + 1][1] = "alt"
        BY <1>0, <2>1, <2>2
      <3>2. NotPromptAt(k + 1)
        BY <1>0, <3>1 DEF PromptInv
      <3> QED
        BY <1>0, <1>7, <3>1, <3>2, FeedKeeps
    <2>3. Running' => NotPromptAt(Len(output) + 1)'
      <3>1. SUFFICES ASSUME Running' PROVE NotPromptAt(Len(output) + 1)'
        OBVIOUS
      <3>2. NotPromptAt(Len(output) + 1)
        BY <1>0, <2>1, <3>1 DEF PromptInv, Running
      <3>3. ASSUME NEW k \in 1 .. Len(output), k = Len(output) PROVE NotPromptAt(k)'
        BY <1>0, <1>7, <3>2, <3>3, FeedKeeps
      <3>4. Len(output') + 1 = Len(output) /\ Len(output) \in 1 .. Len(output)
        BY <1>0, <2>1
      <3> QED
        BY <3>3, <3>4
    <2>4. alt' => prompt' # "at"
      <3>1. output[1][1] = "alt" => prompt # "at"
        BY <1>0, <2>1 DEF PromptInv, NotPromptAt
      <3> QED
        BY <1>0, <1>7, <2>1, <3>1 DEF PromptInv, ReaderFeeds, Mark
    <2> QED
      BY <2>2, <2>3, <2>4 DEF PromptInv
  <1> QED
    BY <1>2, <1>3, <1>4, <1>5, <1>6, <1>7 DEF ExecNext

-----------------------------------------------------------------------------
(* A line leaves its traces only after its request has typed it.           *)
LEMMA NextUnseen ==
  ASSUME ExecAssumption, ExecInv, [ExecNext]_allExecVars, NEW e \in Execs
  PROVE  Unseen(e)'
  <1>0. /\ ExecTypeOK /\ Unseen(e) /\ output \in Seq(Mark)
        /\ pc = [f \in Execs |-> pc[f]] /\ input \in Seq(Execs \cup {User})
    BY DEF ExecInv, ExecTypeOK
  <1>1. ASSUME NEW f \in Execs, Check(f) \/ Tick(f) \/ GiveUp(f) \/ Abandon(f)
        PROVE  Unseen(e)'
    <2>1. /\ UNCHANGED <<input, output, shell, last>>
          /\ pc'[e] \in {"idle", "sending"} => pc[e] \in {"idle", "sending"}
      BY <1>0, <1>1 DEF Check, Tick, GiveUp, Abandon, Over
    <2> QED
      BY <1>0, <2>1 DEF Unseen
  <1>2. ASSUME NEW f \in Execs, SendLine(f) PROVE Unseen(e)'
    <2>1. CASE pc'[e] \in {"idle", "sending"}
      <3>1. e # f /\ pc'[e] = pc[e] /\ UNCHANGED <<output, shell, last>>
        BY <1>0, <1>2, <2>1 DEF SendLine, Over
      <3>2. input' = input \/ input' = Append(input, f)
        BY <1>2 DEF SendLine
      <3>3. \A k \in 1 .. Len(input') : input'[k] # e
        BY <1>0, <2>1, <3>1, <3>2 DEF Unseen
      <3> QED
        BY <1>0, <3>1, <3>3 DEF Unseen
    <2> QED
      BY <2>1 DEF Unseen
  <1>3. CASE UserTypes
    <2>1. /\ UNCHANGED <<pc, output, shell, last>> /\ input' = Append(input, User)
          /\ User # e
      BY <1>3, ExecAssumption DEF UserTypes
    <2> QED
      BY <1>0, <2>1 DEF Unseen
  <1>4. CASE ShellStarts
    <2>1. /\ UNCHANGED <<pc, last>> /\ input # <<>> /\ shell' = input[1]
          /\ Len(input') = Len(input) - 1
          /\ \A k \in 1 .. Len(input') : input'[k] = input[k + 1]
          /\ Len(output') = Len(output) + 1
          /\ \A k \in 1 .. Len(output) : output'[k] = output[k]
          /\ output'[Len(output) + 1][2] = input[1]
      BY <1>0, <1>4, HeadTailProperties DEF ShellStarts
    <2>2. 1 \in 1 .. Len(input) /\ Len(input) \in Nat /\ Len(output) \in Nat
      BY <1>0, <2>1, LenProperties, EmptySeq
    <2>3. SUFFICES ASSUME pc[e] \in {"idle", "sending"}
                   PROVE  /\ last' # e /\ shell' # e
                          /\ \A k \in 1 .. Len(input') : input'[k] # e
                          /\ \A k \in 1 .. Len(output') : output'[k][2] # e
      BY <2>1 DEF Unseen
    <2>4. /\ last # e
          /\ \A k \in 1 .. Len(input) : input[k] # e
          /\ \A k \in 1 .. Len(output) : output[k][2] # e
      BY <1>0, <2>3 DEF Unseen
    <2>5. input[1] # e
      BY <2>2, <2>4
    <2>6. ASSUME NEW k \in 1 .. Len(input') PROVE input'[k] # e
      <3>1. k + 1 \in 1 .. Len(input) /\ input'[k] = input[k + 1]
        BY <2>1, <2>2
      <3> QED
        BY <2>4, <3>1
    <2>7. ASSUME NEW k \in 1 .. Len(output') PROVE output'[k][2] # e
      <3>1. k \in 1 .. Len(output) \/ k = Len(output) + 1
        BY <2>1, <2>2
      <3> QED
        BY <2>1, <2>4, <2>5, <3>1
    <2> QED
      BY <2>1, <2>4, <2>5, <2>6, <2>7
  <1>5. CASE ShellFinishes
    <2>1. /\ UNCHANGED <<pc, last, input>> /\ shell' = Nothing /\ Nothing # e
          /\ Len(output') = Len(output) + 2
          /\ \A k \in 1 .. Len(output) : output'[k] = output[k]
          /\ output'[Len(output) + 1][2] = shell /\ output'[Len(output) + 2][2] = shell
          /\ Len(output) \in Nat
      BY <1>0, <1>5, ExecAssumption DEF ShellFinishes
    <2> QED
      BY <1>0, <2>1 DEF Unseen
  <1>6. CASE CommandOdd
    <2>1. PICK o \in {<<<<"RIS", shell>>>>, <<<<"alt", shell>>, <<"main", shell>>>>,
                      <<<<"alt", shell>>>>} : output' = output \o o
      BY <1>6 DEF CommandOdd
    <2>2. UNCHANGED <<pc, last, input, shell>>
      BY <1>6 DEF CommandOdd
    <2>3. /\ \A k \in 1 .. Len(output) : output'[k] = output[k]
          /\ \A k \in Len(output) + 1 .. Len(output') : output'[k][2] = shell
          /\ Len(output) \in Nat /\ Len(output') \in Nat
      <3>1. CASE o = <<<<"alt", shell>>, <<"main", shell>>>>
        BY <1>0, <2>1, <3>1
      <3>2. CASE o = <<<<"alt", shell>>>>
        BY <1>0, <2>1, <3>2
      <3>3. CASE o = <<<<"RIS", shell>>>>
        BY <1>0, <2>1, <3>3
      <3> QED
        BY <2>1, <3>1, <3>2, <3>3
    <2> QED
      BY <1>0, <2>2, <2>3 DEF Unseen
  <1>7. CASE ShellExits
    <2>1. UNCHANGED <<pc, output, last>> /\ shell' = "gone" /\ "gone" # e /\ input' = <<>>
      BY <1>7, ExecAssumption DEF ShellExits
    <2> QED
      BY <1>0, <2>1 DEF Unseen
  <1>8. CASE ReaderFeeds
    <2>1. /\ UNCHANGED <<pc, input, shell>> /\ Len(output) \in Nat
          /\ Len(output') = Len(output) - 1 /\ 1 \in 1 .. Len(output)
          /\ \A k \in 1 .. Len(output') : output'[k] = output[k + 1]
          /\ Head(output) = output[1]
      BY <1>0, <1>8, HeadTailProperties DEF ReaderFeeds
    <2>2. last' \in {last, output[1][2], Nothing} /\ Nothing # e
      BY <1>8, <2>1, ExecAssumption DEF ReaderFeeds
    <2>3. SUFFICES ASSUME pc[e] \in {"idle", "sending"}
                   PROVE  last' # e /\ \A k \in 1 .. Len(output') : output'[k][2] # e
      BY <1>0, <2>1 DEF Unseen
    <2>4. last # e /\ \A k \in 1 .. Len(output) : output[k][2] # e
      BY <1>0, <2>3 DEF Unseen
    <2>5. ASSUME NEW k \in 1 .. Len(output') PROVE output'[k][2] # e
      <3>1. k + 1 \in 1 .. Len(output) /\ output'[k] = output[k + 1]
        BY <2>1
      <3> QED
        BY <2>4, <3>1
    <2> QED
      BY <2>1, <2>2, <2>4, <2>5
  <1>9. CASE UNCHANGED allExecVars
    BY <1>0, <1>9 DEF Unseen
  <1> QED
    BY <1>1, <1>2, <1>3, <1>4, <1>5, <1>6, <1>7, <1>8, <1>9 DEF ExecNext

-----------------------------------------------------------------------------
(* A request that nobody disturbs goes from place to place, and its line   *)
(* is the only one there is.                                               *)
LEMMA CalmStarts ==
  ASSUME ExecAssumption, ExecInv, NEW e \in Execs, Check(e)
  PROVE  CalmInv(e)'
  <1>1. SUFFICES ASSUME calm'[e], pc'[e] \in {"sending", "waiting"} PROVE CalmInv(e)'
    BY DEF CalmInv
  <1>2. pc = [f \in Execs |-> pc[f]] /\ calm \in [Execs -> BOOLEAN]
        /\ base = [f \in Execs |-> base[f]]
    BY DEF ExecInv, ExecTypeOK
  <1>3. Ready /\ pc[e] = "idle" /\ pc'[e] = "sending" /\ base'[e] = count
    BY <1>1, <1>2 DEF Check, Over
  <1>4. input = <<>> /\ output = <<>>
    BY <1>1, <1>2, <1>3 DEF Check
  <1>5. shell \in {Nothing, "gone"}
    <2>1. Len(output) + 1 = 1
      BY <1>4
    <2>2. ~NotPromptAt(Len(output) + 1)
      BY <1>3, <2>1 DEF NotPromptAt, Ready
    <2> QED
      BY <2>2 DEF ExecInv, PromptInv, Running, ExecTypeOK
  <1>6. last # e /\ ~alt
    BY <1>3 DEF ExecInv, Unseen, Ready
  <1> QED
    BY <1>3, <1>4, <1>5, <1>6 DEF CalmInv, Unfinished, Check

LEMMA CalmTypes ==
  ASSUME ExecAssumption, ExecInv, NEW e \in Execs, SendLine(e)
  PROVE  CalmInv(e)'
  <1>1. SUFFICES ASSUME calm'[e], pc'[e] \in {"sending", "waiting"} PROVE CalmInv(e)'
    BY DEF CalmInv
  <1>2. pc = [f \in Execs |-> pc[f]] /\ calm \in [Execs -> BOOLEAN]
    BY DEF ExecInv, ExecTypeOK
  <1>3. /\ pc[e] = "sending" /\ pc'[e] = "waiting" /\ shell # "gone"
        /\ input' = Append(input, e) /\ calm[e]
    BY <1>1, <1>2 DEF SendLine, Over, Disturbs
  <1>4. /\ input = <<>> /\ output = <<>> /\ shell = Nothing /\ Unfinished(e)
    BY <1>3 DEF ExecInv, CalmInv
  <1>5. input' = <<e>>
    BY <1>3, <1>4
  <1> QED
    BY <1>3, <1>4, <1>5 DEF CalmInv, Queued, Unfinished, SendLine

LEMMA Join ==
  ASSUME NEW a, NEW b, NEW c
  PROVE  <<a>> \o <<b, c>> = <<a, b, c>>
  <1> DEFINE S == {a, b, c}
             t == <<a>> \o <<b, c>>
  <1>1. <<a>> \in Seq(S) /\ <<b, c>> \in Seq(S) /\ <<a, b, c>> \in Seq(S)
    OBVIOUS
  <1>2. t \in Seq(S) /\ Len(t) = 3
    BY <1>1, ConcatProperties
  <1>3. t[1] = a /\ t[2] = b /\ t[3] = c
    BY <1>1, ConcatProperties
  <1>4. ASSUME NEW i \in 1 .. 3 PROVE t[i] = <<a, b, c>>[i]
    <2>1. i = 1 \/ i = 2 \/ i = 3
      OBVIOUS
    <2> QED
      BY <1>3, <2>1
  <1> HIDE DEF t
  <1>5. Len(<<a, b, c>>) = 3
    OBVIOUS
  <1> QED
    BY <1>1, <1>2, <1>4, <1>5, SeqEqual DEF t

(* The shell and the reader thread move it on.                             *)
LEMMA CalmMoves ==
  ASSUME ExecAssumption, ExecInv, NEW e \in Execs,
         ShellStarts \/ ShellFinishes \/ ShellExits \/ ReaderFeeds
  PROVE  CalmInv(e)'
  <1>0. /\ pc' = pc /\ calm' = calm /\ base' = base
        /\ shell \in Execs \cup {User, Nothing, "gone"} /\ e # Nothing /\ e # "gone"
        /\ base \in [Execs -> Nat] /\ count \in Nat
    BY ExecAssumption
       DEF ShellStarts, ShellFinishes, ShellExits, ReaderFeeds, ExecInv, ExecTypeOK
  <1>1. SUFFICES ASSUME calm[e], pc[e] \in {"sending", "waiting"} PROVE CalmInv(e)'
    BY <1>0 DEF CalmInv
  <1>2. CASE pc[e] = "sending"
    <2>1. input = <<>> /\ output = <<>> /\ shell \in {Nothing, "gone"} /\ Unfinished(e)
      BY <1>1, <1>2 DEF ExecInv, CalmInv
    <2>2. ShellExits
      BY <2>1, ExecAssumption DEF ShellStarts, ShellFinishes, ReaderFeeds
    <2> QED
      BY <1>0, <1>2, <2>1, <2>2 DEF ShellExits, CalmInv, Unfinished
  <1>3. ASSUME pc[e] = "waiting", Queued(e) PROVE CalmInv(e)'
    <2>1. CASE ShellStarts
      <3>1. input' = <<>> /\ shell' = e /\ output' = <<<<"C", e>>>>
        BY <1>3, <2>1 DEF ShellStarts, Queued
      <3> QED
        BY <1>0, <1>3, <2>1, <3>1 DEF ShellStarts, Queued, CalmInv, Begun, Unfinished
    <2>2. CASE ShellExits
      BY <1>0, <1>3, <2>2 DEF ShellExits, Queued, CalmInv, Begun, Unfinished
    <2>3. ~ShellFinishes /\ ~ReaderFeeds
      BY <1>3, ExecAssumption DEF ShellFinishes, ReaderFeeds, Queued
    <2> QED
      BY <2>1, <2>2, <2>3
  <1>4. ASSUME pc[e] = "waiting", Begun(e) PROVE CalmInv(e)'
    <2>1. CASE ShellFinishes
      <3>1. shell = e /\ shell' = Nothing
        BY <1>0, <1>4, <2>1, ExecAssumption DEF ShellFinishes, Begun
      <3>2. output' \in {<<<<"C", e>>, <<"D", e>>, <<"A", e>>>>, <<<<"D", e>>, <<"A", e>>>>}
        <4>1. output' = output \o <<<<"D", e>>, <<"A", e>>>>
          BY <2>1, <3>1 DEF ShellFinishes
        <4>2. CASE output = <<>>
          BY <4>1, <4>2
        <4>3. CASE output = <<<<"C", e>>>>
          <5>1. output' = <<<<"C", e>>, <<"D", e>>, <<"A", e>>>>
            BY <4>1, <4>3, Join
          <5> QED
            BY <5>1
        <4> QED
          BY <1>4, <4>2, <4>3 DEF Begun
      <3> QED
        BY <1>0, <1>4, <2>1, <3>1, <3>2 DEF ShellFinishes, Begun, CalmInv, Ended, Unfinished
    <2>2. CASE ShellExits
      BY <1>0, <1>4, <2>2 DEF ShellExits, Begun, CalmInv, Unfinished
    <2>3. CASE ReaderFeeds
      <3>1. output = <<<<"C", e>>>> /\ output' = <<>> /\ Head(output)[1] = "C"
        BY <1>4, <2>3 DEF ReaderFeeds, Begun
      <3>2. UNCHANGED <<count, last, alt, input, shell>>
        BY <1>4, <2>3, <3>1 DEF ReaderFeeds, Begun, Unfinished
      <3> QED
        BY <1>0, <1>4, <3>1, <3>2 DEF Begun, CalmInv, Unfinished
    <2>4. ~ShellStarts
      BY <1>4 DEF ShellStarts, Begun
    <2> QED
      BY <2>1, <2>2, <2>3, <2>4
  <1>5. ASSUME pc[e] = "waiting", Ended(e) PROVE CalmInv(e)'
    <2>1. CASE ShellExits
      BY <1>0, <1>5, <2>1 DEF ShellExits, Ended, CalmInv, Unfinished
    <2>2. CASE ReaderFeeds /\ output = <<<<"C", e>>, <<"D", e>>, <<"A", e>>>>
      <3>1. output' = <<<<"D", e>>, <<"A", e>>>> /\ Head(output)[1] = "C"
        BY <2>2 DEF ReaderFeeds
      <3>2. UNCHANGED <<count, last, alt, input, shell>>
        BY <1>5, <2>2, <3>1 DEF ReaderFeeds, Ended, Unfinished
      <3> QED
        BY <1>0, <1>5, <3>1, <3>2 DEF Ended, CalmInv, Unfinished
    <2>3. CASE ReaderFeeds /\ output = <<<<"D", e>>, <<"A", e>>>>
      <3>1. output' = <<<<"A", e>>>> /\ Head(output) = <<"D", e>>
        BY <2>3 DEF ReaderFeeds
      <3>2. /\ count' = count + 1 /\ last' = e /\ alt' = alt /\ ~alt
            /\ input' = input /\ shell' = shell
        BY <1>5, <2>3, <3>1 DEF ReaderFeeds, Ended, Unfinished
      <3> QED
        BY <1>0, <1>5, <3>1, <3>2 DEF Ended, CalmInv, Counted, Unfinished, Finished
    <2>4. ~ShellStarts /\ ~ShellFinishes
      BY <1>5, ExecAssumption DEF ShellStarts, ShellFinishes, Ended
    <2> QED
      BY <1>5, <2>1, <2>2, <2>3, <2>4 DEF Ended
  <1>6. ASSUME pc[e] = "waiting", Counted(e) PROVE CalmInv(e)'
    <2>1. CASE ShellExits
      BY <1>0, <1>6, <2>1 DEF ShellExits, Counted, CalmInv, Finished
    <2>2. CASE ReaderFeeds
      <3>1. output = <<<<"A", e>>>> /\ output' = <<>> /\ Head(output)[1] = "A"
        <4>1. output = <<<<"A", e>>>>
          BY <1>6, <2>2 DEF ReaderFeeds, Counted
        <4>2. output' = Tail(output)
          BY <2>2 DEF ReaderFeeds
        <4>3. Head(output) = <<"A", e>>
          BY <4>1
        <4> QED
          BY <4>1, <4>2, <4>3
      <3>2. UNCHANGED <<count, last, alt, input, shell>>
        BY <1>6, <2>2, <3>1 DEF ReaderFeeds, Counted, Finished
      <3> QED
        BY <1>0, <1>6, <3>1, <3>2 DEF Counted, CalmInv, Finished
    <2>3. ~ShellStarts /\ ~ShellFinishes
      BY <1>6, ExecAssumption DEF ShellStarts, ShellFinishes, Counted
    <2> QED
      BY <2>1, <2>2, <2>3
  <1> QED
    BY <1>1, <1>2, <1>3, <1>4, <1>5, <1>6 DEF ExecInv, CalmInv

LEMMA NextCalm ==
  ASSUME ExecAssumption, ExecInv, [ExecNext]_allExecVars, NEW e \in Execs
  PROVE  CalmInv(e)'
  <1>0. /\ CalmInv(e) /\ pc = [f \in Execs |-> pc[f]] /\ base = [f \in Execs |-> base[f]]
        /\ calm \in [Execs -> BOOLEAN]
    BY DEF ExecInv, ExecTypeOK
  <1>1. ASSUME UNCHANGED <<input, output, shell, count, last, alt>>,
               base'[e] = base[e], calm'[e] => calm[e],
               pc'[e] \in {"sending", "waiting"} => pc'[e] = pc[e]
        PROVE  CalmInv(e)'
    BY <1>0, <1>1 DEF CalmInv, Queued, Begun, Ended, Counted, Unfinished, Finished
  <1>2. ASSUME NEW f \in Execs, Check(f), f # e PROVE CalmInv(e)'
    <2>1. base'[e] = base[e] /\ calm'[e] = calm[e] /\ pc'[e] = pc[e]
      BY <1>0, <1>2 DEF Check, Over
    <2> QED
      BY <1>1, <1>2, <2>1 DEF Check
  <1>3. ASSUME NEW f \in Execs, SendLine(f), f # e PROVE CalmInv(e)'
    <2>1. pc'[e] = pc[e]
      BY <1>0, <1>3 DEF SendLine, Over
    <2>2. CASE Disturbs(f)
      BY <1>0, <1>3, <2>1, <2>2 DEF Disturbs, CalmInv
    <2>3. CASE UNCHANGED <<input, calm>>
      BY <1>1, <1>3, <2>1, <2>3 DEF SendLine
    <2> QED
      BY <1>3, <2>2, <2>3 DEF SendLine
  <1>4. ASSUME NEW f \in Execs, Tick(f) \/ GiveUp(f) \/ Abandon(f) PROVE CalmInv(e)'
    <2>1. pc'[e] \in {"sending", "waiting"} => pc'[e] = pc[e]
      BY <1>0, <1>4 DEF Tick, GiveUp, Abandon, Over
    <2> QED
      BY <1>1, <1>4, <2>1 DEF Tick, GiveUp, Abandon
  <1>5. CASE UserTypes
    <2>1. calm'[e] => pc[e] \in {"idle", "over"}
      BY <1>5, ExecAssumption DEF UserTypes, Disturbs
    <2> QED
      BY <1>5, <2>1 DEF UserTypes, CalmInv
  <1>6. CASE CommandOdd
    <2>1. calm'[e] => pc[e] \in {"idle", "over"}
      BY <1>6 DEF CommandOdd
    <2> QED
      BY <1>6, <2>1 DEF CommandOdd, CalmInv
  <1>7. CASE UNCHANGED allExecVars
    BY <1>1, <1>7
  <1> QED
    BY <1>2, <1>3, <1>4, <1>5, <1>6, <1>7, CalmStarts, CalmTypes, CalmMoves DEF ExecNext

-----------------------------------------------------------------------------
(* An answer `done' names whose block was the last, which of a request that*)
(* nobody disturbed is its own.                                            *)
LEMMA NextOwnAnswer ==
  ASSUME ExecAssumption, ExecInv, [ExecNext]_allExecVars
  PROVE  OwnAnswer'
  <1> SUFFICES ASSUME NEW e \in Execs, calm'[e], reply'[e][1] = "done"
               PROVE  reply'[e][2] = e
    BY DEF OwnAnswer
  <1>0. /\ OwnAnswer /\ CalmInv(e) /\ calm \in [Execs -> BOOLEAN]
        /\ reply = [f \in Execs |-> reply[f]] /\ base \in [Execs -> Nat]
        /\ reply[e][1] = "none" <=> pc[e] # "over"
    BY DEF ExecInv, ExecTypeOK
  <1>1. ASSUME reply'[e] = reply[e], calm'[e] => calm[e] PROVE reply'[e][2] = e
    BY <1>0, <1>1 DEF OwnAnswer
  <1>2. ASSUME NEW f \in Execs, Check(f) PROVE reply'[e][2] = e
    <2>1. CASE f = e
      BY <1>0, <1>2, <2>1 DEF Check, Over
    <2>2. CASE f # e
      BY <1>0, <1>1, <1>2, <2>2 DEF Check, Over
    <2> QED
      BY <2>1, <2>2
  <1>3. ASSUME NEW f \in Execs, SendLine(f) \/ Abandon(f) PROVE reply'[e][2] = e
    <2>1. CASE f = e
      BY <1>0, <1>3, <2>1 DEF SendLine, Abandon, Over
    <2>2. CASE f # e
      BY <1>0, <1>1, <1>3, <2>2 DEF SendLine, Abandon, Over, Disturbs
    <2> QED
      BY <2>1, <2>2
  <1>4. ASSUME NEW f \in Execs, Tick(f) \/ GiveUp(f) PROVE reply'[e][2] = e
    <2>1. CASE f = e
      <3>1. pc[e] = "waiting" /\ calm[e] /\ Passed(e) /\ reply'[e] = <<"done", last>>
        BY <1>0, <1>4, <2>1 DEF Tick, GiveUp, Over
      <3>2. last = e
        BY <1>0, <3>1
           DEF CalmInv, Passed, Queued, Begun, Ended, Counted, Unfinished, Finished
      <3> QED
        BY <3>1, <3>2
    <2>2. CASE f # e
      BY <1>0, <1>1, <1>4, <2>2 DEF Tick, GiveUp, Over
    <2> QED
      BY <2>1, <2>2
  <1>5. CASE UserTypes \/ CommandOdd
    BY <1>1, <1>5 DEF UserTypes, CommandOdd, Disturbs
  <1>6. CASE ShellStarts \/ ShellFinishes \/ ShellExits \/ ReaderFeeds \/ UNCHANGED allExecVars
    BY <1>1, <1>6 DEF ShellStarts, ShellFinishes, ShellExits, ReaderFeeds
  <1> QED
    BY <1>2, <1>3, <1>4, <1>5, <1>6 DEF ExecNext

LEMMA NextExecInv == ExecInv /\ [ExecNext]_allExecVars => ExecInv'
  <1> SUFFICES ASSUME ExecInv, [ExecNext]_allExecVars PROVE ExecInv'
    OBVIOUS
  <1>1. ExecTypeOK' /\ output' \in Seq(Mark)
    BY NextExecTypeOK, ExecAssumption DEF ExecInv
  <1>2. PromptInv' /\ OwnAnswer'
    BY <1>1, NextPromptInv, NextOwnAnswer, ExecAssumption
  <1>3. \A e \in Execs : Unseen(e)' /\ CalmInv(e)'
    BY NextUnseen, NextCalm, ExecAssumption
  <1> QED
    BY <1>1, <1>2, <1>3 DEF ExecInv

LEMMA ExecInvariant == ExecSpec => []ExecInv
  BY NextExecInv, InitExecInv, PTL DEF ExecSpec

(* OwnAnswer: the exit code a request reports is that of its own line, if  *)
(* no other line was under way, for any number of requests and lines       *)
(* before and after, and however far the reader thread is behind.          *)
THEOREM AnswersItsOwn == ExecSpec => []OwnAnswer
  <1>1. ExecInv => OwnAnswer
    BY DEF ExecInv
  <1> QED
    BY <1>1, ExecInvariant, PTL

(* FinishedIsNotFailed: whose own block has been counted is not told that  *)
(* the time was over or the shell gone.                                    *)
THEOREM NoFalseFailure == ExecSpec => FinishedIsNotFailed
  <1>1. ExecInv /\ [ExecNext]_allExecVars
          => [\A e \in Execs :
                reply[e][1] = "none" /\ reply'[e][1] \in {"exited", "timeout"}
                   /\ calm[e] => last # e]_allExecVars
    <2> SUFFICES ASSUME ExecInv, ExecNext, NEW e \in Execs,
                        reply[e][1] = "none", reply'[e][1] \in {"exited", "timeout"}, calm[e]
                 PROVE  last # e
      OBVIOUS
    <2>0. /\ CalmInv(e) /\ reply = [f \in Execs |-> reply[f]] /\ base \in [Execs -> Nat]
      BY DEF ExecInv, ExecTypeOK
    <2>1. reply'[e] # reply[e]
      OBVIOUS
    <2>2. GiveUp(e)
      <3>1. ASSUME NEW f \in Execs, Check(f) \/ SendLine(f) \/ Tick(f) \/ Abandon(f)
            PROVE  FALSE
        BY <2>0, <2>1, <3>1 DEF Check, SendLine, Tick, Abandon, Over
      <3>2. ASSUME NEW f \in Execs, GiveUp(f), f # e PROVE FALSE
        BY <2>0, <2>1, <3>2 DEF GiveUp, Over
      <3>3. ~ (UserTypes \/ ShellStarts \/ ShellFinishes \/ CommandOdd \/ ShellExits
                 \/ ReaderFeeds)
        BY <2>1
           DEF UserTypes, ShellStarts, ShellFinishes, CommandOdd, ShellExits, ReaderFeeds
      <3> QED
        BY <3>1, <3>2, <3>3 DEF ExecNext
    <2>3. pc[e] = "waiting" /\ ~Passed(e)
      BY <2>0, <2>2 DEF GiveUp, Over
    <2> QED
      BY <2>0, <2>3
         DEF CalmInv, Passed, Queued, Begun, Ended, Counted, Unfinished, Finished
  <1> QED
    BY <1>1, ExecInvariant, PTL DEF ExecSpec, FinishedIsNotFailed


-----------------------------------------------------------------------------
(* The pipes.                                                              *)
(* What a drain has read and its consumer been given, chunk for chunk: the *)
(* one it reads next is the one after the last it gave, and it has not read*)
(* what the reader has not sent.                                           *)
InStep(i) ==
  /\ phase[i] # "new" => next[i] = got[i] + 1
  /\ phase[i] = "new" => got[i] = 0
  /\ got[i] <= sent
  /\ phase[i] = "write" => next[i] <= sent

USE DEF pipeVars, dataVars, endVars, Draining, Exiting

PipeInv == PipeTypeOK /\ SlotIsTheRunning /\ \A i \in Pipes : InStep(i)

-----------------------------------------------------------------------------
LEMMA InitPipeInv == PipeInit => PipeInv
  BY PipeAssumption DEF PipeInit, PipeInv, PipeTypeOK, SlotIsTheRunning, InStep

(* Types, with the process each place of a drain has.                      *)
LEMMA NextPipeTypeOK ==
  ASSUME PipeAssumption, PipeInv, [PipeNext]_pipeVars
  PROVE  PipeTypeOK'
  <1>0. PipeTypeOK /\ \A i \in Pipes : InStep(i)
    BY DEF PipeInv
  <1>1. CASE Output
    BY <1>0, <1>1 DEF Output, PipeTypeOK, PipeAssumption, InStep
  <1>2. CASE StopPipe
    BY <1>0, <1>2 DEF StopPipe, CancelSlot, Cancelled, PipeTypeOK, PipeAssumption, InStep
  <1>3. CASE KillChild
    BY <1>0, <1>3 DEF KillChild, CancelSlot, Cancelled, PipeTypeOK, PipeAssumption, InStep
  <1>4. CASE ReaderEnds
    BY <1>0, <1>4 DEF ReaderEnds, CancelSlot, Cancelled, PipeTypeOK, PipeAssumption, InStep
  <1>5. CASE DropPane
    BY <1>0, <1>5 DEF DropPane, CancelSlot, Cancelled, PipeTypeOK, PipeAssumption, InStep
  <1>6. ASSUME NEW i \in Pipes, Start(i) PROVE PipeTypeOK'
    BY <1>0, <1>6 DEF Start, Goto, PipeTypeOK, PipeAssumption, InStep
  <1>7. ASSUME NEW i \in Pipes, Install(i) PROVE PipeTypeOK'
    BY <1>0, <1>7 DEF Install, Goto, Cancelled, PipeTypeOK, PipeAssumption, InStep
  <1>8. ASSUME NEW i \in Pipes, DrainCancel(i) PROVE PipeTypeOK'
    BY <1>0, <1>8 DEF DrainCancel, PipeTypeOK, PipeAssumption, InStep
  <1>9. ASSUME NEW i \in Pipes, DrainChildExited(i) PROVE PipeTypeOK'
    BY <1>0, <1>9 DEF DrainChildExited, Goto, PipeTypeOK, PipeAssumption, InStep
  <1>10. ASSUME NEW i \in Pipes, DrainReceive(i) PROVE PipeTypeOK'
    BY <1>0, <1>10 DEF DrainReceive, Goto, Lagged, PipeTypeOK, PipeAssumption, InStep
  <1>11. ASSUME NEW i \in Pipes, DrainClosed(i) PROVE PipeTypeOK'
    BY <1>0, <1>11 DEF DrainClosed, Goto, PipeTypeOK, PipeAssumption, InStep
  <1>12. ASSUME NEW i \in Pipes, DrainWritten(i) PROVE PipeTypeOK'
    <2>1. next[i] \in Nat /\ next[i] <= sent /\ sent \in 0 .. MaxOutput /\ MaxOutput \in Nat
      BY <1>0, <1>12 DEF DrainWritten, Goto, PipeTypeOK, PipeAssumption, InStep
    <2>2. /\ next[i] + 1 \in 0 .. MaxOutput + 1
          /\ next[i] \in 0 .. MaxOutput
      BY <2>1
    <2>3. /\ next' \in [Pipes -> 0 .. MaxOutput + 1]
          /\ got' \in [Pipes -> 0 .. MaxOutput]
          /\ full' \in [Pipes -> BOOLEAN]
      BY <1>0, <1>12, <2>2 DEF DrainWritten, PipeTypeOK
    <2>4. /\ phase' \in [Pipes -> {"new", "starting", "panicked", "done"} \cup Draining \cup Exiting]
          /\ phase[i] = "write" /\ phase' = [phase EXCEPT ![i] = "wait"]
      BY <1>0, <1>12 DEF DrainWritten, Goto, PipeTypeOK
    <2> QED
      BY <1>0, <1>12, <2>3, <2>4 DEF DrainWritten, PipeTypeOK
  <1>13. ASSUME NEW i \in Pipes, DrainWriteFails(i) PROVE PipeTypeOK'
    BY <1>0, <1>13 DEF DrainWriteFails, Goto, PipeTypeOK, PipeAssumption, InStep
  <1>14. ASSUME NEW i \in Pipes, ExitKill(i) PROVE PipeTypeOK'
    BY <1>0, <1>14 DEF ExitKill, Goto, PipeTypeOK, PipeAssumption, InStep
  <1>15. ASSUME NEW i \in Pipes, ExitReap(i) PROVE PipeTypeOK'
    BY <1>0, <1>15 DEF ExitReap, Goto, PipeTypeOK, PipeAssumption, InStep
  <1>16. ASSUME NEW i \in Pipes, ExitClear(i) PROVE PipeTypeOK'
    BY <1>0, <1>16 DEF ExitClear, Goto, PipeTypeOK, PipeAssumption, InStep
  <1>17. ASSUME NEW i \in Pipes, ForceClose(i) PROVE PipeTypeOK'
    BY <1>0, <1>17 DEF ForceClose, Goto, PipeTypeOK, PipeAssumption, InStep
  <1>18. ASSUME NEW i \in Pipes, DrainPanics(i) PROVE PipeTypeOK'
    BY <1>0, <1>18 DEF DrainPanics, PipeTypeOK, PipeAssumption, InStep
  <1>19. ASSUME NEW i \in Pipes, ConsumerReads(i) PROVE PipeTypeOK'
    BY <1>0, <1>19 DEF ConsumerReads, PipeTypeOK, PipeAssumption, InStep
  <1>20. ASSUME NEW i \in Pipes, ConsumerExits(i) PROVE PipeTypeOK'
    BY <1>0, <1>20 DEF ConsumerExits, PipeTypeOK, PipeAssumption, InStep
  <1>21. CASE UNCHANGED pipeVars
    BY <1>0, <1>21 DEF PipeTypeOK, PipeAssumption, InStep
  <1> QED
    BY <1>0, <1>1, <1>2, <1>3, <1>4, <1>5, <1>6, <1>7, <1>8, <1>9, <1>10,
       <1>11, <1>12, <1>13, <1>14, <1>15, <1>16, <1>17, <1>18, <1>19, <1>20,
       <1>21 DEF PipeNext, DrainStep

(* A pipe is put into the slot while the one before it is told to end, and *)
(* leaves it when it is over, if it is still there.                        *)
LEMMA NextSlot ==
  ASSUME PipeAssumption, PipeInv, [PipeNext]_pipeVars
  PROVE  SlotIsTheRunning'
  <1>0. /\ SlotIsTheRunning
        /\ slot \in Pipes \cup {NoPipe} /\ NoPipe \notin Pipes
        /\ phase = [i \in Pipes |-> phase[i]] /\ cancel = [i \in Pipes |-> cancel[i]]
    BY DEF PipeInv, PipeTypeOK, PipeAssumption
  <1>1. CASE Output
    BY <1>0, <1>1 DEF Output, SlotIsTheRunning
  <1>2. CASE StopPipe
    BY <1>0, <1>2 DEF StopPipe, CancelSlot, Cancelled, SlotIsTheRunning
  <1>3. CASE KillChild
    BY <1>0, <1>3 DEF KillChild, CancelSlot, Cancelled, SlotIsTheRunning
  <1>4. CASE ReaderEnds
    BY <1>0, <1>4 DEF ReaderEnds, CancelSlot, Cancelled, SlotIsTheRunning
  <1>5. CASE DropPane
    BY <1>0, <1>5 DEF DropPane, CancelSlot, Cancelled, SlotIsTheRunning
  <1>6. ASSUME NEW i \in Pipes, Start(i) PROVE SlotIsTheRunning'
    BY <1>0, <1>6 DEF Start, Goto, SlotIsTheRunning
  <1>7. ASSUME NEW i \in Pipes, Install(i) PROVE SlotIsTheRunning'
    BY <1>0, <1>7 DEF Install, Goto, Cancelled, SlotIsTheRunning
  <1>8. ASSUME NEW i \in Pipes, DrainCancel(i) PROVE SlotIsTheRunning'
    BY <1>0, <1>8 DEF DrainCancel, SlotIsTheRunning
  <1>9. ASSUME NEW i \in Pipes, DrainChildExited(i) PROVE SlotIsTheRunning'
    BY <1>0, <1>9 DEF DrainChildExited, Goto, SlotIsTheRunning
  <1>10. ASSUME NEW i \in Pipes, DrainReceive(i) PROVE SlotIsTheRunning'
    BY <1>0, <1>10 DEF DrainReceive, Goto, Lagged, SlotIsTheRunning
  <1>11. ASSUME NEW i \in Pipes, DrainClosed(i) PROVE SlotIsTheRunning'
    BY <1>0, <1>11 DEF DrainClosed, Goto, SlotIsTheRunning
  <1>12. ASSUME NEW i \in Pipes, DrainWritten(i) PROVE SlotIsTheRunning'
    BY <1>0, <1>12 DEF DrainWritten, Goto, SlotIsTheRunning
  <1>13. ASSUME NEW i \in Pipes, DrainWriteFails(i) PROVE SlotIsTheRunning'
    BY <1>0, <1>13 DEF DrainWriteFails, Goto, SlotIsTheRunning
  <1>14. ASSUME NEW i \in Pipes, ExitKill(i) PROVE SlotIsTheRunning'
    BY <1>0, <1>14 DEF ExitKill, Goto, SlotIsTheRunning
  <1>15. ASSUME NEW i \in Pipes, ExitReap(i) PROVE SlotIsTheRunning'
    BY <1>0, <1>15 DEF ExitReap, Goto, SlotIsTheRunning
  <1>16. ASSUME NEW i \in Pipes, ExitClear(i) PROVE SlotIsTheRunning'
    BY <1>0, <1>16 DEF ExitClear, Goto, SlotIsTheRunning
  <1>17. ASSUME NEW i \in Pipes, ForceClose(i) PROVE SlotIsTheRunning'
    BY <1>0, <1>17 DEF ForceClose, Goto, SlotIsTheRunning
  <1>18. ASSUME NEW i \in Pipes, DrainPanics(i) PROVE SlotIsTheRunning'
    BY <1>0, <1>18 DEF DrainPanics, SlotIsTheRunning
  <1>19. ASSUME NEW i \in Pipes, ConsumerReads(i) PROVE SlotIsTheRunning'
    BY <1>0, <1>19 DEF ConsumerReads, SlotIsTheRunning
  <1>20. ASSUME NEW i \in Pipes, ConsumerExits(i) PROVE SlotIsTheRunning'
    BY <1>0, <1>20 DEF ConsumerExits, SlotIsTheRunning
  <1>21. CASE UNCHANGED pipeVars
    BY <1>0, <1>21 DEF SlotIsTheRunning
  <1> QED
    BY <1>0, <1>1, <1>2, <1>3, <1>4, <1>5, <1>6, <1>7, <1>8, <1>9, <1>10,
       <1>11, <1>12, <1>13, <1>14, <1>15, <1>16, <1>17, <1>18, <1>19, <1>20,
       <1>21 DEF PipeNext, DrainStep

(* The drain gives every chunk it reads before it reads the next.          *)
LEMMA NextInStep ==
  ASSUME PipeAssumption, PipeInv, [PipeNext]_pipeVars
  PROVE  \A j \in Pipes : InStep(j)'
  <1>0. PipeTypeOK /\ \A i \in Pipes : InStep(i)
    BY DEF PipeInv
  <1>1. CASE Output
    BY <1>0, <1>1 DEF Output, PipeTypeOK, InStep, PipeAssumption
  <1>2. CASE StopPipe
    BY <1>0, <1>2 DEF StopPipe, CancelSlot, Cancelled, PipeTypeOK, InStep, PipeAssumption
  <1>3. CASE KillChild
    BY <1>0, <1>3 DEF KillChild, CancelSlot, Cancelled, PipeTypeOK, InStep, PipeAssumption
  <1>4. CASE ReaderEnds
    BY <1>0, <1>4 DEF ReaderEnds, CancelSlot, Cancelled, PipeTypeOK, InStep, PipeAssumption
  <1>5. CASE DropPane
    BY <1>0, <1>5 DEF DropPane, CancelSlot, Cancelled, PipeTypeOK, InStep, PipeAssumption
  <1>6. ASSUME NEW i \in Pipes, Start(i) PROVE \A j \in Pipes : InStep(j)'
    BY <1>0, <1>6 DEF Start, Goto, PipeTypeOK, InStep, PipeAssumption
  <1>7. ASSUME NEW i \in Pipes, Install(i) PROVE \A j \in Pipes : InStep(j)'
    BY <1>0, <1>7 DEF Install, Goto, Cancelled, PipeTypeOK, InStep, PipeAssumption
  <1>8. ASSUME NEW i \in Pipes, DrainCancel(i) PROVE \A j \in Pipes : InStep(j)'
    BY <1>0, <1>8 DEF DrainCancel, PipeTypeOK, InStep, PipeAssumption
  <1>9. ASSUME NEW i \in Pipes, DrainChildExited(i) PROVE \A j \in Pipes : InStep(j)'
    BY <1>0, <1>9 DEF DrainChildExited, Goto, PipeTypeOK, InStep, PipeAssumption
  <1>10. ASSUME NEW i \in Pipes, DrainReceive(i) PROVE \A j \in Pipes : InStep(j)'
    BY <1>0, <1>10 DEF DrainReceive, Goto, Lagged, PipeTypeOK, InStep, PipeAssumption
  <1>11. ASSUME NEW i \in Pipes, DrainClosed(i) PROVE \A j \in Pipes : InStep(j)'
    BY <1>0, <1>11 DEF DrainClosed, Goto, PipeTypeOK, InStep, PipeAssumption
  <1>12. ASSUME NEW i \in Pipes, DrainWritten(i) PROVE \A j \in Pipes : InStep(j)'
    BY <1>0, <1>12 DEF DrainWritten, Goto, PipeTypeOK, InStep, PipeAssumption
  <1>13. ASSUME NEW i \in Pipes, DrainWriteFails(i) PROVE \A j \in Pipes : InStep(j)'
    BY <1>0, <1>13 DEF DrainWriteFails, Goto, PipeTypeOK, InStep, PipeAssumption
  <1>14. ASSUME NEW i \in Pipes, ExitKill(i) PROVE \A j \in Pipes : InStep(j)'
    BY <1>0, <1>14 DEF ExitKill, Goto, PipeTypeOK, InStep, PipeAssumption
  <1>15. ASSUME NEW i \in Pipes, ExitReap(i) PROVE \A j \in Pipes : InStep(j)'
    BY <1>0, <1>15 DEF ExitReap, Goto, PipeTypeOK, InStep, PipeAssumption
  <1>16. ASSUME NEW i \in Pipes, ExitClear(i) PROVE \A j \in Pipes : InStep(j)'
    BY <1>0, <1>16 DEF ExitClear, Goto, PipeTypeOK, InStep, PipeAssumption
  <1>17. ASSUME NEW i \in Pipes, ForceClose(i) PROVE \A j \in Pipes : InStep(j)'
    BY <1>0, <1>17 DEF ForceClose, Goto, PipeTypeOK, InStep, PipeAssumption
  <1>18. ASSUME NEW i \in Pipes, DrainPanics(i) PROVE \A j \in Pipes : InStep(j)'
    BY <1>0, <1>18 DEF DrainPanics, PipeTypeOK, InStep, PipeAssumption
  <1>19. ASSUME NEW i \in Pipes, ConsumerReads(i) PROVE \A j \in Pipes : InStep(j)'
    BY <1>0, <1>19 DEF ConsumerReads, PipeTypeOK, InStep, PipeAssumption
  <1>20. ASSUME NEW i \in Pipes, ConsumerExits(i) PROVE \A j \in Pipes : InStep(j)'
    BY <1>0, <1>20 DEF ConsumerExits, PipeTypeOK, InStep, PipeAssumption
  <1>21. CASE UNCHANGED pipeVars
    BY <1>0, <1>21 DEF PipeTypeOK, InStep, PipeAssumption
  <1> QED
    BY <1>0, <1>1, <1>2, <1>3, <1>4, <1>5, <1>6, <1>7, <1>8, <1>9, <1>10,
       <1>11, <1>12, <1>13, <1>14, <1>15, <1>16, <1>17, <1>18, <1>19, <1>20,
       <1>21 DEF PipeNext, DrainStep

-----------------------------------------------------------------------------
LEMMA NextPipeInv == PipeAssumption /\ PipeInv /\ [PipeNext]_pipeVars => PipeInv'
  BY NextPipeTypeOK, NextSlot, NextInStep DEF PipeInv

LEMMA PipeInvariant == PipeSpec => []PipeInv
  BY InitPipeInv, NextPipeInv, PipeAssumption, PTL DEF PipeSpec

(* PipeTypeOK: each drain and its process agree, for any number of pipes.  *)
THEOREM PipeTypeCorrect == PipeSpec => []PipeTypeOK
  <1>1. PipeInv => PipeTypeOK
    BY DEF PipeInv
  <1> QED
    BY <1>1, PipeInvariant, PTL

(* SlotIsTheRunning: the slot of the pane names the pipe that runs, through*)
(* any replacements, ends and panics.                                      *)
THEOREM SlotIsRight == PipeSpec => []SlotIsTheRunning
  <1>1. PipeInv => SlotIsTheRunning
    BY DEF PipeInv
  <1> QED
    BY <1>1, PipeInvariant, PTL

(* NoGap: a consumer is given every chunk since its start, in order, for   *)
(* any capacity of the channel.                                            *)
THEOREM NothingSkipped == PipeSpec => NoGap
  <1> DEFINE OneMore == \A i \in Pipes : phase[i] # "new" => got'[i] \in {got[i], got[i] + 1}
  <1>1. ASSUME PipeInv, [PipeNext]_pipeVars PROVE [OneMore]_pipeVars
    <2>0. /\ \A i \in Pipes : phase[i] # "new" => next[i] = got[i] + 1
          /\ got = [i \in Pipes |-> got[i]]
      BY <1>1 DEF PipeInv, InStep, PipeTypeOK
    <2>1. ASSUME got' = got PROVE OneMore
      BY <2>1
    <2>2. ASSUME NEW i \in Pipes, Start(i) PROVE OneMore
      BY <2>0, <2>2 DEF Start, Goto
    <2>3. ASSUME NEW i \in Pipes, DrainWritten(i) PROVE OneMore
      BY <2>0, <2>3 DEF DrainWritten
    <2>4. CASE Output \/ StopPipe \/ KillChild \/ ReaderEnds \/ DropPane
      BY <2>1, <2>4 DEF Output, StopPipe, KillChild, ReaderEnds, DropPane
    <2>5. ASSUME NEW i \in Pipes,
                 \/ Install(i) \/ DrainCancel(i) \/ DrainChildExited(i)
                 \/ DrainReceive(i) \/ DrainClosed(i) \/ DrainWriteFails(i)
                 \/ ExitKill(i) \/ ExitReap(i) \/ ExitClear(i) \/ ForceClose(i)
                 \/ DrainPanics(i) \/ ConsumerReads(i) \/ ConsumerExits(i)
          PROVE  OneMore
      BY <2>1, <2>5
         DEF Install, DrainCancel, DrainChildExited, DrainReceive, DrainClosed,
             DrainWriteFails, ExitKill, ExitReap, ExitClear, ForceClose,
             DrainPanics, ConsumerReads, ConsumerExits
    <2> HIDE DEF OneMore
    <2> QED
      BY <1>1, <2>2, <2>3, <2>4, <2>5 DEF PipeNext, DrainStep
  <1> QED
    BY <1>1, PipeInvariant, PTL DEF PipeSpec, NoGap

-----------------------------------------------------------------------------
(* The input.                                                              *)
InputInv == InputTypeOK /\ out = [t \in Tasks |-> out[t]]

LEMMA CountIsNat == Cardinality(Panes) \in Nat
  BY InputAssumption, FS_CardinalityType

LEMMA TargetsAre ==
  ASSUME NEW ps \in Targets
  PROVE  \E n \in 1 .. Cardinality(Panes) : ps \in [1 .. n -> Panes]
  BY DEF Targets

(* The panes that are left to send to, once the first has its chunk.       *)
LEMMA RestOfTargets ==
  ASSUME NEW ps \in Targets
  PROVE  /\ Tail(ps) \in Targets \cup {<<>>}
         /\ Len(ps) \in Nat \ {0} /\ Head(ps) \in Panes
         /\ Len(ps) # 1 => Tail(ps) # <<>>
  <1> DEFINE C == Cardinality(Panes)
  <1>1. C \in Nat
    BY CountIsNat
  <1> HIDE DEF C
  <1>2. PICK n \in 1 .. C : ps \in [1 .. n -> Panes]
    BY TargetsAre DEF C
  <1>3. /\ n \in Nat /\ n >= 1 /\ ps \in Seq(Panes) /\ Len(ps) = n
    BY <1>1, <1>2
  <1>4. \A i, j \in 1 .. n : ps[i] = ps[j] => i = j
    BY <1>2 DEF Targets
  <1>5. ps # <<>>
    BY <1>3, EmptySeq
  <1> DEFINE r == Tail(ps)
  <1>6. /\ r \in Seq(Panes) /\ Len(r) = n - 1 /\ Head(ps) = ps[1]
        /\ \A i \in 1 .. n - 1 : r[i] = ps[i + 1]
    BY <1>3, <1>5, HeadTailProperties
  <1> HIDE DEF r
  <1>7. n = 1 => r = <<>>
    BY <1>6, EmptySeq
  <1>8. ASSUME n # 1 PROVE r \in Targets /\ r # <<>>
    <2>1. n - 1 \in 1 .. C /\ n - 1 \in Nat
      BY <1>1, <1>2, <1>3, <1>8
    <2>2. r \in [1 .. n - 1 -> Panes] /\ DOMAIN r = 1 .. n - 1
      BY <1>3, <1>6, LenProperties
    <2>3. \A i, j \in 1 .. n - 1 : r[i] = r[j] => i = j
      <3>1. \A i \in 1 .. n - 1 : i + 1 \in 1 .. n /\ i \in Nat
        BY <1>3
      <3> QED
        BY <1>4, <1>6, <3>1
    <2>4. r # <<>>
      BY <1>3, <1>6, <1>8, EmptySeq
    <2> QED
      BY <2>1, <2>2, <2>3, <2>4 DEF Targets, C
  <1> QED
    BY <1>2, <1>3, <1>6, <1>7, <1>8 DEF r

LEMMA InitInputInv == InputInit => InputInv
  BY InputAssumption DEF InputInit, InputInv, InputTypeOK

LEMMA TargetNotEmpty == \A ps \in Targets : ps # <<>>
  <1> SUFFICES ASSUME NEW ps \in Targets PROVE ps # <<>>
    OBVIOUS
  <1> QED
    BY RestOfTargets, EmptySeq

LEMMA NextInputInv == InputInv /\ [InputNext]_inputVars => InputInv'
  <1> SUFFICES ASSUME InputInv, [InputNext]_inputVars PROVE InputInv'
    OBVIOUS
  <1> DEFINE Sending == /\ lock \in Tasks \cup {Nobody}
                        /\ \A t \in Tasks : out[t] \in Targets \cup {<<>>}
                        /\ lock # Nobody => out[lock] # <<>>
                        /\ out = [t \in Tasks |-> out[t]]
             Around  == /\ queue \in [Panes -> 0 .. QueueCap]
                        /\ writer \in [Panes -> {"idle", "writing", "gone"}]
                        /\ child \in [Panes -> {"busy", "printing", "killed", "gone"}]
                        /\ waiting \in {"nobody", "frame", "kill", "ended"}
  <1>1. Sending /\ Around /\ QueueCap \in Nat /\ Nobody \notin Tasks
    BY InputAssumption DEF InputInv, InputTypeOK
  <1>2. Sending' /\ Around' => InputInv'
    BY DEF InputInv, InputTypeOK
  <1>3. ASSUME NEW t \in Tasks, NEW ps \in Targets, Resolve(t, ps) \/ ResolveLocked(t, ps)
        PROVE  InputInv'
    <2>1. out' = [out EXCEPT ![t] = ps] /\ lock' \in {lock, t} /\ lock = Nobody
      BY <1>3 DEF Resolve, ResolveLocked
    <2>2. Sending'
      BY <1>1, <2>1, TargetNotEmpty
    <2>3. Around'
      BY <1>1, <1>3 DEF Resolve, ResolveLocked, paneVars
    <2> QED
      BY <1>2, <2>2, <2>3
  <1>4. ASSUME NEW t \in Tasks, Send(t) PROVE InputInv'
    <2>1. /\ out' = [out EXCEPT ![t] = Tail(@)] /\ out[t] \in Targets
          /\ lock' = IF lock = t /\ Len(out[t]) = 1 THEN Nobody ELSE lock
      BY <1>1, <1>4 DEF Send
    <2>2. /\ Tail(out[t]) \in Targets \cup {<<>>} /\ Head(out[t]) \in Panes
          /\ Len(out[t]) # 1 => Tail(out[t]) # <<>>
      BY <2>1, RestOfTargets
    <2>3. Sending'
      BY <1>1, <2>1, <2>2
    <2>4. /\ writer' = writer /\ child' = child /\ waiting' = waiting
          /\ \/ /\ queue[Head(out[t])] < QueueCap
                /\ queue' = [queue EXCEPT ![Head(out[t])] = @ + 1]
             \/ queue' = queue
      BY <1>4 DEF Send
    <2>5. Around'
      BY <1>1, <2>2, <2>4
    <2> QED
      BY <1>2, <2>3, <2>5
  <1>5. ASSUME NEW p \in Panes,
               \/ WriterTakes(p) \/ WriteFails(p) \/ ReaderReads(p)
               \/ ChildReads(p) \/ ChildPrints(p) \/ ChildGone(p)
        PROVE  InputInv'
    <2>1. Sending'
      BY <1>1, <1>5 DEF WriterTakes, WriteFails, ReaderReads, ChildReads, ChildPrints, ChildGone,
         senderVars
    <2>2. waiting' = waiting
      BY <1>5 DEF WriterTakes, WriteFails, ReaderReads, ChildReads, ChildPrints, ChildGone
    <2>3. ASSUME WriterTakes(p) PROVE Around'
      BY <1>1, <2>2, <2>3 DEF WriterTakes
    <2>4. ASSUME WriteFails(p) PROVE Around'
      BY <1>1, <2>2, <2>4 DEF WriteFails
    <2>5. ASSUME ReaderReads(p) PROVE Around'
      BY <1>1, <2>2, <2>5 DEF ReaderReads
    <2>6. ASSUME ChildReads(p) \/ ChildPrints(p) \/ ChildGone(p) PROVE Around'
      BY <1>1, <2>2, <2>6 DEF ChildReads, ChildPrints, ChildGone
    <2> HIDE DEF Sending, Around
    <2> QED
      BY <1>2, <1>5, <2>1, <2>3, <2>4, <2>5, <2>6
  <1>6. CASE FrameDone \/ TerminatePanes \/ \E for \in {"frame", "kill"} : Wait(for)
    <2>1. Sending'
      BY <1>1, <1>6 DEF FrameDone, TerminatePanes, Wait, senderVars
    <2>2. Around'
      BY <1>1, <1>6 DEF FrameDone, TerminatePanes, Wait, paneVars
    <2> QED
      BY <1>2, <2>1, <2>2
  <1>7. CASE UNCHANGED inputVars
    BY <1>1, <1>2, <1>7 DEF inputVars
  <1> HIDE DEF Sending, Around
  <1> QED
    BY <1>3, <1>4, <1>5, <1>6, <1>7 DEF InputNext

-----------------------------------------------------------------------------
(* The three parts side by side, of which one moves.                       *)
PaneIOInv == InputInv /\ PipeInv /\ ExecInv

LEMMA InitPaneIOInv == MCInit => PaneIOInv
  BY InitInputInv, InitPipeInv, InitExecInv DEF MCInit, PaneIOInv

LEMMA NextPaneIOInv == PaneIOInv /\ [MCNext]_AllVars => PaneIOInv'
  <1> SUFFICES ASSUME PaneIOInv, [MCNext]_AllVars PROVE PaneIOInv'
    OBVIOUS
  <1>1. [InputNext]_inputVars /\ [PipeNext]_pipeVars /\ [ExecNext]_allExecVars
    BY DEF MCNext, AllVars
  <1> QED
    BY <1>1, NextInputInv, NextPipeInv, NextExecInv, PipeAssumption DEF PaneIOInv

(* PaneIOTypeOK: no input queue outgrows its bound, the window-manager lock*)
(* is held across an await only by a task that still has a chunk to send,  *)
(* a pipe has a process exactly while its drain does, and a request has an *)
(* answer exactly when it is over (pane.rs, send_input; pipe.rs;           *)
(* connection.rs, serve_exec).                                             *)
THEOREM PaneIOTypes == MCSpec => []PaneIOTypeOK
  <1>1. PaneIOInv => PaneIOTypeOK
    BY DEF PaneIOInv, InputInv, PipeInv, ExecInv, PaneIOTypeOK
  <1> QED
    BY <1>1, InitPaneIOInv, NextPaneIOInv, PTL DEF MCSpec
=============================================================================
