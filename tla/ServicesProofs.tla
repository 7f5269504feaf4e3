---------------------------- MODULE ServicesProofs -----------------------------
(***************************************************************************)
(* Theorems about what surrounds the conversation: the companion of an IDE *)
(* (IdeDiff, IdeContext), an MCP server (McpServer) and the prompt's text  *)
(* (TextBuffer); and about the composition of all components around the    *)
(* scheduler, which behaves like each of them (MCServices).                *)
(***************************************************************************)
EXTENDS MCServices, SessionProofs, AgentProofs, SequenceLemmas

------------------------------------------------------------------------------
(***************************************************************************)
(* Diffs in the IDE, where the chain of promises is a mutex, and the       *)
(* editor's context, whose messages add up to what was read.               *)
(***************************************************************************)

At == {"new", "queued", "pending"} \cup Settled

DiffRecord == [at: At, file: DiffFiles \cup {0}, after: Calls,
               dialog: {"none", "shown", "closing", "closed", "gone", "left"},
               resolver: Calls, outcome: Answers]

\* The part of the type that the mutex needs.
MutexTypes ==
    /\ diff \in [Diffs -> DiffRecord]
    /\ diffMutex \in Calls
    /\ diffResponses \in [DiffFiles -> Calls]
    /\ viewAnswers \subseteq Diffs \X Answers
    /\ diffNotes \in Seq(Diffs \X Answers)

\* A dialog is about a call, a call about a file.
DialogBegun ==
    \A d \in Diffs : /\ diff[d].dialog # "none" => diff[d].at # "new"
                     /\ diff[d].at # "new" => diff[d].file \in DiffFiles

\* The calls were made in their order, diffMutex is the last one, and each
\* waits for the one right before it.
Chain ==
    /\ \A d \in Diffs : diff[d].at # "new" <=> d <= diffMutex
    /\ \A d \in Diffs : diff[d].at # "new" =>
           diff[d].after < d /\ \A e \in Diffs : e < d => e <= diff[d].after

\* When a call has the mutex, all before it are settled.
Passed ==
    \A d, e \in Diffs : diff[d].at \notin {"new", "queued"} /\ e < d => diff[e].at \in Settled

DInv == MutexTypes /\ DialogBegun /\ Chain /\ Passed

-------------------------------------------------------------------------------

\* A call that is pending may settle; the others stay as they are.
SettlesOnly ==
    \A d \in Diffs : /\ diff'[d].file = diff[d].file /\ diff'[d].after = diff[d].after
                     /\ \/ diff'[d].at = diff[d].at
                        \/ diff[d].at = "pending" /\ diff'[d].at \in Settled
                     /\ diff'[d].dialog # "none" => diff[d].at # "new"

LEMMA DiffFrame ==
  ASSUME DInv, SettlesOnly, diff' \in [Diffs -> DiffRecord], diffMutex' = diffMutex,
         diffResponses' \in [DiffFiles -> Calls],
         viewAnswers' \subseteq Diffs \X Answers, diffNotes' \in Seq(Diffs \X Answers)
  PROVE  DInv'
<1>1. MutexTypes' /\ DialogBegun'
  BY DEF DInv, MutexTypes, DialogBegun, SettlesOnly, DiffRecord, At, Settled, Answers
<1>2. \A d \in Diffs : /\ diff'[d].at # "new" <=> diff[d].at # "new"
                       /\ diff'[d].at \notin {"new", "queued"} => diff[d].at \notin {"new", "queued"}
                       /\ diff[d].at \in Settled => diff'[d].at \in Settled
  BY DEF SettlesOnly, Settled, Answers
<1>3. Chain'
  BY <1>2 DEF DInv, Chain, SettlesOnly
<1>4. Passed'
  BY <1>2 DEF DInv, Passed
<1> QED BY <1>1, <1>3, <1>4 DEF DInv

\* A promise settles once, whoever settles it.
LEMMA SettleOnce ==
  ASSUME MutexTypes, NEW c, NEW answer \in Settled
  PROVE  LET g == settle(diff, c, answer) IN
         /\ g \in [Diffs -> DiffRecord]
         /\ \A d \in Diffs : /\ g[d].file = diff[d].file /\ g[d].after = diff[d].after
                             /\ g[d].dialog = diff[d].dialog
                             /\ \/ g[d].at = diff[d].at
                                \/ diff[d].at = "pending" /\ g[d].at \in Settled
<1> DEFINE g == settle(diff, c, answer)
<1>0. diff \in [Diffs -> DiffRecord]
  BY DEF MutexTypes
<1>1. CASE c # 0 /\ diff[c].at = "pending" /\ c \in Diffs
  <2>1. g = [diff EXCEPT ![c].at = answer]
    BY <1>1 DEF settle
  <2>2. answer \in At
    BY DEF At
  <2> QED BY <1>0, <1>1, <2>1, <2>2 DEF DiffRecord
<1>2. CASE ~(c # 0 /\ diff[c].at = "pending")
  <2>1. g = diff
    BY <1>2 DEF settle
  <2> QED BY <1>0, <2>1
<1>3. CASE c \notin Diffs /\ c # 0 /\ diff[c].at = "pending"
  <2>1. g = [diff EXCEPT ![c].at = answer]
    BY <1>3 DEF settle
  <2>2. g = diff
    BY <1>0, <1>3, <2>1
  <2> QED BY <1>0, <2>2
<1> QED BY <1>1, <1>2, <1>3

\* Steps that leave the calls as they are.
LEMMA CallsStay ==
  ASSUME DInv, diff' = diff, diffMutex' = diffMutex,
         diffResponses' \in [DiffFiles -> Calls],
         viewAnswers' \subseteq Diffs \X Answers, diffNotes' \in Seq(Diffs \X Answers)
  PROVE  DInv'
<1>1. SettlesOnly /\ diff' \in [Diffs -> DiffRecord]
  BY DEF SettlesOnly, DInv, MutexTypes, DialogBegun
<1> QED BY <1>1, DiffFrame

\* Steps that only move a dialog.
LEMMA DialogMoves ==
  ASSUME DInv, NEW d \in Diffs, diff[d].at # "new", NEW dialog \in {"closing", "closed", "left"},
         diff' = [diff EXCEPT ![d].dialog = dialog], diffMutex' = diffMutex,
         diffResponses' = diffResponses, viewAnswers' = viewAnswers, diffNotes' = diffNotes
  PROVE  DInv'
<1>0. /\ diff \in [Diffs -> DiffRecord] /\ diffResponses \in [DiffFiles -> Calls]
      /\ viewAnswers \subseteq Diffs \X Answers /\ diffNotes \in Seq(Diffs \X Answers)
  BY DEF DInv, MutexTypes
<1>1. diff' \in [Diffs -> DiffRecord]
  BY <1>0 DEF DiffRecord
<1>2. SettlesOnly
  BY <1>0 DEF SettlesOnly, DiffRecord, DInv, DialogBegun
<1> QED BY <1>0, <1>1, <1>2, DiffFrame

\* A new call queues behind all others.
LEMMA OpenKeeps ==
  ASSUME DInv, NEW d \in Diffs, NEW f \in DiffFiles, OpenDiff(d, f)
  PROVE  DInv'
<1> DEFINE new == [diff[d] EXCEPT !.at = "queued", !.file = f, !.after = diffMutex,
                                  !.dialog = "shown"]
<1>0. /\ diff \in [Diffs -> DiffRecord] /\ diffMutex \in Calls /\ Diffs \subseteq Nat \ {0}
      /\ diff[d].at = "new" /\ \A e \in Diffs : e < d => diff[e].at # "new"
  BY DiffAssumption DEF DInv, MutexTypes, OpenDiff
<1>1. /\ diffMutex' = d /\ diffResponses' = diffResponses
      /\ viewAnswers' = viewAnswers /\ diffNotes' = diffNotes
  BY DEF OpenDiff, companionVars
<1>2. diff' = [diff EXCEPT ![d] = new]
  BY <1>0 DEF OpenDiff, DiffRecord
<1>3. /\ new.at = "queued" /\ new.file = f /\ new.after = diffMutex /\ new.dialog = "shown"
      /\ new \in DiffRecord
  BY <1>0 DEF DiffRecord, At
<1> HIDE DEF new
<1>4. diff'[d] = new /\ \A e \in Diffs \ {d} : diff'[e] = diff[e]
  BY <1>0, <1>2
<1>5. diff' \in [Diffs -> DiffRecord]
  BY <1>0, <1>2, <1>3
<1>6. MutexTypes'
  BY <1>1, <1>5 DEF DInv, MutexTypes, Calls
<1>7. DialogBegun'
  BY <1>3, <1>4 DEF DInv, DialogBegun
<1>8. diffMutex < d /\ \A e \in Diffs : e < d <=> e <= diffMutex
  <2>1. \A e \in Diffs : diff[e].at # "new" <=> e <= diffMutex
    BY DEF DInv, Chain
  <2>2. diffMutex = 0 \/ diffMutex \in Diffs
    BY <1>0 DEF Calls
  <2>3. ~(d <= diffMutex)
    BY <1>0, <2>1
  <2>4. \A e \in Diffs : e < d => e <= diffMutex
    BY <1>0, <2>1
  <2>5. diffMutex < d /\ diffMutex \in Nat
    <3>1. \A e \in Diffs : e \in Nat
      BY DiffAssumption
    <3>2. d \in Nat /\ diffMutex \in Nat
      BY <2>2, <3>1
    <3> QED BY <2>3, <3>2
  <2>6. ASSUME NEW e \in Diffs, e <= diffMutex PROVE e < d
    <3>1. e \in Nat /\ d \in Nat
      BY <1>0
    <3> QED BY <2>5, <2>6, <3>1
  <2> QED BY <2>4, <2>5, <2>6
<1>9. Chain'
  <2>1. ASSUME NEW e \in Diffs PROVE diff'[e].at # "new" <=> e <= diffMutex'
    <3>1. CASE e = d
      BY <1>0, <1>1, <1>3, <1>4, <3>1
    <3>2. CASE e # d
      <4>1. e <= d <=> e <= diffMutex
        BY <1>0, <1>8, <3>2
      <4> QED BY <1>1, <1>4, <3>2, <4>1 DEF DInv, Chain
    <3> QED BY <3>1, <3>2
  <2>2. ASSUME NEW e \in Diffs, diff'[e].at # "new"
        PROVE  diff'[e].after < e /\ \A c \in Diffs : c < e => c <= diff'[e].after
    <3>1. CASE e = d
      BY <1>3, <1>4, <1>8, <3>1
    <3>2. CASE e # d
      BY <1>4, <2>2, <3>2 DEF DInv, Chain
    <3> QED BY <3>1, <3>2
  <2> QED BY <2>1, <2>2 DEF Chain
<1>10. Passed'
  <2> SUFFICES ASSUME NEW a \in Diffs, NEW e \in Diffs,
                      diff'[a].at \notin {"new", "queued"}, e < a
               PROVE  diff'[e].at \in Settled
    BY DEF Passed
  <2>1. a # d
    BY <1>3, <1>4
  <2>2. diff[e].at \in Settled
    BY <1>4, <2>1 DEF DInv, Passed
  <2>3. e # d
    BY <1>0, <2>2 DEF Settled, Answers
  <2> QED BY <1>4, <2>2, <2>3
<1> QED BY <1>6, <1>7, <1>9, <1>10 DEF DInv

\* Whoever takes the mutex finds all calls before it settled.
LEMMA AcquireKeeps ==
  ASSUME DInv, NEW d \in Diffs, Acquire(d)
  PROVE  DInv'
<1>0. /\ diff \in [Diffs -> DiffRecord] /\ Diffs \subseteq Nat \ {0}
      /\ diff[d].at = "queued" /\ Released(diff[d].after)
  BY DiffAssumption DEF DInv, MutexTypes, Acquire
<1>1. /\ diff' = [diff EXCEPT ![d].at = "pending"] /\ diffMutex' = diffMutex
      /\ diffResponses' = [diffResponses EXCEPT ![diff[d].file] = d]
      /\ viewAnswers' = viewAnswers /\ diffNotes' = diffNotes
  BY DEF Acquire
<1>2. /\ diff' \in [Diffs -> DiffRecord]
      /\ diff'[d].at = "pending"
      /\ \A e \in Diffs \ {d} : diff'[e] = diff[e]
      /\ \A e \in Diffs : /\ diff'[e].after = diff[e].after /\ diff'[e].file = diff[e].file
                          /\ diff'[e].at # "new" <=> diff[e].at # "new"
                          /\ diff'[e].dialog = diff[e].dialog
  BY <1>0, <1>1 DEF DiffRecord, At
<1>3. MutexTypes'
  BY <1>1, <1>2 DEF DInv, MutexTypes, Calls
<1>4. DialogBegun' /\ Chain'
  BY <1>1, <1>2 DEF DInv, DialogBegun, Chain
<1>5. ASSUME NEW e \in Diffs, e < d PROVE diff[e].at \in Settled
  <2>1. diff[d].after < d /\ e <= diff[d].after
    BY <1>0, <1>5 DEF DInv, Chain
  <2>2. diff[d].after \in Diffs
    BY <1>0, <2>1 DEF DiffRecord, Calls
  <2>3. diff[diff[d].after].at \in Settled
    BY <1>0, <2>2 DEF Released
  <2>4. CASE e = diff[d].after
    BY <2>3, <2>4
  <2>5. CASE e # diff[d].after
    <3>0. e \in Nat /\ diff[d].after \in Nat
      BY <1>0, <2>2
    <3>1. e < diff[d].after
      BY <2>1, <2>5, <3>0
    <3> QED BY <2>2, <2>3, <3>1 DEF DInv, Passed, Settled, Answers
  <2> QED BY <2>4, <2>5
<1>6. Passed'
  <2> SUFFICES ASSUME NEW a \in Diffs, NEW e \in Diffs,
                      diff'[a].at \notin {"new", "queued"}, e < a
               PROVE  diff'[e].at \in Settled
    BY DEF Passed
  <2>1. diff[e].at \in Settled
    BY <1>2, <1>5 DEF DInv, Passed
  <2>2. e # d
    BY <1>0, <2>1 DEF Settled, Answers
  <2> QED BY <1>2, <2>1, <2>2
<1> QED BY <1>3, <1>4, <1>6 DEF DInv

\* What settles a call: a failed request, a notification, the terminal.
LEMMA AnswersKeep ==
  ASSUME DInv, (\E d \in Diffs : RequestFails(d) \/ CloseReturns(d)) \/ Notified
  PROVE  DInv'
<1>0. /\ MutexTypes /\ diff \in [Diffs -> DiffRecord] /\ diffResponses \in [DiffFiles -> Calls]
      /\ viewAnswers \subseteq Diffs \X Answers /\ diffNotes \in Seq(Diffs \X Answers)
  BY DEF DInv, MutexTypes
<1>1. ASSUME NEW d \in Diffs, RequestFails(d) PROVE DInv'
  <2>1. /\ diff' = settle(diff, d, "failed") /\ diffMutex' = diffMutex
        /\ diffResponses' \in [DiffFiles -> Calls]
        /\ viewAnswers' = viewAnswers /\ diffNotes' = diffNotes
    BY <1>0, <1>1 DEF RequestFails, Calls
  <2>2. SettlesOnly /\ diff' \in [Diffs -> DiffRecord]
    BY <1>0, <2>1, SettleOnce DEF SettlesOnly, Settled, DInv, DialogBegun
  <2> QED BY <1>0, <2>1, <2>2, DiffFrame
<1>2. CASE Notified
  <2> DEFINE note == Head(diffNotes)
             c == diffResponses[diff[note[1]].file]
  <2>1. note \in Diffs \X Answers /\ Tail(diffNotes) \in Seq(Diffs \X Answers)
    BY <1>0, <1>2 DEF Notified
  <2>2. /\ diff' = settle(diff, c, note[2]) /\ diffMutex' = diffMutex
        /\ diffResponses' \in [DiffFiles -> Calls]
        /\ viewAnswers' = viewAnswers /\ diffNotes' \in Seq(Diffs \X Answers)
    BY <1>0, <1>2, <2>1 DEF Notified, Calls
  <2>3. note[2] \in Settled
    BY <2>1 DEF Settled
  <2> HIDE DEF c, note
  <2>4. SettlesOnly /\ diff' \in [Diffs -> DiffRecord]
    BY <1>0, <2>2, <2>3, SettleOnce DEF SettlesOnly, DInv, DialogBegun
  <2> QED BY <1>0, <2>2, <2>4, DiffFrame
<1>3. ASSUME NEW d \in Diffs, CloseReturns(d) PROVE DInv'
  <2> DEFINE g == settle(diff, diff[d].resolver, diff[d].outcome)
             h == [g EXCEPT ![d].dialog = "gone"]
  <2>1. /\ diff' = [h EXCEPT ![d].resolver = 0, ![d].outcome = "rejected"] /\ diffMutex' = diffMutex
        /\ diffResponses' \in [DiffFiles -> Calls]
        /\ viewAnswers' = viewAnswers /\ diffNotes' = diffNotes
    BY <1>0, <1>3 DEF CloseReturns, Calls, companionVars
  <2>2. diff[d].outcome \in Settled /\ diff[d].at # "new"
    BY <1>0, <1>3 DEF DiffRecord, Settled, CloseReturns, DInv, DialogBegun
  <2>3. /\ g \in [Diffs -> DiffRecord]
        /\ \A e \in Diffs : /\ g[e].file = diff[e].file /\ g[e].after = diff[e].after
                            /\ g[e].dialog = diff[e].dialog
                            /\ \/ g[e].at = diff[e].at
                               \/ diff[e].at = "pending" /\ g[e].at \in Settled
    BY <1>0, <2>2, SettleOnce
  <2> HIDE DEF g
  <2>4. /\ h \in [Diffs -> DiffRecord]
        /\ \A e \in Diffs : /\ h[e].file = g[e].file /\ h[e].after = g[e].after
                            /\ h[e].at = g[e].at
                            /\ e # d => h[e].dialog = g[e].dialog
    BY <2>3 DEF DiffRecord
  <2> HIDE DEF h
  <2> DEFINE k == [h EXCEPT ![d].resolver = 0]
  <2>r. /\ k \in [Diffs -> DiffRecord]
        /\ \A e \in Diffs : /\ k[e].file = h[e].file /\ k[e].after = h[e].after
                            /\ k[e].at = h[e].at /\ k[e].dialog = h[e].dialog
    BY <2>4 DEF DiffRecord, Calls
  <2>k. diff' = [k EXCEPT ![d].outcome = "rejected"]
    BY <2>1, <2>4 DEF DiffRecord
  <2> HIDE DEF k
  <2>5. /\ diff' \in [Diffs -> DiffRecord]
        /\ \A e \in Diffs : /\ diff'[e].file = h[e].file /\ diff'[e].after = h[e].after
                            /\ diff'[e].at = h[e].at /\ diff'[e].dialog = h[e].dialog
    BY <2>r, <2>k DEF DiffRecord, Answers
  <2>6. SettlesOnly
    BY <2>2, <2>3, <2>4, <2>5 DEF SettlesOnly, DInv, DialogBegun
  <2> QED BY <1>0, <2>1, <2>5, <2>6, DiffFrame
<1> QED BY <1>1, <1>2, <1>3

LEMMA IdeInitial == ASSUME IdeInit PROVE DInv
<1>1. MutexTypes
  <2>1. diff \in [Diffs -> DiffRecord]
    BY DEF IdeInit, DiffRecord, At, Calls, Answers
  <2> QED BY <2>1 DEF IdeInit, MutexTypes, Calls
<1>2. DialogBegun /\ Passed
  BY DEF IdeInit, DialogBegun, Passed
<1>3. Chain
  BY DiffAssumption DEF IdeInit, Chain
<1> QED BY <1>1, <1>2, <1>3 DEF DInv

LEMMA IdeStepKeeps == ASSUME DInv, [IdeNext]_ideVars PROVE DInv'
<1>0. /\ MutexTypes /\ diff \in [Diffs -> DiffRecord] /\ diffResponses \in [DiffFiles -> Calls]
      /\ viewAnswers \subseteq Diffs \X Answers /\ diffNotes \in Seq(Diffs \X Answers)
  BY DEF DInv, MutexTypes
<1>1. ASSUME NEW d \in Diffs, NEW f \in DiffFiles, OpenDiff(d, f) PROVE DInv'
  BY <1>1, OpenKeeps
<1>2. ASSUME NEW d \in Diffs, Acquire(d) PROVE DInv'
  BY <1>2, AcquireKeeps
<1>3. CASE (\E d \in Diffs : RequestFails(d) \/ CloseReturns(d)) \/ Notified
  BY <1>3, AnswersKeep
<1>4. ASSUME NEW d \in Diffs, NEW a \in Answers, AnswerInTerminal(d, a) PROVE DInv'
  <2>1. diff[d].dialog = "shown" /\ diff[d].at # "new" /\ diff[d].file \in DiffFiles
    BY <1>4 DEF AnswerInTerminal, DInv, DialogBegun
  <2> DEFINE r == diffResponses[diff[d].file]
             g == [diff EXCEPT ![d].dialog = "closing"]
             h == [g EXCEPT ![d].outcome = a]
  <2>2. r \in Calls
    BY <1>0, <2>1
  <2>3. /\ diff' = [h EXCEPT ![d].resolver = r] /\ diffMutex' = diffMutex
        /\ diffResponses' = diffResponses /\ viewAnswers' = viewAnswers /\ diffNotes' = diffNotes
    BY <1>4 DEF AnswerInTerminal, companionVars
  <2> HIDE DEF r
  <2>4. /\ g \in [Diffs -> DiffRecord]
        /\ \A e \in Diffs : /\ g[e].file = diff[e].file /\ g[e].after = diff[e].after
                            /\ g[e].at = diff[e].at /\ (e # d => g[e].dialog = diff[e].dialog)
    BY <1>0 DEF DiffRecord
  <2> HIDE DEF g
  <2>5. /\ h \in [Diffs -> DiffRecord]
        /\ \A e \in Diffs : /\ h[e].file = g[e].file /\ h[e].after = g[e].after
                            /\ h[e].at = g[e].at /\ h[e].dialog = g[e].dialog
    BY <2>4 DEF DiffRecord
  <2> HIDE DEF h
  <2>6. /\ diff' \in [Diffs -> DiffRecord]
        /\ \A e \in Diffs : /\ diff'[e].file = h[e].file /\ diff'[e].after = h[e].after
                            /\ diff'[e].at = h[e].at /\ diff'[e].dialog = h[e].dialog
    BY <2>2, <2>3, <2>5 DEF DiffRecord
  <2>7. SettlesOnly
    BY <2>1, <2>4, <2>5, <2>6 DEF SettlesOnly, DInv, DialogBegun
  <2> QED BY <1>0, <2>3, <2>6, <2>7, DiffFrame
<1>5. ASSUME NEW d \in Diffs, LeaveDialog(d) \/ CloseDiff(d) PROVE DInv'
  <2>1. diff[d].dialog # "none"
    BY <1>5 DEF LeaveDialog, CloseDiff
  <2>2. diff[d].at # "new"
    BY <2>1 DEF DInv, DialogBegun
  <2>3. PICK dialog \in {"closing", "closed", "left"} :
          diff' = [diff EXCEPT ![d].dialog = dialog]
    BY <1>5 DEF LeaveDialog, CloseDiff
  <2>4. /\ diffMutex' = diffMutex /\ diffResponses' = diffResponses
        /\ viewAnswers' = viewAnswers /\ diffNotes' = diffNotes
    BY <1>5 DEF LeaveDialog, CloseDiff, companionVars
  <2> QED BY <2>2, <2>3, <2>4, DialogMoves
<1>6. ASSUME NEW d \in Diffs, NEW a \in Answers,
             ShowDiff(d) \/ AnswerInIde(d, a) \/ ViewClosed(d, a)
      PROVE  DInv'
  <2>1. diff' = diff /\ diffMutex' = diffMutex /\ diffResponses' \in [DiffFiles -> Calls]
    BY <1>0, <1>6 DEF ShowDiff, AnswerInIde, ViewClosed, cliVars
  <2>2. <<d, a>> \in Diffs \X Answers
    OBVIOUS
  <2>3. \/ viewAnswers' = viewAnswers
        \/ viewAnswers' = viewAnswers \cup {<<d, a>>}
        \/ viewAnswers' = viewAnswers \ {<<d, a>>}
    BY <1>6 DEF ShowDiff, AnswerInIde, ViewClosed
  <2>4. diffNotes' = diffNotes \/ diffNotes' = Append(diffNotes, <<d, a>>)
    BY <1>6 DEF ShowDiff, AnswerInIde, ViewClosed
  <2>5. viewAnswers' \subseteq Diffs \X Answers
    BY <1>0, <2>2, <2>3
  <2>6. diffNotes' \in Seq(Diffs \X Answers)
    BY SMTT(30), <1>0, <2>2, <2>4
  <2> QED BY <2>1, <2>5, <2>6, CallsStay
<1>7. CASE Disconnect \/ DisconnectGoesOn \/ ConnectionLost \/ Reconnect
  <2>1. diff' = diff /\ diffMutex' = diffMutex /\ viewAnswers' = viewAnswers
    BY <1>7 DEF Disconnect, DisconnectGoesOn, ConnectionLost, Reconnect, cliVars, companionVars
  <2>2. diffNotes' \in Seq(Diffs \X Answers)
    <3>1. diffNotes' = <<>> \/ diffNotes' = diffNotes
      BY <1>7 DEF Disconnect, DisconnectGoesOn, NextEntry, ConnectionLost, Reconnect,
                  Disconnected, companionVars
    <3>2. CASE diffNotes' = <<>>
      <4>1. <<>> \in Seq(Diffs \X Answers)
        OBVIOUS
      <4> QED BY <3>2, <4>1, Zenon
    <3>3. CASE diffNotes' = diffNotes
      <4>1. diffNotes \in Seq(Diffs \X Answers)
        BY <1>0
      <4> QED BY <3>3, <4>1, Zenon
    <3> QED BY <3>1, <3>2, <3>3
  <2>3. diffResponses' \in [DiffFiles -> Calls]
    BY <1>0, <1>7 DEF Disconnect, DisconnectGoesOn, NextEntry, ConnectionLost, Reconnect,
                      cliVars, Calls
  <2> QED BY <1>0, <2>1, <2>2, <2>3, CallsStay
<1>8. CASE UNCHANGED ideVars
  BY <1>0, <1>8, CallsStay DEF ideVars
<1>9. ASSUME NEW d \in Diffs, ShowDiff(d) PROVE DInv'
  <2>1. "accepted" \in Answers
    BY DEF Answers
  <2> QED BY <1>6, <1>9, <2>1
<1>10. ASSUME NEW d \in Diffs, IdeStep(d) PROVE DInv'
  BY <1>2, <1>3, <1>5, <1>6, <1>9, <1>10 DEF IdeStep
<1>11. ASSUME NEW d \in Diffs, RequestFails(d) \/ LeaveDialog(d) PROVE DInv'
  BY <1>3, <1>5, <1>11
<1> QED BY <1>1, <1>3, <1>4, <1>6, <1>7, <1>8, <1>10, <1>11 DEF IdeNext

-------------------------------------------------------------------------------

\* Calls of openDiff get past the mutex one at a time and in their order, for
\* any number of edits, whoever answers them and however often the connection
\* goes away (ide-client.ts:349, :394).
THEOREM DiffMutex == IdeSpec => []OneDiffPending
<1>1. IdeInit => DInv
  BY IdeInitial
<1>2. DInv /\ [IdeNext]_ideVars => DInv'
  BY IdeStepKeeps
<1>3. DInv => OneDiffPending
  <2> SUFFICES ASSUME DInv, NEW d \in Diffs, NEW e \in Diffs,
                      diff[d].at = "pending", diff[e].at = "pending", d # e
               PROVE  FALSE
    BY DEF OneDiffPending
  <2>1. d < e \/ e < d
    BY DiffAssumption
  <2> QED BY <2>1 DEF DInv, Passed, Settled, Answers
<1> QED BY <1>1, <1>2, <1>3, PTL DEF IdeSpec

-------------------------------------------------------------------------------

\* What the companion and the connection keep.
CompanionTypes ==
    /\ diffRequests \subseteq Diffs /\ diffViews \in Seq(Diffs)
    /\ ideConnected \in BOOLEAN /\ ideDrops \in 0 .. MaxDrops
    /\ disconnecting \in Calls

DiffInv == DInv /\ CompanionTypes

\* Closing a view leaves a list of views.
LEMMA ViewRemoved ==
  ASSUME diffViews \in Seq(Diffs), NEW at, at \subseteq DOMAIN diffViews, closeView(at)
  PROVE  diffViews' \in Seq(Diffs)
<1>1. CASE at = {}
  BY <1>1 DEF closeView
<1>2. CASE at # {}
  <2>1. PICK i \in at : diffViews' = RemoveAt(diffViews, i)
    BY <1>2 DEF closeView
  <2>2. Len(diffViews) \in Nat /\ i \in 1 .. Len(diffViews)
    BY <2>1
  <2> DEFINE former == SubSeq(diffViews, 1, i - 1)
             latter == SubSeq(diffViews, i + 1, Len(diffViews))
  <2>3. former \in Seq(Diffs)
    BY <2>2
  <2>4. latter \in Seq(Diffs)
    BY <2>2
  <2>5. diffViews' = former \o latter
    BY <2>1 DEF RemoveAt
  <2> HIDE DEF former, latter
  <2> QED BY <2>3, <2>4, <2>5, ConcatProperties
<1> QED BY <1>1, <1>2

\* closeDiff, whoever asks for it.
LEMMA DiffClosed ==
  ASSUME diffViews \in Seq(Diffs), NEW d, closeDiff(d)
  PROVE  diffViews' \in Seq(Diffs)
<1>1. FirstView(diff[d].file) \subseteq DOMAIN diffViews
  BY DEF FirstView
<1> QED BY <1>1, ViewRemoved DEF closeDiff

\* Every step keeps the types of the companion and of the connection.
LEMMA CompanionStep == ASSUME DInv, CompanionTypes, [IdeNext]_ideVars PROVE CompanionTypes'
<1>0. /\ diffRequests \subseteq Diffs /\ diffViews \in Seq(Diffs) /\ ideConnected \in BOOLEAN
      /\ ideDrops \in 0 .. MaxDrops /\ MaxDrops \in Nat /\ disconnecting \in Calls
      /\ diffResponses \in [DiffFiles -> Calls]
  BY DiffAssumption DEF CompanionTypes, DInv, MutexTypes
<1>1. ASSUME UNCHANGED <<companionVars, linkVars>> PROVE CompanionTypes'
  BY <1>0, <1>1 DEF CompanionTypes, companionVars, linkVars
<1>2. ASSUME NEW d \in Diffs, Acquire(d) \/ RequestFails(d) PROVE CompanionTypes'
  <2>1. /\ diffRequests' \subseteq Diffs /\ UNCHANGED <<diffViews, linkVars>>
    BY <1>0, <1>2 DEF Acquire, RequestFails
  <2> QED BY <1>0, <2>1 DEF CompanionTypes, linkVars
<1>3. CASE Notified
  BY <1>0, <1>3 DEF Notified, CompanionTypes, linkVars
<1>4. ASSUME NEW d \in Diffs, ShowDiff(d) PROVE CompanionTypes'
  <2>1. /\ diffRequests' \subseteq Diffs /\ diffViews' = Append(diffViews, d)
        /\ UNCHANGED linkVars
    BY <1>0, <1>4 DEF ShowDiff
  <2>2. diffViews' \in Seq(Diffs)
    BY <1>0, <2>1, AppendProperties
  <2> QED BY <1>0, <2>1, <2>2 DEF CompanionTypes, linkVars
<1>5. ASSUME NEW d \in Diffs, NEW a \in Answers, AnswerInIde(d, a) PROVE CompanionTypes'
  BY <1>0, <1>5 DEF AnswerInIde, CompanionTypes, linkVars
<1>6. ASSUME NEW d \in Diffs, NEW a \in Answers, ViewClosed(d, a) PROVE CompanionTypes'
  <2>1. diffRequests' = diffRequests /\ closeView(ViewOf(d)) /\ UNCHANGED linkVars
    BY <1>6 DEF ViewClosed
  <2>2. ViewOf(d) \subseteq DOMAIN diffViews
    BY DEF ViewOf
  <2>3. diffViews' \in Seq(Diffs)
    BY <1>0, <2>1, <2>2, ViewRemoved
  <2> QED BY <1>0, <2>1, <2>3 DEF CompanionTypes, linkVars
<1>7. ASSUME NEW d \in Diffs, CloseDiff(d) PROVE CompanionTypes'
  <2>1. diffRequests' = diffRequests /\ closeDiff(d) /\ UNCHANGED linkVars
    BY <1>7 DEF CloseDiff
  <2>2. diffViews' \in Seq(Diffs)
    BY <1>0, <2>1, DiffClosed
  <2> QED BY <1>0, <2>1, <2>2 DEF CompanionTypes, linkVars
<1>8. ASSUME NEW visited, NextEntry(visited)
      PROVE  disconnecting' \in Calls /\ ideConnected' \in BOOLEAN
  <2>1. \A but : Entries(but) \subseteq Calls
    BY <1>0 DEF Entries
  <2> QED BY <1>0, <1>8, <2>1 DEF NextEntry, Disconnected, Calls
<1>9. CASE Disconnect
  <2>1. /\ UNCHANGED <<diffRequests, diffViews>> /\ NextEntry(0)
        /\ ideDrops' = ideDrops + 1 /\ ideDrops < MaxDrops
    BY <1>9 DEF Disconnect, Dropped
  <2> QED BY <1>0, <1>8, <2>1 DEF CompanionTypes
<1>10. CASE DisconnectGoesOn
  <2>1. /\ UNCHANGED <<diffRequests, ideDrops>> /\ NextEntry(disconnecting)
        /\ closeDiff(disconnecting)
    BY <1>10 DEF DisconnectGoesOn
  <2>2. diffViews' \in Seq(Diffs)
    BY <1>0, <2>1, DiffClosed
  <2> QED BY <1>0, <1>8, <2>1, <2>2 DEF CompanionTypes
<1>11. CASE ConnectionLost
  <2>1. /\ UNCHANGED <<diffRequests, diffViews, disconnecting>> /\ ideConnected' = FALSE
        /\ ideDrops' = ideDrops + 1 /\ ideDrops < MaxDrops
    BY <1>11 DEF ConnectionLost, Dropped, Disconnected
  <2>2. ideDrops' \in 0 .. MaxDrops
    BY <1>0, <2>1
  <2> QED BY <1>0, <2>1, <2>2 DEF CompanionTypes
<1>12. CASE Reconnect
  BY <1>0, <1>12 DEF Reconnect, CompanionTypes, companionVars
<1>13. ASSUME NEW d \in Diffs,
              \/ LeaveDialog(d) \/ CloseReturns(d) \/ \E f \in DiffFiles : OpenDiff(d, f)
              \/ \E a \in Answers : AnswerInTerminal(d, a)
       PROVE  CompanionTypes'
  BY <1>1, <1>13 DEF LeaveDialog, CloseReturns, OpenDiff, AnswerInTerminal
<1>14. CASE UNCHANGED ideVars
  BY <1>1, <1>14 DEF ideVars, companionVars, linkVars
<1>15. ASSUME NEW d \in Diffs, IdeStep(d) PROVE CompanionTypes'
  BY <1>2, <1>4, <1>6, <1>7, <1>13, <1>15 DEF IdeStep
<1> QED BY <1>2, <1>3, <1>5, <1>9, <1>10, <1>11, <1>12, <1>13, <1>14, <1>15 DEF IdeNext

LEMMA DiffInvariant ==
  /\ IdeInit => DiffInv
  /\ DiffInv /\ [IdeNext]_ideVars => DiffInv'
  /\ DiffInv => DiffTypeOK
<1>1. IdeInit => DiffInv
  BY IdeInitial, DiffAssumption DEF IdeInit, DiffInv, CompanionTypes, Calls
<1>2. DiffInv /\ [IdeNext]_ideVars => DiffInv'
  BY IdeStepKeeps, CompanionStep DEF DiffInv
<1>3. DiffInv => DiffTypeOK
  BY DEF DiffInv, DInv, MutexTypes, CompanionTypes, DiffTypeOK, DiffRecord, At
<1> QED BY <1>1, <1>2, <1>3

\* The types on both sides, for any number of edits, paths and lost
\* connections (ide-client.ts:82, diff-manager.ts:52).
THEOREM DiffTypeCorrect == IdeSpec => []DiffTypeOK
BY DiffInvariant, PTL DEF IdeSpec

-------------------------------------------------------------------------------
(* IdeContext *)

\* The companion's list has its type, and where a file is active, one is open.
PlacedFile ==
    /\ openFiles \in [files: Seq(FilePaths), place: Places \cup {NoPlace}]
    /\ Len(openFiles.files) <= MAX_FILES
    /\ openFiles.place # NoPlace => openFiles.files # <<>>

ContextInv == ContextTypeOK /\ PlacedFile /\ ContextTold

\* Told the changes from what it knows, the model knows what is.
LEMMA ChangesTell ==
  ASSUME NEW last, NEW now,
         now = [open |-> now.open, active |-> now.active, place |-> now.place]
  PROVE  withChanges(last, last, now) = now
<1>1. (last.open \cup (now.open \ last.open)) \ (last.open \ now.open) = now.open
  OBVIOUS
<1> QED BY <1>1 DEF withChanges

LEMMA EmptyStored ==
  ASSUME PlacedFile, Stored.open = {}
  PROVE  Stored = Nothing
<1>1. ToSet(openFiles.files) = {}
  BY DEF Stored
<1>2. 1 \notin DOMAIN openFiles.files
  BY <1>1 DEF ToSet
<1>3. openFiles.files = <<>>
  BY <1>2 DEF PlacedFile
<1>4. openFiles.place = NoPlace
  BY <1>3 DEF PlacedFile
<1> QED BY <1>1, <1>4 DEF Stored, Nothing

LEMMA TellingTells ==
  ASSUME ContextInv, TellContext
  PROVE  ContextTold'
<1> DEFINE now == ideContextState
<1>1. lastSentIdeContext' = now /\ (forceFullIdeContext' = FALSE)
  BY DEF TellContext
<1>2. CASE now = NoContext
  BY <1>1, <1>2 DEF ContextTold
<1>3. CASE now # NoContext
  <2>1. now = Stored
    BY <1>3 DEF ideContextState
  <2>2. CASE FullContextDue /\ now.open = {}
    <3>1. told' = told /\ misled' = (misled \/ told # Nothing)
      BY <1>3, <2>2 DEF TellContext
    <3>2. now = Nothing
      BY <2>1, <2>2, EmptyStored DEF ContextInv
    <3> QED BY <1>1, <3>1, <3>2 DEF ContextTold
  <2>3. CASE FullContextDue /\ now.open # {}
    <3>1. told' = now
      BY <1>3, <2>3 DEF TellContext
    <3> QED BY <1>1, <3>1 DEF ContextTold
  <2>4. CASE ~FullContextDue
    <3>1. told' = withChanges(told, lastSentIdeContext, now) /\ misled' = misled
      BY <1>3, <2>4 DEF TellContext
    <3>2. told = lastSentIdeContext \/ misled
      BY <2>4 DEF ContextInv, ContextTold, FullContextDue
    <3>3. now = [open |-> now.open, active |-> now.active, place |-> now.place]
      BY <2>1 DEF Stored
    <3>4. withChanges(lastSentIdeContext, lastSentIdeContext, now) = now
      BY <3>3, ChangesTell
    <3> QED BY <1>1, <3>1, <3>2, <3>4 DEF ContextTold
  <2> QED BY <2>2, <2>3, <2>4
<1> QED BY <1>2, <1>3

LEMMA RemovalKeeps ==
  ASSUME NEW s \in Seq(FilePaths), NEW i \in DOMAIN s
  PROVE  /\ RemoveAt(s, i) \in Seq(FilePaths)
         /\ Len(RemoveAt(s, i)) = Len(s) - 1
<1> DEFINE head == SubSeq(s, 1, i - 1)
           tail == SubSeq(s, i + 1, Len(s))
<1>1. i \in 1 .. Len(s) /\ Len(s) \in Nat
  OBVIOUS
<1>2. head \in Seq(FilePaths) /\ Len(head) = i - 1
  BY <1>1
<1>3. tail \in Seq(FilePaths) /\ Len(tail) = Len(s) - i
  BY <1>1
<1>4. head \o tail \in Seq(FilePaths) /\ Len(head \o tail) = Len(head) + Len(tail)
  BY <1>2, <1>3
<1>5. RemoveAt(s, i) = head \o tail
  BY DEF RemoveAt
<1> HIDE DEF head, tail
<1> QED BY <1>1, <1>2, <1>3, <1>4, <1>5

LEMMA StoredIsView ==
  ASSUME PlacedFile
  PROVE  Stored \in View
<1>1. ToSet(openFiles.files) \in SUBSET FilePaths
  BY DEF PlacedFile, ToSet
<1>2. openFiles.place # NoPlace => openFiles.files[1] \in FilePaths
  BY DEF PlacedFile
<1>3. openFiles.place \in Places \cup {NoPlace}
  BY DEF PlacedFile
<1> QED BY <1>1, <1>2, <1>3 DEF Stored, View

LEMMA TellingKeepsType ==
  ASSUME ContextInv, TellContext
  PROVE  ContextTypeOK'
<1> DEFINE now == ideContextState
<1>1. now \in View \cup {NoContext}
  BY StoredIsView DEF ContextInv, ideContextState
<1>2. CASE now = NoContext \/ (FullContextDue /\ now.open = {})
  BY <1>1, <1>2 DEF TellContext, ContextInv, ContextTypeOK
<1>3. CASE now # NoContext /\ now.open # {} /\ FullContextDue
  BY <1>1, <1>3 DEF TellContext, ContextInv, ContextTypeOK
<1>4. CASE now # NoContext /\ ~FullContextDue
  <2>1. now \in View /\ told \in View /\ lastSentIdeContext \in View
    BY <1>1, <1>4 DEF ContextInv, ContextTypeOK, FullContextDue
  <2>2. withChanges(told, lastSentIdeContext, now) \in View
    BY <2>1 DEF withChanges, View
  <2>3. told' = withChanges(told, lastSentIdeContext, now) /\ misled' = misled
    BY <1>4 DEF TellContext
  <2> QED BY <2>1, <2>2, <2>3 DEF TellContext, ContextInv, ContextTypeOK
<1> QED BY <1>2, <1>3, <1>4

LEMMA EditorKeepsPlaces ==
  ASSUME PlacedFile, NEW p \in FilePaths,
         \/ \E place \in Places : ActivateFile(p, place)
         \/ RemoveFile(p)
         \/ \E new \in FilePaths : RenameFile(p, new)
  PROVE  PlacedFile'
<1> DEFINE old == openFiles.files
<1>1. /\ old \in Seq(FilePaths) /\ Len(old) \in Nat /\ Len(old) <= MAX_FILES
      /\ MAX_FILES \in Nat \ {0} /\ openFiles.place \in Places \cup {NoPlace}
  BY ContextAssumption DEF PlacedFile
<1>2. \A i \in FirstAt(p) : i \in DOMAIN old
  BY DEF FirstAt
<1>3. ASSUME NEW place \in Places, ActivateFile(p, place) PROVE PlacedFile'
  <2>1. PICK others \in IF FirstAt(p) = {} THEN {old} ELSE {RemoveAt(old, i) : i \in FirstAt(p)} :
          LET files == <<p>> \o others
          IN  EditorChanges(IF Len(files) > MAX_FILES THEN Front(files) ELSE files, place)
    BY <1>3 DEF ActivateFile
  <2> DEFINE files == <<p>> \o others
  <2>2. others \in Seq(FilePaths) /\ Len(others) <= Len(old)
    BY <1>1, <1>2, RemovalKeeps
  <2>3. files \in Seq(FilePaths) /\ Len(files) = Len(others) + 1 /\ Len(others) \in Nat
    BY <2>2
  <2>4. CASE Len(files) > MAX_FILES
    <3>1. Front(files) \in Seq(FilePaths) /\ Len(Front(files)) = Len(files) - 1
      BY <2>3 DEF Front
    <3>2. openFiles' = [files |-> Front(files), place |-> place]
      BY <2>1, <2>4 DEF EditorChanges
    <3>3. Len(files) - 1 >= 1 /\ Len(files) - 1 <= MAX_FILES
      BY <1>1, <2>2, <2>3, <2>4
    <3>4. Front(files) # <<>>
      BY <3>1, <3>3
    <3> HIDE DEF files
    <3> QED BY <3>1, <3>2, <3>3, <3>4 DEF PlacedFile
  <2>5. CASE ~(Len(files) > MAX_FILES)
    <3>1. openFiles' = [files |-> files, place |-> place]
      BY <2>1, <2>5 DEF EditorChanges
    <3>2. files # <<>> /\ Len(files) <= MAX_FILES
      BY <1>1, <2>3, <2>5
    <3> HIDE DEF files
    <3> QED BY <2>3, <3>1, <3>2 DEF PlacedFile
  <2> QED BY <2>4, <2>5
<1>4. CASE RemoveFile(p)
  <2>1. PICK i \in FirstAt(p) :
          EditorChanges(RemoveAt(old, i), IF i = 1 THEN NoPlace ELSE openFiles.place)
    BY <1>4 DEF RemoveFile
  <2>2. openFiles' = [files |-> RemoveAt(old, i),
                      place |-> IF i = 1 THEN NoPlace ELSE openFiles.place]
    BY <2>1 DEF EditorChanges
  <2>3. i \in 1 .. Len(old)
    BY <1>1, <1>2
  <2>4. RemoveAt(old, i) \in Seq(FilePaths) /\ Len(RemoveAt(old, i)) = Len(old) - 1
    BY <1>1, <1>2, RemovalKeeps
  <2>5. i # 1 => RemoveAt(old, i) # <<>>
    BY <1>1, <2>3, <2>4
  <2>6. Len(RemoveAt(old, i)) <= MAX_FILES
    BY <1>1, <2>4
  <2> QED BY <1>1, <2>2, <2>4, <2>5, <2>6 DEF PlacedFile
<1>5. ASSUME NEW new \in FilePaths, RenameFile(p, new) PROVE PlacedFile'
  <2>1. PICK i \in FirstAt(p) : EditorChanges([old EXCEPT ![i] = new], openFiles.place)
    BY <1>5 DEF RenameFile
  <2>2. openFiles' = [files |-> [old EXCEPT ![i] = new], place |-> openFiles.place]
    BY <2>1 DEF EditorChanges
  <2>3. [old EXCEPT ![i] = new] \in Seq(FilePaths) /\ Len([old EXCEPT ![i] = new]) = Len(old)
    BY <1>1, <1>2
  <2>4. old # <<>> => [old EXCEPT ![i] = new] # <<>>
    BY <1>1, <2>3
  <2> QED BY <1>1, <2>2, <2>3, <2>4 DEF PlacedFile
<1> QED BY <1>3, <1>4, <1>5

LEMMA ContextInitial == ContextInit => ContextInv
<1> SUFFICES ASSUME ContextInit PROVE ContextInv
  OBVIOUS
<1>1. <<>> \in Seq(FilePaths) /\ Len(<<>>) = 0
  OBVIOUS
<1>2. PlacedFile
  BY <1>1, ContextAssumption DEF ContextInit, NoFiles, PlacedFile
<1> QED
  BY <1>2 DEF ContextInit, ContextInv, PlacedFile, ContextTypeOK, ContextTold, View, Nothing

\* The steps that leave the client alone keep what it was told.
LEMMA EditorStepKeeps ==
  ASSUME ContextInv, PlacedFile', UNCHANGED <<connected, clientVars>>
  PROVE  ContextInv'
BY DEF ContextInv, PlacedFile, ContextTypeOK, ContextTold, clientVars

LEMMA ContextStepKeeps == ContextInv /\ [ContextNext]_contextVars => ContextInv'
<1> SUFFICES ASSUME ContextInv, [ContextNext]_contextVars PROVE ContextInv'
  OBVIOUS
<1>1. ASSUME NEW p \in FilePaths,
             \/ \E place \in Places : ActivateFile(p, place)
             \/ RemoveFile(p)
             \/ \E new \in FilePaths : RenameFile(p, new)
      PROVE  ContextInv'
  <2>1. PlacedFile'
    BY <1>1, EditorKeepsPlaces DEF ContextInv
  <2>2. UNCHANGED <<connected, clientVars>>
    BY <1>1 DEF ActivateFile, RemoveFile, RenameFile, EditorChanges
  <2> QED BY <2>1, <2>2, EditorStepKeeps
<1>2. ASSUME NEW place \in Places, MoveCursor(place)
      PROVE  ContextInv'
  <2>1. PlacedFile'
    BY <1>2 DEF MoveCursor, EditorChanges, ContextInv, PlacedFile
  <2>2. UNCHANGED <<connected, clientVars>>
    BY <1>2 DEF MoveCursor, EditorChanges
  <2> QED BY <2>1, <2>2, EditorStepKeeps
<1>3. CASE ConnectionChanges
  BY <1>3 DEF ConnectionChanges, ContextInv, PlacedFile, ContextTypeOK, ContextTold, clientVars
<1>4. CASE TellContext
  <2>1. ContextTold' /\ ContextTypeOK'
    BY <1>4, TellingTells, TellingKeepsType
  <2> QED BY <1>4, <2>1 DEF TellContext, ContextInv, PlacedFile
<1>5. ASSUME NEW kept \in BOOLEAN, SetHistory(kept) \/ ChatStarted(kept)
      PROVE  ContextInv'
  <2>1. Nothing \in View
    BY DEF Nothing, View
  <2> QED
    BY <1>5, <2>1 DEF SetHistory, ChatStarted, ContextInv, PlacedFile, ContextTypeOK, ContextTold
<1>6. ASSUME NEW caller \in {"reset", "compress"}, StartChat(caller)
      PROVE  ContextInv'
  BY <1>6 DEF StartChat, ContextInv, PlacedFile, ContextTypeOK, ContextTold
<1>7. CASE UNCHANGED contextVars
  BY <1>7 DEF contextVars, clientVars, ContextInv, PlacedFile, ContextTypeOK, ContextTold
<1> QED
  BY <1>1, <1>2, <1>3, <1>4, <1>5, <1>6, <1>7 DEF ContextNext

\* The state of companion and client stays well formed, for any files, places
\* and length of the companion's list.
THEOREM ContextTypeCorrect == ContextSpec => []ContextTypeOK
<1>1. ContextInv => ContextTypeOK
  BY DEF ContextInv
<1> QED BY <1>1, ContextInitial, ContextStepKeeps, PTL DEF ContextSpec

\* For any files, places and history edits, what the messages of the history
\* say of the editor is what the last turn read, but for the two cases the
\* property names (client.ts:345, :391, :588).
THEOREM ContextIsTold == ContextSpec => []ContextTold
<1>1. ContextInv => ContextTold
  BY DEF ContextInv
<1> QED BY <1>1, ContextInitial, ContextStepKeeps, PTL DEF ContextSpec

------------------------------------------------------------------------------
(***************************************************************************)
(* The tools of an MCP server, for any number of overlapping discoveries.  *)
(***************************************************************************)

\* A client has not been notified of more changes than there were.
NotesCounted == \A c \in Discoveries : mcpClient[c].notes <= toolsVersion - 1

Running(d) == discovery[d].at \notin {"new", "done", "settled"}

\* The discoveries that still run are under the promise that was chained last.
Chained ==
    /\ \A d \in Discoveries : Running(d) =>
           /\ discoveryPromise # 0
           /\ d \in {discoveryPromise} \cup discovery[discoveryPromise].before
    /\ discoveryState = "completed" => discoveryPromise = 0

MInv == McpTypeOK /\ NotesCounted /\ Chained

DiscoveryRecord == [
    at: {"new", "closing", "connects", "lists", "resources", "done", "settled"},
    client: Discoveries \cup {0}, read: SUBSET Versions, before: SUBSET Discoveries]

ClientRecord == [
    status: {"disconnected", "connecting", "connected", "disconnecting"},
    refresh: {"idle", "listing", "listed", "updating"},
    pending: BOOLEAN, read: SUBSET Versions, notes: 0 .. MaxToolChanges]

-------------------------------------------------------------------------------

LEMMA McpInitial == ASSUME McpInit PROVE MInv
<1>1. McpTypeOK
  <2>1. 1 \in Versions /\ 0 \in 0 .. MaxToolChanges
    BY McpAssumption DEF Versions
  <2>2. discovery \in [Discoveries -> DiscoveryRecord]
    BY DEF McpInit, DiscoveryRecord
  <2>3. mcpClient \in [Discoveries -> ClientRecord]
    BY <2>1 DEF McpInit, ClientRecord
  <2>4. /\ mcpClients = 0 /\ discoveryPromise = 0 /\ discoveryState = "not_started"
        /\ mcpTools = {} /\ toolsVersion = 1 /\ mcpDisturbed = FALSE
    BY DEF McpInit
  <2> QED BY <2>1, <2>2, <2>3, <2>4 DEF McpTypeOK, DiscoveryRecord, ClientRecord
<1>2. NotesCounted /\ Chained
  BY DEF McpInit, NotesCounted, Chained, Running
<1> QED BY <1>1, <1>2 DEF MInv

\* A client's record may change in any way that stays in its type and adds no
\* notification, and the discoveries' as long as none starts to run.
LEMMA McpFrame ==
  ASSUME MInv,
         mcpClient' \in [Discoveries -> ClientRecord],
         \A c \in Discoveries : mcpClient'[c].notes <= mcpClient[c].notes,
         discovery' \in [Discoveries -> DiscoveryRecord],
         \A d \in Discoveries :
             /\ discovery'[d].at \notin {"new", "done", "settled"} => Running(d)
             /\ discovery'[d].before = discovery[d].before,
         mcpClients' \in Discoveries \cup {0},
         mcpTools' \subseteq Versions, mcpDisturbed' \in BOOLEAN,
         discoveryPromise' = discoveryPromise, discoveryState' = discoveryState,
         toolsVersion' = toolsVersion
  PROVE  MInv'
<1> USE DEF MInv, promiseVars
<1>1. McpTypeOK'
  BY DEF McpTypeOK, Versions, DiscoveryRecord, ClientRecord
<1>2. NotesCounted'
  <2> SUFFICES ASSUME NEW c \in Discoveries PROVE mcpClient'[c].notes <= toolsVersion - 1
    BY DEF NotesCounted
  <2>1. mcpClient'[c].notes \in Int /\ mcpClient[c].notes \in Int /\ toolsVersion \in Int
    BY McpAssumption DEF McpTypeOK, ClientRecord, Versions
  <2> QED BY <2>1 DEF NotesCounted
<1>3. Chained'
  <2>1. discoveryPromise \in Discoveries \cup {0}
    BY DEF McpTypeOK
  <2> QED BY <2>1 DEF Chained, Running
<1> QED BY <1>1, <1>2, <1>3

\* A discovery that is called is chained to those before it.
LEMMA McpCalled ==
  ASSUME MInv, NEW d \in Discoveries, called(d), chained(d),
         mcpClient' \in [Discoveries -> ClientRecord],
         \A c \in Discoveries : mcpClient'[c].notes <= mcpClient[c].notes,
         discovery' \in [Discoveries -> DiscoveryRecord],
         discovery'[d].before = before,
         \A e \in Discoveries \ {d} : discovery'[e] = discovery[e],
         mcpClients' \in Discoveries \cup {0},
         mcpTools' \subseteq Versions, UNCHANGED <<toolsVersion, mcpDisturbed>>
  PROVE  MInv'
<1> USE DEF MInv
<1>1. McpTypeOK'
  BY DEF McpTypeOK, Versions, DiscoveryRecord, ClientRecord, chained
<1>2. NotesCounted'
  <2> SUFFICES ASSUME NEW c \in Discoveries PROVE mcpClient'[c].notes <= toolsVersion - 1
    BY DEF NotesCounted
  <2>1. mcpClient'[c].notes \in Int /\ mcpClient[c].notes \in Int /\ toolsVersion \in Int
    BY McpAssumption DEF McpTypeOK, ClientRecord, Versions
  <2> QED BY <2>1 DEF NotesCounted
<1>3. Chained'
  <2>1. d # 0
    BY McpAssumption
  <2>2. ASSUME NEW e \in Discoveries, Running(e)' PROVE e \in {d} \cup before
    <3>1. CASE e = d
      BY <3>1
    <3>2. CASE e # d
      <4>1. Running(e)
        BY <2>2, <3>2 DEF Running
      <4> QED BY <4>1 DEF Chained, before
    <3> QED BY <3>1, <3>2
  <2> QED BY <2>1, <2>2 DEF Chained, chained
<1> QED BY <1>1, <1>2, <1>3

\* The steps that only move one discovery forward.
LEMMA DiscoveryMoves ==
  ASSUME MInv, NEW d \in Discoveries,
         Connected(d) \/ ConnectFails(d) \/ DiscoverRegisters(d) \/ DiscoverFails(d)
           \/ \E fails \in BOOLEAN : DiscoverTools(d, fails)
  PROVE  MInv'
<1> USE DEF MInv
<1>0. /\ discovery \in [Discoveries -> DiscoveryRecord]
      /\ mcpClient \in [Discoveries -> ClientRecord]
      /\ mcpClients \in Discoveries \cup {0} /\ mcpTools \subseteq Versions
      /\ toolsVersion \in Versions /\ mcpDisturbed \in BOOLEAN
  BY DEF McpTypeOK, DiscoveryRecord, ClientRecord
<1>1. CASE Connected(d) \/ ConnectFails(d)
  <2>1. discovery[d].at = "connects"
    BY <1>1 DEF Connected, ConnectFails
  <2>2. PICK at \in {"lists", "done"} : discovery' = [discovery EXCEPT ![d].at = at]
    BY <1>1 DEF Connected, ConnectFails
  <2>3. PICK status \in {"connected", "disconnected"} :
          mcpClient' = [mcpClient EXCEPT ![discovery[d].client].status = status]
    BY <1>1 DEF Connected, ConnectFails
  <2>4. discovery' \in [Discoveries -> DiscoveryRecord]
    BY <1>0, <2>2 DEF DiscoveryRecord
  <2>5. \A e \in Discoveries :
          /\ discovery'[e].at \notin {"new", "done", "settled"} => Running(e)
          /\ discovery'[e].before = discovery[e].before
    BY <1>0, <2>1, <2>2 DEF Running, DiscoveryRecord
  <2>6. mcpClient' \in [Discoveries -> ClientRecord]
    BY ZenonT(30), <1>0, <2>3 DEF ClientRecord
  <2>7. \A c \in Discoveries : mcpClient'[c].notes <= mcpClient[c].notes
    BY <1>0, <2>3 DEF ClientRecord
  <2>8. /\ mcpClients' \in Discoveries \cup {0} /\ mcpTools' \subseteq Versions
        /\ mcpDisturbed' \in BOOLEAN /\ toolsVersion' = toolsVersion
        /\ discoveryPromise' = discoveryPromise /\ discoveryState' = discoveryState
    BY <1>0, <1>1 DEF Connected, ConnectFails, promiseVars
  <2> QED BY <1>0, <2>4, <2>5, <2>6, <2>7, <2>8, McpFrame, Zenon
<1>2. CASE DiscoverRegisters(d) \/ DiscoverFails(d) \/ \E fails \in BOOLEAN : DiscoverTools(d, fails)
  <2>1. Running(d)
    BY <1>2 DEF DiscoverRegisters, DiscoverFails, DiscoverTools, Running
  <2>2. PICK at \in {"resources", "done"}, read \in SUBSET Versions :
          discovery' = [discovery EXCEPT ![d].at = at, ![d].read = read]
    BY <1>0, <1>2 DEF DiscoverRegisters, DiscoverFails, DiscoverTools
  <2> DEFINE f == [discovery EXCEPT ![d].at = at]
  <2>3. /\ f \in [Discoveries -> DiscoveryRecord]
        /\ \A e \in Discoveries : /\ f[e].before = discovery[e].before
                                  /\ f[e].at = IF e = d THEN at ELSE discovery[e].at
    BY <1>0 DEF DiscoveryRecord
  <2>10. discovery' = [f EXCEPT ![d].read = read]
    BY <2>2
  <2> HIDE DEF f
  <2>4. discovery' \in [Discoveries -> DiscoveryRecord]
    BY <2>3, <2>10 DEF DiscoveryRecord
  <2>5. \A e \in Discoveries :
          /\ discovery'[e].at \notin {"new", "done", "settled"} => Running(e)
          /\ discovery'[e].before = discovery[e].before
    BY <2>1, <2>3, <2>10 DEF Running, DiscoveryRecord
  <2>6. mcpTools' \subseteq Versions
    BY <1>0, <1>2 DEF DiscoverRegisters, DiscoverFails, DiscoverTools, DiscoveryRecord
  <2>7. UNCHANGED <<mcpClients, promiseVars, mcpClient, toolsVersion, mcpDisturbed>>
    BY <1>2 DEF DiscoverRegisters, DiscoverFails, DiscoverTools
  <2>8. /\ mcpClient' \in [Discoveries -> ClientRecord] /\ mcpClients' \in Discoveries \cup {0}
        /\ mcpDisturbed' \in BOOLEAN /\ toolsVersion' = toolsVersion
        /\ discoveryPromise' = discoveryPromise /\ discoveryState' = discoveryState
    BY <1>0, <2>7 DEF promiseVars
  <2>9. \A c \in Discoveries : mcpClient'[c].notes <= mcpClient[c].notes
    BY <1>0, <2>7 DEF ClientRecord
  <2> QED BY <1>0, <2>4, <2>5, <2>6, <2>8, <2>9, McpFrame, Zenon
<1> QED BY <1>1, <1>2

\* A promise that is settled ends the chain if it is the last one.
LEMMA SettlesKeeps ==
  ASSUME MInv, NEW d \in Discoveries, DiscoverySettles(d)
  PROVE  MInv'
<1> USE DEF MInv
<1>0. /\ discovery \in [Discoveries -> DiscoveryRecord]
      /\ discoveryPromise \in Discoveries \cup {0}
  BY DEF McpTypeOK, DiscoveryRecord
<1>1. discovery' \in [Discoveries -> DiscoveryRecord]
  BY <1>0 DEF DiscoverySettles, DiscoveryRecord
<1>2. \A e \in Discoveries : /\ Running(e)' => Running(e)
                              /\ discovery'[e].before = discovery[e].before
  BY <1>0 DEF DiscoverySettles, DiscoveryRecord, Running
<1>3. McpTypeOK'
  BY <1>1 DEF McpTypeOK, DiscoverySettles, DiscoveryRecord, promiseVars, Versions
<1>4. NotesCounted'
  BY DEF NotesCounted, DiscoverySettles
<1>5. Chained'
  <2>1. CASE discoveryPromise = d
    <3>1. ASSUME NEW e \in Discoveries, Running(e)' PROVE FALSE
      <4>1. Running(e) /\ e \in {d} \cup discovery[d].before
        BY <1>2, <2>1, <3>1 DEF Chained
      <4> QED BY <4>1 DEF DiscoverySettles, promiseSettled, Running
    <3> QED BY <2>1, <3>1 DEF Chained, DiscoverySettles
  <2>2. CASE discoveryPromise # d
    BY <1>0, <1>2, <2>2 DEF Chained, DiscoverySettles, promiseVars
  <2> QED BY <2>1, <2>2
<1> QED BY <1>3, <1>4, <1>5

\* The count of a client's notifications, or its pending refresh, is set.
LEMMA ClientNotes ==
  ASSUME NEW f \in [Discoveries -> ClientRecord], NEW c \in Discoveries,
         NEW v \in 0 .. MaxToolChanges
  PROVE  LET g == [f EXCEPT ![c].notes = v] IN
         /\ g \in [Discoveries -> ClientRecord]
         /\ \A e \in Discoveries : g[e].notes = IF e = c THEN v ELSE f[e].notes
  BY DEF ClientRecord

LEMMA ClientPending ==
  ASSUME NEW f \in [Discoveries -> ClientRecord], NEW c \in Discoveries, NEW v \in BOOLEAN
  PROVE  LET g == [f EXCEPT ![c].pending = v] IN
         /\ g \in [Discoveries -> ClientRecord]
         /\ \A e \in Discoveries : g[e].notes = f[e].notes
  BY DEF ClientRecord

\* A client's step that leaves the discoveries, the promise and the server alone.
LEMMA ClientKeeps ==
  ASSUME MInv,
         mcpClient' \in [Discoveries -> ClientRecord],
         \A e \in Discoveries : mcpClient'[e].notes <= mcpClient[e].notes,
         mcpClients' \in Discoveries \cup {0},
         mcpTools' \subseteq Versions, mcpDisturbed' \in BOOLEAN,
         discovery' = discovery,
         discoveryPromise' = discoveryPromise, discoveryState' = discoveryState,
         toolsVersion' = toolsVersion
  PROVE  MInv'
<1>1. discovery' \in [Discoveries -> DiscoveryRecord]
  BY DEF MInv, McpTypeOK, DiscoveryRecord
<1>2. \A d \in Discoveries :
          /\ discovery'[d].at \notin {"new", "done", "settled"} => Running(d)
          /\ discovery'[d].before = discovery[d].before
  BY DEF Running
<1> QED BY <1>1, <1>2, McpFrame, Zenon

\* The steps of a client's refresh.
LEMMA RefreshMoves ==
  ASSUME MInv, NEW c \in Discoveries,
         RefreshNotified(c) \/ RefreshListed(c) \/ RefreshReplaces(c) \/ RefreshFails(c)
           \/ RefreshEnds(c)
  PROVE  MInv'
<1>0. /\ mcpClient \in [Discoveries -> ClientRecord]
      /\ mcpClients \in Discoveries \cup {0} /\ mcpTools \subseteq Versions
      /\ toolsVersion \in Versions /\ mcpDisturbed \in BOOLEAN
  BY DEF MInv, McpTypeOK, ClientRecord
<1>2. /\ mcpClients' \in Discoveries \cup {0} /\ mcpDisturbed' \in BOOLEAN
      /\ discovery' = discovery /\ toolsVersion' = toolsVersion
      /\ discoveryPromise' = discoveryPromise /\ discoveryState' = discoveryState
  BY <1>0 DEF RefreshNotified, RefreshListed, RefreshReplaces, RefreshFails, RefreshEnds,
     promiseVars
<1>3. mcpTools' \subseteq Versions
  BY <1>0 DEF RefreshNotified, RefreshListed, RefreshReplaces, RefreshFails, RefreshEnds,
     ClientRecord
<1>4. /\ mcpClient' \in [Discoveries -> ClientRecord]
      /\ \A e \in Discoveries : mcpClient'[e].notes <= mcpClient[e].notes
  <2>0. \A e \in Discoveries : mcpClient[e].notes \in Int
    BY <1>0, McpAssumption DEF ClientRecord
  <2>1. CASE RefreshNotified(c)
    <3> DEFINE n == mcpClient[c].notes - 1
               r == IF mcpClient[c].refresh = "idle" THEN "listing" ELSE mcpClient[c].refresh
               p == mcpClient[c].refresh # "idle"
               f == [mcpClient EXCEPT ![c].notes = n]
               g == [f EXCEPT ![c].refresh = r]
    <3>1. n \in 0 .. MaxToolChanges /\ n <= mcpClient[c].notes
      BY <1>0, <2>1, McpAssumption DEF RefreshNotified, ClientRecord
    <3>2. r \in {"idle", "listing", "listed", "updating"} /\ p \in BOOLEAN
      BY <1>0 DEF ClientRecord
    <3>3. mcpClient' = [g EXCEPT ![c].pending = p]
      BY <1>0, <2>1 DEF RefreshNotified, ClientRecord
    <3> HIDE DEF n, r, p
    <3>4. /\ f \in [Discoveries -> ClientRecord]
          /\ \A e \in Discoveries : f[e].notes <= mcpClient[e].notes
      BY <1>0, <2>0, <3>1 DEF ClientRecord
    <3> HIDE DEF f
    <3>5. /\ g \in [Discoveries -> ClientRecord]
          /\ \A e \in Discoveries : g[e].notes = f[e].notes
      BY <3>2, <3>4 DEF ClientRecord
    <3> HIDE DEF g
    <3>6. /\ mcpClient' \in [Discoveries -> ClientRecord]
          /\ \A e \in Discoveries : mcpClient'[e].notes = g[e].notes
      BY <3>2, <3>3, <3>5, ClientPending
    <3> QED BY <3>4, <3>5, <3>6
  <2>2. CASE RefreshListed(c) \/ RefreshReplaces(c)
    <3>1. PICK r \in {"listed", "updating"}, v \in SUBSET Versions :
            mcpClient' = [mcpClient EXCEPT ![c].refresh = r, ![c].read = v]
      BY <1>0, <2>2 DEF RefreshListed, RefreshReplaces
    <3> DEFINE f == [mcpClient EXCEPT ![c].refresh = r]
    <3>2. mcpClient' = [f EXCEPT ![c].read = v]
      BY <3>1
    <3>3. /\ f \in [Discoveries -> ClientRecord]
          /\ \A e \in Discoveries : f[e].notes = mcpClient[e].notes
      BY <1>0 DEF ClientRecord
    <3> HIDE DEF f
    <3>4. /\ mcpClient' \in [Discoveries -> ClientRecord]
          /\ \A e \in Discoveries : mcpClient'[e].notes = f[e].notes
      BY <3>2, <3>3 DEF ClientRecord
    <3> QED BY <2>0, <3>3, <3>4
  <2>3. CASE RefreshFails(c)
    <3>1. mcpClient' = [mcpClient EXCEPT ![c].refresh = "updating"]
      BY <2>3 DEF RefreshFails
    <3> QED BY <1>0, <2>0, <3>1 DEF ClientRecord
  <2>4. CASE RefreshEnds(c)
    <3>1. PICK r \in {"listing", "idle"} :
            mcpClient' = [mcpClient EXCEPT ![c].pending = FALSE, ![c].refresh = r]
      BY <2>4 DEF RefreshEnds
    <3> DEFINE f == [mcpClient EXCEPT ![c].pending = FALSE]
    <3>2. mcpClient' = [f EXCEPT ![c].refresh = r]
      BY <3>1
    <3>3. /\ f \in [Discoveries -> ClientRecord]
          /\ \A e \in Discoveries : f[e].notes = mcpClient[e].notes
      BY <1>0, ClientPending
    <3> HIDE DEF f
    <3>4. /\ mcpClient' \in [Discoveries -> ClientRecord]
          /\ \A e \in Discoveries : mcpClient'[e].notes = f[e].notes
      BY <3>2, <3>3 DEF ClientRecord
    <3> QED BY <2>0, <3>3, <3>4
  <2> QED BY <2>1, <2>2, <2>3, <2>4
<1> QED BY <1>2, <1>3, <1>4, ClientKeeps, Zenon

\* A connected client is lost or disconnected: its notifications go with it.
LEMMA ClientLost ==
  ASSUME MInv, NEW c \in Discoveries, NEW s \in {"disconnected", "disconnecting"},
         mcpClient' = [mcpClient EXCEPT ![c].status = s, ![c].notes = 0]
  PROVE  /\ mcpClient' \in [Discoveries -> ClientRecord]
         /\ \A e \in Discoveries : mcpClient'[e].notes <= mcpClient[e].notes
<1>0. mcpClient \in [Discoveries -> ClientRecord]
  BY DEF MInv, McpTypeOK, ClientRecord
<1>1. \A e \in Discoveries : mcpClient[e].notes \in Int /\ 0 <= mcpClient[e].notes
  BY <1>0, McpAssumption DEF ClientRecord
<1> DEFINE f == [mcpClient EXCEPT ![c].status = s]
           g == [f EXCEPT ![c].notes = 0]
<1>2. mcpClient' = g
  OBVIOUS
<1>3. /\ f \in [Discoveries -> ClientRecord]
      /\ \A e \in Discoveries : f[e].notes = mcpClient[e].notes
  BY <1>0 DEF ClientRecord
<1> HIDE DEF f
<1>4. 0 \in 0 .. MaxToolChanges
  BY McpAssumption
<1>5. /\ g \in [Discoveries -> ClientRecord]
      /\ \A e \in Discoveries : g[e].notes = IF e = c THEN 0 ELSE f[e].notes
  BY <1>3, <1>4, ClientNotes
<1> HIDE DEF g
<1>6. /\ mcpClient' \in [Discoveries -> ClientRecord]
      /\ \A e \in Discoveries : mcpClient'[e].notes = IF e = c THEN 0 ELSE f[e].notes
  BY <1>2, <1>5
<1>7. ASSUME NEW e \in Discoveries PROVE mcpClient'[e].notes <= mcpClient[e].notes
  <2>1. CASE e = c
    <3>1. mcpClient'[e].notes = 0
      BY <1>6, <2>1
    <3> QED BY <1>1, <3>1
  <2>2. CASE e # c
    <3>1. mcpClient'[e].notes = mcpClient[e].notes
      BY <1>3, <1>6, <2>2
    <3> QED BY <1>1, <3>1
  <2> QED BY <2>1, <2>2
<1> QED BY <1>6, <1>7

LEMMA DisconnectsKeeps ==
  ASSUME MInv, NEW c \in Discoveries, disconnects(c)
  PROVE  /\ mcpClient' \in [Discoveries -> ClientRecord]
         /\ \A e \in Discoveries : mcpClient'[e].notes <= mcpClient[e].notes
         /\ mcpTools' \subseteq Versions
<1>0. /\ mcpClient \in [Discoveries -> ClientRecord] /\ mcpTools \subseteq Versions
      /\ \A e \in Discoveries : mcpClient[e].notes \in Int
  BY McpAssumption DEF MInv, McpTypeOK, ClientRecord
<1>1. CASE mcpClient[c].status = "connected"
  <2>1. mcpClient' = [mcpClient EXCEPT ![c].status = "disconnecting", ![c].notes = 0]
    BY <1>1 DEF disconnects
  <2>2. /\ mcpClient' \in [Discoveries -> ClientRecord]
        /\ \A e \in Discoveries : mcpClient'[e].notes <= mcpClient[e].notes
    BY <2>1, ClientLost
  <2> QED BY <1>1, <2>2 DEF disconnects
<1>2. CASE mcpClient[c].status # "connected"
  BY <1>0, <1>2 DEF disconnects
<1> QED BY <1>1, <1>2

\* The connection is lost, or the extension is stopped.
LEMMA ConnectionEnds ==
  ASSUME MInv, (\E c \in Discoveries : ServerError(c)) \/ StopServer
  PROVE  MInv'
<1>0. /\ mcpClients \in Discoveries \cup {0} /\ mcpTools \subseteq Versions
  BY DEF MInv, McpTypeOK
<1>1. ASSUME NEW c \in Discoveries, ServerError(c) PROVE MInv'
  <2>1. /\ mcpClient' \in [Discoveries -> ClientRecord]
        /\ \A e \in Discoveries : mcpClient'[e].notes <= mcpClient[e].notes
    BY <1>1, ClientLost DEF ServerError
  <2>2. /\ mcpClients' \in Discoveries \cup {0} /\ mcpDisturbed' \in BOOLEAN
        /\ mcpTools' \subseteq Versions
        /\ discovery' = discovery /\ toolsVersion' = toolsVersion
        /\ discoveryPromise' = discoveryPromise /\ discoveryState' = discoveryState
    BY <1>0, <1>1 DEF ServerError, promiseVars
  <2> QED BY <2>1, <2>2, ClientKeeps, Zenon
<1>2. CASE StopServer
  <2>1. mcpClients \in Discoveries /\ disconnects(mcpClients)
    BY <1>0, <1>2 DEF StopServer
  <2>2. /\ mcpClient' \in [Discoveries -> ClientRecord]
        /\ \A e \in Discoveries : mcpClient'[e].notes <= mcpClient[e].notes
        /\ mcpTools' \subseteq Versions
    BY <2>1, DisconnectsKeeps
  <2>3. /\ mcpClients' \in Discoveries \cup {0} /\ mcpDisturbed' \in BOOLEAN
        /\ discovery' = discovery /\ toolsVersion' = toolsVersion
        /\ discoveryPromise' = discoveryPromise /\ discoveryState' = discoveryState
    BY <1>2 DEF StopServer, promiseVars
  <2> QED BY <2>2, <2>3, ClientKeeps, Zenon
<1> QED BY <1>1, <1>2

\* Whoever awaited the close goes on, or gives up.
LEMMA CloseEnds ==
  ASSUME MInv, NEW c \in Discoveries, Closed(c) \/ CloseFails(c)
  PROVE  MInv'
<1>0. /\ mcpClient \in [Discoveries -> ClientRecord]
      /\ discovery \in [Discoveries -> DiscoveryRecord]
      /\ mcpClients \in Discoveries \cup {0} /\ mcpTools \subseteq Versions
      /\ toolsVersion \in Versions /\ mcpDisturbed \in BOOLEAN
      /\ \A e \in Discoveries : mcpClient[e].notes \in Int
  BY McpAssumption DEF MInv, McpTypeOK, ClientRecord, DiscoveryRecord
<1>1. /\ mcpClients' \in Discoveries \cup {0} /\ mcpTools' \subseteq Versions
      /\ mcpDisturbed' \in BOOLEAN
      /\ discoveryPromise' = discoveryPromise /\ discoveryState' = discoveryState
      /\ toolsVersion' = toolsVersion
  BY <1>0 DEF Closed, CloseFails, promiseVars
<1>2. CASE Closed(c)
  <2>1. PICK s \in {"connecting", "disconnected"},
             r \in {"idle", "listing", "listed", "updating"} :
          mcpClient' = [mcpClient EXCEPT ![c].status = s, ![c].refresh = r, ![c].read = {}]
    BY <1>0, <1>2 DEF Closed, ClientRecord
  <2> DEFINE f == [mcpClient EXCEPT ![c].status = s]
             g == [f EXCEPT ![c].refresh = r]
  <2>2. mcpClient' = [g EXCEPT ![c].read = {}]
    BY <2>1
  <2>3. /\ f \in [Discoveries -> ClientRecord]
        /\ \A e \in Discoveries : f[e].notes = mcpClient[e].notes
    BY <1>0 DEF ClientRecord
  <2> HIDE DEF f
  <2>4. /\ g \in [Discoveries -> ClientRecord]
        /\ \A e \in Discoveries : g[e].notes = f[e].notes
    BY <2>3 DEF ClientRecord
  <2> HIDE DEF g
  <2>5. /\ mcpClient' \in [Discoveries -> ClientRecord]
        /\ \A e \in Discoveries : mcpClient'[e].notes = g[e].notes
    BY <2>2, <2>4 DEF ClientRecord
  <2>6. \A e \in Discoveries : mcpClient'[e].notes <= mcpClient[e].notes
    BY <1>0, <2>3, <2>4, <2>5
  <2>7. ASSUME NEW d \in Discoveries
        PROVE  /\ discovery'[d] \in DiscoveryRecord
               /\ discovery'[d].at \notin {"new", "done", "settled"} => Running(d)
               /\ discovery'[d].before = discovery[d].before
    <3>1. CASE discovery[d].client = c /\ discovery[d].at = "closing"
      <4>1. discovery'[d] = [discovery[d] EXCEPT !.at = "connects"]
        BY <1>2, <3>1 DEF Closed
      <4> QED BY <1>0, <3>1, <4>1 DEF DiscoveryRecord, Running
    <3>2. CASE discovery[d].client = c /\ discovery[d].at \in {"lists", "resources"}
      <4>1. discovery'[d] = [discovery[d] EXCEPT !.at = "done", !.read = {}]
        BY <1>2, <3>2 DEF Closed
      <4> DEFINE q == [discovery[d] EXCEPT !.at = "done"]
      <4>2. discovery'[d] = [q EXCEPT !.read = {}]
        BY <4>1
      <4>3. q \in DiscoveryRecord /\ q.before = discovery[d].before /\ q.at = "done"
        BY <1>0 DEF DiscoveryRecord
      <4> HIDE DEF q
      <4> QED BY <4>2, <4>3 DEF DiscoveryRecord
    <3>3. CASE ~(discovery[d].client = c /\ discovery[d].at \in {"closing", "lists", "resources"})
      <4>1. discovery'[d] = discovery[d]
        BY <1>2, <3>3 DEF Closed
      <4> QED BY <1>0, <4>1 DEF Running
    <3> QED BY <3>1, <3>2, <3>3
  <2>8. discovery' \in [Discoveries -> DiscoveryRecord]
    <3>1. discovery' = [d \in Discoveries |-> discovery'[d]]
      BY <1>2 DEF Closed
    <3> QED BY <2>7, <3>1
  <2>9. \A d \in Discoveries :
          /\ discovery'[d].at \notin {"new", "done", "settled"} => Running(d)
          /\ discovery'[d].before = discovery[d].before
    BY <2>7
  <2> QED BY <1>1, <2>5, <2>6, <2>8, <2>9, McpFrame, Zenon
<1>3. CASE CloseFails(c)
  <2>1. PICK d \in Discoveries :
          discovery[d].at = "closing" /\ discovery' = [discovery EXCEPT ![d].at = "done"]
    BY <1>3 DEF CloseFails
  <2>2. discovery' \in [Discoveries -> DiscoveryRecord]
    BY <1>0, <2>1 DEF DiscoveryRecord
  <2>3. \A e \in Discoveries :
          /\ discovery'[e].at \notin {"new", "done", "settled"} => Running(e)
          /\ discovery'[e].before = discovery[e].before
    BY <1>0, <2>1 DEF DiscoveryRecord, Running
  <2>4. /\ mcpClient' \in [Discoveries -> ClientRecord]
        /\ \A e \in Discoveries : mcpClient'[e].notes <= mcpClient[e].notes
    BY <1>0, <1>3 DEF CloseFails
  <2> QED BY <1>1, <2>2, <2>3, <2>4, McpFrame, Zenon
<1> QED BY <1>2, <1>3

\* The tools change: one notification more than before, of one change more.
LEMMA ToolsChangeKeeps ==
  ASSUME MInv, ToolsChange
  PROVE  MInv'
<1>0. /\ mcpClient \in [Discoveries -> ClientRecord]
      /\ toolsVersion \in Versions /\ toolsVersion < MaxToolChanges + 1
      /\ toolsVersion' = toolsVersion + 1 /\ mcpDisturbed' \in BOOLEAN
  BY DEF MInv, McpTypeOK, ClientRecord, ToolsChange
<1>1. toolsVersion' \in Versions
  BY <1>0, McpAssumption DEF Versions
<1>2. ASSUME NEW c \in Discoveries
      PROVE  mcpClient'[c] \in ClientRecord /\ mcpClient'[c].notes <= toolsVersion' - 1
  <2>1. /\ mcpClient[c].notes \in Int /\ mcpClient[c].notes >= 0
        /\ mcpClient[c].notes <= toolsVersion - 1 /\ toolsVersion \in Int
    BY <1>0, McpAssumption DEF MInv, NotesCounted, ClientRecord, Versions
  <2>2. CASE mcpClient[c].status = "connected"
    <3> DEFINE n == mcpClient[c].notes + 1
    <3>1. n \in 0 .. MaxToolChanges /\ n <= toolsVersion' - 1
      BY <1>0, <2>1, McpAssumption
    <3>2. mcpClient'[c] = [mcpClient[c] EXCEPT !.notes = n]
      BY <1>0, <2>2 DEF ToolsChange, ClientRecord
    <3> HIDE DEF n
    <3> QED BY <1>0, <3>1, <3>2 DEF ClientRecord
  <2>3. CASE mcpClient[c].status # "connected"
    <3>1. mcpClient'[c] = mcpClient[c]
      BY <2>3 DEF ToolsChange
    <3> QED BY <1>0, <2>1, <3>1
  <2> QED BY <2>2, <2>3
<1>3. mcpClient' \in [Discoveries -> ClientRecord]
  <2>1. mcpClient' = [c \in Discoveries |-> mcpClient'[c]]
    BY DEF ToolsChange
  <2> QED BY <1>2, <2>1
<1>4. UNCHANGED <<mcpClients, discovery, promiseVars, mcpTools>>
  BY DEF ToolsChange
<1>5. McpTypeOK'
  BY <1>0, <1>1, <1>3, <1>4 DEF MInv, McpTypeOK, ClientRecord, promiseVars, Versions
<1>6. NotesCounted' /\ Chained'
  BY <1>2, <1>4 DEF MInv, NotesCounted, Chained, Running, promiseVars
<1> QED BY <1>5, <1>6 DEF MInv

\* A call connects a new client, or the one that is there.
LEMMA CallKeeps ==
  ASSUME MInv, NEW d \in Discoveries, StartServer(d) \/ RestartServer(d)
  PROVE  MInv'
<1>0. /\ mcpClient \in [Discoveries -> ClientRecord]
      /\ discovery \in [Discoveries -> DiscoveryRecord]
      /\ mcpClients \in Discoveries \cup {0} /\ mcpTools \subseteq Versions
      /\ discoveryPromise \in Discoveries \cup {0}
      /\ \A e \in Discoveries : mcpClient[e].notes \in Int
  BY McpAssumption DEF MInv, McpTypeOK, ClientRecord, DiscoveryRecord
<1>1. before \subseteq Discoveries
  BY <1>0 DEF before, DiscoveryRecord
<1>2. called(d) /\ chained(d) /\ UNCHANGED <<toolsVersion, mcpDisturbed>>
  BY DEF StartServer, RestartServer
<1>3. PICK at \in {"closing", "connects", "done"}, c \in Discoveries :
        discovery' = [discovery EXCEPT ![d].client = c, ![d].before = before, ![d].at = at]
  <2>1. CASE StartServer(d)
    <3>1. discovery' = [discovery EXCEPT ![d].at = "connects", ![d].client = d,
                                         ![d].before = before]
      BY <2>1 DEF StartServer
    <3>2. discovery' = [discovery EXCEPT ![d].client = d, ![d].before = before,
                                         ![d].at = "connects"]
      BY <1>0, <3>1 DEF DiscoveryRecord
    <3> QED BY <3>2
  <2>2. CASE RestartServer(d)
    BY <1>0, <2>2 DEF RestartServer
  <2> QED BY <2>1, <2>2
<1> DEFINE f == [discovery EXCEPT ![d].client = c]
           g == [f EXCEPT ![d].before = before]
<1>4. discovery' = [g EXCEPT ![d].at = at]
  BY <1>3
<1>5. f \in [Discoveries -> DiscoveryRecord] /\ \A e \in Discoveries \ {d} : f[e] = discovery[e]
  BY <1>0 DEF DiscoveryRecord
<1> HIDE DEF f
<1>6. /\ g \in [Discoveries -> DiscoveryRecord] /\ g[d].before = before
      /\ \A e \in Discoveries \ {d} : g[e] = f[e]
  BY <1>1, <1>5 DEF DiscoveryRecord
<1> HIDE DEF g
<1>7. /\ discovery' \in [Discoveries -> DiscoveryRecord] /\ discovery'[d].before = before
      /\ \A e \in Discoveries \ {d} : discovery'[e] = g[e]
  BY <1>4, <1>6 DEF DiscoveryRecord
<1>8. \A e \in Discoveries \ {d} : discovery'[e] = discovery[e]
  BY <1>5, <1>6, <1>7
<1>9. /\ mcpClient' \in [Discoveries -> ClientRecord]
      /\ \A e \in Discoveries : mcpClient'[e].notes <= mcpClient[e].notes
      /\ mcpTools' \subseteq Versions /\ mcpClients' \in Discoveries \cup {0}
  <2>1. ASSUME NEW e \in Discoveries, mcpClient' = [mcpClient EXCEPT ![e].status = "connecting"]
        PROVE  /\ mcpClient' \in [Discoveries -> ClientRecord]
               /\ \A b \in Discoveries : mcpClient'[b].notes <= mcpClient[b].notes
    BY <1>0, <2>1 DEF ClientRecord
  <2>2. CASE StartServer(d)
    BY <1>0, <2>1, <2>2 DEF StartServer
  <2>3. CASE RestartServer(d)
    <3>1. mcpClients \in Discoveries /\ mcpClients' = mcpClients
      BY <1>0, <2>3 DEF RestartServer
    <3>2. CASE mcpClient[mcpClients].status = "connected"
      <4>1. disconnects(mcpClients)
        BY <2>3, <3>2 DEF RestartServer
      <4> QED BY <3>1, <4>1, DisconnectsKeeps
    <3>3. CASE mcpClient[mcpClients].status = "disconnected"
      <4>1. /\ mcpClient' = [mcpClient EXCEPT ![mcpClients].status = "connecting"]
            /\ mcpTools' = mcpTools
        BY <2>3, <3>3 DEF RestartServer
      <4> QED BY <1>0, <2>1, <3>1, <4>1
    <3>4. CASE mcpClient[mcpClients].status \notin {"connected", "disconnected"}
      <4>1. mcpClient' = mcpClient /\ mcpTools' = mcpTools
        BY <2>3, <3>4 DEF RestartServer
      <4> QED BY <1>0, <3>1, <4>1
    <3> QED BY <3>2, <3>3, <3>4
  <2> QED BY <2>2, <2>3
<1> QED BY <1>2, <1>7, <1>8, <1>9, McpCalled, Zenon

LEMMA McpStep == ASSUME MInv, [McpNext]_mcpVars PROVE MInv'
<1>1. CASE \E d \in Discoveries : StartServer(d) \/ RestartServer(d)
  BY <1>1, CallKeeps
<1>2. CASE \E d \in Discoveries : DiscoveryStep(d)
  BY <1>2, DiscoveryMoves, SettlesKeeps DEF DiscoveryStep
<1>3. CASE \E c \in Discoveries : McpClientStep(c)
  BY <1>3, CloseEnds, RefreshMoves DEF McpClientStep
<1>4. CASE (\E c \in Discoveries : ServerError(c)) \/ StopServer
  BY <1>4, ConnectionEnds
<1>5. CASE ToolsChange
  BY <1>5, ToolsChangeKeeps
<1>6. CASE UNCHANGED mcpVars
  <2>1. /\ mcpClients' = mcpClients /\ discovery' = discovery
        /\ discoveryPromise' = discoveryPromise /\ discoveryState' = discoveryState
        /\ mcpClient' = mcpClient /\ mcpTools' = mcpTools /\ toolsVersion' = toolsVersion
        /\ mcpDisturbed' = mcpDisturbed
    BY <1>6 DEF mcpVars
  <2> QED BY <2>1 DEF MInv, McpTypeOK, NotesCounted, Chained, Running, Versions
<1> QED BY <1>1, <1>2, <1>3, <1>4, <1>5, <1>6 DEF McpNext

-------------------------------------------------------------------------------

\* The manager, its clients and the registry stay in their type, for any number
\* of overlapping discoveries and of tool changes (mcp-client-manager.ts:139).
THEOREM McpTypeCorrect == McpSpec => []McpTypeOK
<1>1. McpInit => MInv
  BY McpInitial
<1>2. MInv /\ [McpNext]_mcpVars => MInv'
  BY McpStep
<1>3. MInv => McpTypeOK
  BY DEF MInv
<1> QED BY <1>1, <1>2, <1>3, PTL DEF McpSpec

\* The manager says that the discovery is completed only when no call of it
\* still runs: each promise is chained to all before it, and only the last one
\* completes the discovery (mcp-client-manager.ts:232, :248).
THEOREM DiscoveryCompletedWhenDone == McpSpec => []CompletedMeansDone
<1>1. McpInit => MInv
  BY McpInitial
<1>2. MInv /\ [McpNext]_mcpVars => MInv'
  BY McpStep
<1>3. MInv => CompletedMeansDone
  BY DEF MInv, Chained, Running, CompletedMeansDone
<1> QED BY <1>1, <1>2, <1>3, PTL DEF McpSpec

------------------------------------------------------------------------------
(***************************************************************************)
(* The prompt's text: each step moves the cursor or computes a new text    *)
(* from the lines, and either keeps it where the cursor has a character to *)
(* stand before.                                                           *)
(***************************************************************************)

ValidTexts == {t \in Texts : t.row <= Len(t.lines) /\ t.col <= t.lines[t.row]}

\* Steps back that are undone can be done again, so that both stacks share
\* the limit.
XInv ==
    /\ text \in ValidTexts
    /\ undoStack \in Seq(ValidTexts) /\ redoStack \in Seq(ValidTexts)
    /\ Len(undoStack) + Len(redoStack) <= HistoryLimit

\* Lines as they are, kept apart from what a sequence of numbers is.
Lines == Seq(Nat)

LEMMA LineFacts ==
  ASSUME NEW l \in Lines
  PROVE  /\ Len(l) \in Nat /\ \A i \in 1 .. Len(l) : l[i] \in Nat
         /\ l # <<>> => Len(l) >= 1
         /\ Len(l) >= 1 => l # <<>>
<1>1. Len(l) \in Nat /\ \A i \in 1 .. Len(l) : l[i] \in Nat
  BY LenProperties, ElementOfSeq DEF Lines
<1>2. l # <<>> => Len(l) \in Nat \ {0}
  BY EmptySeq DEF Lines
<1>3. l = <<>> => Len(l) = 0
  OBVIOUS
<1> QED BY <1>1, <1>2, <1>3

LEMMA OneLine ==
  ASSUME NEW x \in Nat
  PROVE  <<x>> \in Lines /\ Len(<<x>>) = 1 /\ <<x>>[1] = x /\ <<x>> # <<>>
BY DEF Lines

LEMMA TwoLines ==
  ASSUME NEW x \in Nat, NEW y \in Nat
  PROVE  /\ <<x, y>> \in Lines /\ Len(<<x, y>>) = 2 /\ <<x, y>>[1] = x /\ <<x, y>>[2] = y
         /\ <<x, y>> # <<>>
BY DEF Lines

LEMMA LinesJoined ==
  ASSUME NEW k \in Lines, NEW l \in Lines
  PROVE  /\ k \o l \in Lines /\ Len(k \o l) = Len(k) + Len(l)
         /\ \A i \in 1 .. Len(k) + Len(l) :
              (k \o l)[i] = IF i <= Len(k) THEN k[i] ELSE l[i - Len(k)]
BY ConcatProperties DEF Lines

LEMMA LinesFromTo ==
  ASSUME NEW l \in Lines, NEW m \in Nat \ {0}, NEW n \in m - 1 .. Len(l)
  PROVE  SubSeq(l, m, n) \in Lines /\ Len(SubSeq(l, m, n)) = n + 1 - m
<1>1. Len(l) \in Nat /\ \A i \in 1 .. Len(l) : l[i] \in Nat
  BY LineFacts
<1>2. m \in Int /\ n \in Int /\ \A i \in m .. n : l[i] \in Nat
  BY <1>1
<1>3. /\ SubSeq(l, m, n) \in Seq(Nat)
      /\ Len(SubSeq(l, m, n)) = IF m <= n THEN n - m + 1 ELSE 0
  BY <1>2, SubSeqProperties
<1>4. (IF m <= n THEN n - m + 1 ELSE 0) = n + 1 - m
  BY <1>1
<1> QED BY <1>3, <1>4 DEF Lines

Changed(l, i, n) == [l EXCEPT ![i] = n]

LEMMA LineChanged ==
  ASSUME NEW l \in Lines, NEW i \in 1 .. Len(l), NEW n \in Nat
  PROVE  Changed(l, i, n) \in Lines /\ Len(Changed(l, i, n)) = Len(l) /\ Changed(l, i, n)[i] = n
<1>1. ASSUME NEW S, l \in Seq(S), n \in S
      PROVE  /\ [l EXCEPT ![i] = n] \in Seq(S) /\ Len([l EXCEPT ![i] = n]) = Len(l)
             /\ [l EXCEPT ![i] = n][i] = n
  BY <1>1, ExceptSeq
<1> QED BY <1>1 DEF Lines, Changed

LEMMA ValidText ==
  ASSUME NEW lines \in Lines, NEW row \in 1 .. Len(lines), NEW col \in 0 .. lines[row]
  PROVE  textAt(lines, row, col) \in ValidTexts
<1>1. Len(lines) \in Nat /\ lines[row] \in Nat
  BY LineFacts
<1>2. lines \in Lines \ {<<>>} /\ row \in Nat \ {0} /\ col \in Nat
  BY <1>1, LineFacts
<1>3. textAt(lines, row, col) \in Texts
  BY <1>2 DEF textAt, Texts, Lines
<1> QED BY <1>1, <1>3 DEF textAt, ValidTexts

LEMMA TextParts ==
  ASSUME NEW t \in ValidTexts
  PROVE  /\ t.lines \in Lines
         /\ \A n : [t EXCEPT !.lines[t.row] = n] = textAt([t.lines EXCEPT ![t.row] = n], t.row, t.col)
<1>1. t = [lines |-> t.lines, row |-> t.row, col |-> t.col] /\ t.lines \in Lines
  BY DEF ValidTexts, Texts, Lines
<1>0. PICK l, r, c : t = [lines |-> l, row |-> r, col |-> c]
  BY <1>1
<1>3. ASSUME NEW n
      PROVE  [t EXCEPT !.lines[t.row] = n]
               = textAt([t.lines EXCEPT ![t.row] = n], t.row, t.col)
  <2>1. \A new : [t EXCEPT !.lines = new] = textAt(new, t.row, t.col)
    BY <1>0 DEF textAt
  <2> QED BY <2>1
<1> QED BY <1>1, <1>3

LEMMA TextLines ==
  ASSUME text \in ValidTexts
  PROVE  /\ text = textAt(text.lines, text.row, text.col)
         /\ text.lines \in Lines /\ rows \in Nat \ {0} /\ rows = Len(text.lines)
         /\ \A i \in 1 .. rows : text.lines[i] \in Nat
         /\ text.row \in 1 .. rows /\ lineLen \in Nat /\ lineLen = text.lines[text.row]
         /\ text.col \in 0 .. lineLen
<1>1. /\ text = textAt(text.lines, text.row, text.col)
      /\ text.lines \in Lines \ {<<>>} /\ text.row \in Nat \ {0} /\ text.col \in Nat
  BY DEF ValidTexts, Texts, textAt, Lines
<1>2. text.row <= Len(text.lines) /\ text.col <= text.lines[text.row]
  BY DEF ValidTexts
<1>3. PICK l \in Lines : l = text.lines /\ l # <<>>
  BY <1>1
<1>4. Len(l) \in Nat \ {0} /\ \A i \in 1 .. Len(l) : l[i] \in Nat
  BY <1>3, LineFacts
<1> QED BY <1>1, <1>2, <1>3, <1>4 DEF rows, lineLen

\* The lines before the range, the new ones, and those behind it.
LEMMA Spliced ==
  ASSUME NEW lines \in Lines, NEW from \in 1 .. Len(lines),
         NEW to \in from .. Len(lines), NEW with \in Lines
  PROVE  /\ splice(lines, from, to, with) \in Lines
         /\ Len(splice(lines, from, to, with)) = from - 1 + Len(with) + Len(lines) - to
         /\ \A i \in 1 .. Len(with) : splice(lines, from, to, with)[from - 1 + i] = with[i]
<1>1. Len(lines) \in Nat /\ Len(with) \in Nat /\ from \in Nat \ {0} /\ to \in Nat
  BY LineFacts
<1>2. PICK above \in Lines : above = SubSeq(lines, 1, from - 1) /\ Len(above) = from - 1
  <2>1. from - 1 \in 1 - 1 .. Len(lines) /\ 1 \in Nat \ {0} /\ (from - 1) + 1 - 1 = from - 1
    BY <1>1
  <2> QED BY <2>1, LinesFromTo
<1>3. PICK below \in Lines :
        below = SubSeq(lines, to + 1, Len(lines)) /\ Len(below) = Len(lines) - to
  <2>1. /\ to + 1 \in Nat \ {0} /\ Len(lines) \in (to + 1) - 1 .. Len(lines)
        /\ Len(lines) + 1 - (to + 1) = Len(lines) - to
    BY <1>1
  <2> QED BY <2>1, LinesFromTo
<1>4. splice(lines, from, to, with) = (above \o with) \o below
  BY <1>2, <1>3 DEF splice
<1>5. PICK start \in Lines :
        /\ start = above \o with /\ Len(start) = from - 1 + Len(with)
        /\ \A i \in 1 .. Len(with) : start[from - 1 + i] = with[i]
  <2>1. /\ above \o with \in Lines /\ Len(above \o with) = from - 1 + Len(with)
        /\ \A j \in 1 .. from - 1 + Len(with) :
             (above \o with)[j] = IF j <= from - 1 THEN above[j] ELSE with[j - (from - 1)]
    BY <1>2, LinesJoined
  <2>2. ASSUME NEW i \in 1 .. Len(with) PROVE (above \o with)[from - 1 + i] = with[i]
    <3>1. /\ from - 1 + i \in 1 .. from - 1 + Len(with) /\ ~(from - 1 + i <= from - 1)
          /\ from - 1 + i - (from - 1) = i
      BY <1>1
    <3> QED BY <2>1, <3>1
  <2> QED BY <2>1, <2>2
<1>6. /\ start \o below \in Lines /\ Len(start \o below) = Len(start) + Len(below)
      /\ \A j \in 1 .. Len(start) + Len(below) :
           (start \o below)[j] = IF j <= Len(start) THEN start[j] ELSE below[j - Len(start)]
  BY LinesJoined
<1>7. ASSUME NEW i \in 1 .. Len(with)
      PROVE  (start \o below)[from - 1 + i] = start[from - 1 + i]
  <2>1. from - 1 + i \in 1 .. Len(start) + Len(below) /\ from - 1 + i <= Len(start)
    <3>1. PICK m \in Nat : m = from - 1 /\ Len(start) = m + Len(with)
      BY <1>1, <1>5
    <3>2. i \in Nat /\ i >= 1 /\ i <= Len(with) /\ Len(below) \in Nat
      BY <1>1, LineFacts
    <3>3. m + i \in 1 .. (m + Len(with)) + Len(below) /\ m + i <= m + Len(with)
      BY <1>1, <3>2
    <3> QED BY <3>1, <3>3
  <2> QED BY <1>6, <2>1
<1>8. Len(start) + Len(below) = from - 1 + Len(with) + Len(lines) - to
  BY <1>1, <1>3, <1>5
<1> QED BY <1>4, <1>5, <1>6, <1>7, <1>8

LEMMA OffsetType ==
  ASSUME NEW lines \in Lines, NEW row \in 1 .. Len(lines)
  PROVE  offsetOf(lines, row) \in Nat
<1> DEFINE K == 1 .. row - 1
           T == {{i} \X (0 .. lines[i]) : i \in K}
           f == [i \in K |-> {i} \X (0 .. lines[i])]
<1>1. IsFiniteSet(K)
  BY FS_Interval
<1>2. f \in Surjection(K, T)
  BY DEF Surjection
<1>3. IsFiniteSet(T)
  BY <1>1, <1>2, FS_Surjection
<1>4. ASSUME NEW i \in K PROVE IsFiniteSet({i} \X (0 .. lines[i]))
  <2>1. i \in 1 .. Len(lines) /\ Len(lines) \in Nat
    BY LineFacts
  <2>2. 0 \in Int /\ lines[i] \in Int
    BY <2>1, LineFacts
  <2>3. IsFiniteSet(0 .. lines[i])
    BY <2>2, FS_Interval
  <2>4. IsFiniteSet({i})
    BY FS_Singleton
  <2> QED BY <2>3, <2>4, FS_Product
<1>5. IsFiniteSet(UNION T)
  BY <1>3, <1>4, FS_UNION
<1> QED BY <1>5, FS_CardinalityType DEF offsetOf

(* The operators that compute a new text *)

LEMMA SplicedText ==
  ASSUME NEW lines \in Lines, NEW from \in 1 .. Len(lines), NEW to \in from .. Len(lines),
         NEW with \in Lines, NEW n \in 1 .. Len(with), NEW col \in 0 .. with[n]
  PROVE  textAt(splice(lines, from, to, with), from - 1 + n, col) \in ValidTexts
<1>1. PICK l \in Lines :
        /\ l = splice(lines, from, to, with)
        /\ Len(l) = from - 1 + Len(with) + Len(lines) - to
        /\ \A i \in 1 .. Len(with) : l[from - 1 + i] = with[i]
  BY Spliced
<1>2. Len(lines) \in Nat /\ Len(with) \in Nat
  BY LineFacts
<1>3. PICK row \in Nat : row = from - 1 + n /\ row \in 1 .. Len(l)
  BY <1>1, <1>2
<1>4. l[row] = with[n]
  BY <1>1, <1>3
<1> QED BY <1>1, <1>3, <1>4, ValidText

\* The lines that take the place of the range: the parts, with what stays of
\* the first and the last line.
Replacement(from, rest, parts) ==
    LET last == Len(parts)
    IN  IF last = 1 THEN <<from + parts[1] + rest>>
        ELSE <<from + parts[1]>> \o SubSeq(parts, 2, last - 1) \o <<parts[last] + rest>>

LEMMA ReplacementType ==
  ASSUME NEW from \in Nat, NEW rest \in Nat, NEW parts \in Lines, parts # <<>>
  PROVE  /\ Replacement(from, rest, parts) \in Lines
         /\ Len(Replacement(from, rest, parts)) = Len(parts)
         /\ Replacement(from, rest, parts)[Len(parts)]
              = (IF Len(parts) = 1 THEN from ELSE 0) + parts[Len(parts)] + rest
<1>1. PICK n \in Nat : n = Len(parts) /\ n >= 1 /\ \A i \in 1 .. n : parts[i] \in Nat
  BY LineFacts
<1>2. CASE n = 1
  <2>1. PICK x \in Nat : x = from + parts[1] + rest
    BY <1>1, <1>2
  <2>2. Replacement(from, rest, parts) = <<x>>
    BY <1>1, <1>2, <2>1 DEF Replacement
  <2> QED BY <1>1, <1>2, <2>1, <2>2, OneLine
<1>3. CASE n # 1
  <2>1. parts[1] \in Nat /\ parts[n] \in Nat
    BY <1>1
  <2>2. PICK x \in Nat : x = from + parts[1]
    BY <2>1
  <2>3. PICK y \in Nat : y = parts[n] + rest /\ y = 0 + parts[n] + rest
    BY <2>1
  <2>4. PICK mid \in Lines : mid = SubSeq(parts, 2, n - 1) /\ Len(mid) = n - 2
    <3>1. 2 \in Nat \ {0} /\ n - 1 \in 2 - 1 .. n /\ (n - 1) + 1 - 2 = n - 2
      BY <1>1, <1>3
    <3> QED BY <1>1, <3>1, LinesFromTo
  <2>5. Replacement(from, rest, parts) = (<<x>> \o mid) \o <<y>>
    BY <1>1, <1>3, <2>2, <2>3, <2>4 DEF Replacement
  <2>6. PICK front \in Lines : front = <<x>> \o mid /\ Len(front) = n - 1
    <3>1. PICK one \in Lines : one = <<x>> /\ Len(one) = 1
      BY OneLine
    <3>2. one \o mid \in Lines /\ Len(one \o mid) = Len(one) + Len(mid)
      BY LinesJoined
    <3>3. Len(one) + Len(mid) = n - 1
      BY <1>1, <2>4, <3>1
    <3> QED BY <3>1, <3>2, <3>3
  <2>7. front \o <<y>> \in Lines /\ Len(front \o <<y>>) = n /\ (front \o <<y>>)[n] = y
    <3>1. PICK one \in Lines : one = <<y>> /\ Len(one) = 1 /\ one[1] = y
      BY OneLine
    <3>2. /\ front \o one \in Lines /\ Len(front \o one) = (n - 1) + 1
          /\ \A i \in 1 .. (n - 1) + 1 :
               (front \o one)[i] = IF i <= n - 1 THEN front[i] ELSE one[i - (n - 1)]
      <4>1. /\ front \o one \in Lines /\ Len(front \o one) = Len(front) + Len(one)
            /\ \A i \in 1 .. Len(front) + Len(one) :
                 (front \o one)[i] = IF i <= Len(front) THEN front[i] ELSE one[i - Len(front)]
        BY LinesJoined
      <4> QED BY <2>6, <3>1, <4>1
    <3>3. (n - 1) + 1 = n /\ n \in 1 .. (n - 1) + 1 /\ ~(n <= n - 1) /\ n - (n - 1) = 1
      BY <1>1
    <3> QED BY <3>1, <3>2, <3>3
  <2> QED BY <1>1, <1>3, <2>3, <2>5, <2>6, <2>7
<1> QED BY <1>2, <1>3

LEMMA Replaced ==
  ASSUME text \in ValidTexts, NEW sr \in Nat \ {0}, NEW sc \in Int, NEW er \in Nat \ {0},
         NEW ec \in Int, NEW parts \in Lines, parts # <<>>
  PROVE  /\ replaceRangeInternal(sr, sc, er, ec, parts) \in ValidTexts
         /\ sr <= rows => sr <= Len(replaceRangeInternal(sr, sc, er, ec, parts).lines)
<1>1. CASE invalidRange(sr, sc, er, ec)
  BY <1>1 DEF replaceRangeInternal, rows
<1>2. CASE ~invalidRange(sr, sc, er, ec)
  <2>1. PICK lines \in Lines, m \in Nat :
          /\ lines = text.lines /\ m = rows /\ m = Len(lines)
          /\ \A i \in 1 .. m : lines[i] \in Nat
    BY TextLines
  <2>2. sr <= er /\ sc >= 0 /\ er <= m
    BY <1>2, <2>1 DEF invalidRange
  <2>3. lines[sr] \in Nat /\ lines[er] \in Nat
    BY <2>1, <2>2
  <2>4. ec <= lines[er]
    BY <1>2, <2>1, <2>2, <2>3 DEF invalidRange
  <2>5. PICK from \in Nat : from = atMost(sc, lines[sr])
    BY <2>2, <2>3 DEF atMost
  <2>6. PICK rest \in Nat : rest = lines[er] - ec
    BY <2>3, <2>4
  <2>7. PICK n \in Nat : n = Len(parts) /\ n >= 1 /\ parts[n] \in Nat
    BY LineFacts
  <2>8. PICK with \in Lines :
          /\ with = Replacement(from, rest, parts) /\ Len(with) = n
          /\ with[n] = (IF n = 1 THEN from ELSE 0) + parts[n] + rest
    <3>1. parts # <<>>
      OBVIOUS
    <3>2. /\ Replacement(from, rest, parts) \in Lines
          /\ Len(Replacement(from, rest, parts)) = Len(parts)
          /\ Replacement(from, rest, parts)[Len(parts)]
               = (IF Len(parts) = 1 THEN from ELSE 0) + parts[Len(parts)] + rest
      BY <3>1, ReplacementType
    <3> QED BY <2>7, <3>2
  <2>9. PICK l \in Lines :
          /\ l = splice(lines, sr, er, with) /\ Len(l) = sr - 1 + n + m - er
          /\ l[sr - 1 + n] = with[n]
    <3>1. sr \in 1 .. Len(lines) /\ er \in sr .. Len(lines) /\ n \in 1 .. n
      BY <2>1, <2>2, <2>7
    <3>2. /\ splice(lines, sr, er, with) \in Lines
          /\ Len(splice(lines, sr, er, with)) = sr - 1 + Len(with) + Len(lines) - er
          /\ \A i \in 1 .. Len(with) : splice(lines, sr, er, with)[sr - 1 + i] = with[i]
      BY <3>1, Spliced
    <3> QED BY <2>1, <2>8, <3>1, <3>2
  <2>10. PICK row \in Nat : row = sr + n - 1 /\ row = sr - 1 + n
    BY <2>7
  <2>11. row \in 1 .. Len(l) /\ sr <= Len(l) /\ l[row] \in Nat
    <3>1. row \in 1 .. Len(l) /\ sr <= Len(l)
      BY <2>2, <2>7, <2>9, <2>10
    <3> QED BY <3>1, LineFacts
  <2>12. PICK col \in Nat : col = (IF n = 1 THEN from ELSE 0) + parts[n]
    BY <2>7
  <2>13. replaceRangeInternal(sr, sc, er, ec, parts) = textAt(l, row, atMost(col, l[row]))
    BY <1>2, <2>1, <2>5, <2>6, <2>7, <2>8, <2>9, <2>10, <2>12
       DEF replaceRangeInternal, Replacement
  <2>14. atMost(col, l[row]) \in 0 .. l[row]
    BY <2>11 DEF atMost
  <2>15. textAt(l, row, atMost(col, l[row])) \in ValidTexts
    BY <2>11, <2>14, ValidText
  <2> QED BY <2>11, <2>13, <2>15 DEF textAt
<1> QED BY <1>1, <1>2

\* The end of a range of lines is the least line that reaches it.
LEMMA RangeEnd ==
  ASSUME text \in ValidTexts, NEW row \in 1 .. rows, NEW count \in Nat \ {0}
  PROVE  lineRangeEnd(row, count).row \in Nat \ {0} /\ lineRangeEnd(row, count).col \in Int
<1> DEFINE last == atMost(row + count - 1, rows)
           withNewline(i) == text.lines[i] + (IF i < rows THEN 1 ELSE 0)
           end == offsetOf(text.lines, last) + withNewline(last)
           reach == {i \in 1 .. rows : offsetOf(text.lines, i) + withNewline(i) >= end}
           endRow == CHOOSE i \in reach : \A j \in reach : i <= j
<1>1. last \in 1 .. rows
  BY TextLines DEF atMost
<1>2. \A i \in 1 .. rows : offsetOf(text.lines, i) \in Nat /\ withNewline(i) \in Nat
  <2>1. PICK lines \in Lines : lines = text.lines /\ rows = Len(lines)
    BY TextLines
  <2>2. \A i \in 1 .. rows : offsetOf(lines, i) \in Nat
    BY <2>1, OffsetType
  <2> QED BY <2>1, <2>2, TextLines
<1>3. lineRangeEnd(row, count)
        = [row |-> endRow, col |-> end - offsetOf(text.lines, endRow)]
  BY DEF lineRangeEnd
<1> HIDE DEF withNewline
<1>4. end \in Nat
  BY <1>1, <1>2
<1>5. reach \in SUBSET Nat /\ last \in reach
  BY <1>1, <1>2, <1>4
<1>6. endRow \in reach
  <2>1. PICK K \in SUBSET Nat : K = reach /\ K # {}
    BY <1>5
  <2>2. \E i \in K : \A j \in K : i <= j
    BY <2>1, LeastElement
  <2> QED BY <2>1, <2>2
<1> HIDE DEF last, end
<1>7. endRow \in 1 .. rows
  BY <1>6
<1> HIDE DEF endRow, reach
<1> QED BY <1>2, <1>3, <1>4, <1>7

LEMMA LinesRemoved ==
  ASSUME text \in ValidTexts, NEW row \in 1 .. rows, NEW count \in Nat \ {0}
  PROVE  removedLines(row, count) \in ValidTexts /\ row <= Len(removedLines(row, count).lines)
<1>1. PICK er \in Nat \ {0}, ec \in Int :
        er = lineRangeEnd(row, count).row /\ ec = lineRangeEnd(row, count).col
  BY RangeEnd
<1>2. removedLines(row, count) = replaceRangeInternal(row, 0, er, ec, <<0>>)
  BY <1>1 DEF removedLines, removed
<1>3. row \in Nat \ {0} /\ row <= rows /\ 0 \in Int /\ <<0>> \in Lines /\ <<0>> # <<>>
  BY TextLines, OneLine
<1> QED BY <1>2, <1>3, Replaced

LEMMA RangeRemoved ==
  ASSUME text \in ValidTexts, NEW sr \in 1 .. rows, NEW sc \in Int, NEW er \in 1 .. rows,
         NEW ec \in Int
  PROVE  removed(sr, sc, er, ec) \in ValidTexts
<1>1. sr \in Nat \ {0} /\ er \in Nat \ {0} /\ <<0>> \in Lines /\ <<0>> # <<>>
  BY TextLines, OneLine
<1> QED BY <1>1, Replaced DEF removed

LEMMA EntryChanged ==
  ASSUME text \in ValidTexts, NEW n \in Nat, NEW col \in 0 .. n
  PROVE  textAt([text.lines EXCEPT ![text.row] = n], text.row, col) \in ValidTexts
<1>1. PICK lines \in Lines, row \in Nat :
        lines = text.lines /\ row = text.row /\ row \in 1 .. Len(lines)
  BY TextLines
<1>2. PICK l \in Lines : l = Changed(lines, row, n) /\ Len(l) = Len(lines) /\ l[row] = n
  BY <1>1, LineChanged
<1>3. textAt(l, row, col) \in ValidTexts
  BY <1>1, <1>2, ValidText
<1> QED BY <1>1, <1>2, <1>3 DEF Changed

LEMMA DeletedTo ==
  ASSUME text \in ValidTexts, NEW from \in 0 .. text.col
  PROVE  deletedTo(from) \in ValidTexts
<1>1. lineLen - (text.col - from) \in Nat /\ from \in 0 .. lineLen - (text.col - from)
  BY TextLines
<1>2. deletedTo(from)
        = textAt([text.lines EXCEPT ![text.row] = lineLen - (text.col - from)], text.row, from)
  BY DEF deletedTo, lineLen
<1> QED BY <1>1, <1>2, EntryChanged

LEMMA DeletedUpTo ==
  ASSUME text \in ValidTexts, NEW end \in text.col .. lineLen
  PROVE  deletedUpTo(end) \in ValidTexts
<1>1. lineLen - (end - text.col) \in Nat /\ text.col \in 0 .. lineLen - (end - text.col)
  BY TextLines
<1>2. deletedUpTo(end)
        = textAt([text.lines EXCEPT ![text.row] = lineLen - (end - text.col)],
                 text.row, text.col)
  BY TextParts DEF deletedUpTo, lineLen
<1> QED BY <1>1, <1>2, EntryChanged

LEMMA JoinedBefore ==
  ASSUME text \in ValidTexts, text.row > 1
  PROVE  joinedBefore \in ValidTexts
<1>1. PICK lines \in Lines, row \in Nat, m \in Nat, n \in Nat :
        /\ lines = text.lines /\ row = text.row /\ row > 1 /\ row \in 1 .. Len(lines)
        /\ m = lines[row - 1] /\ n = lineLen
  <2>1. text.row - 1 \in 1 .. rows /\ text.row \in 1 .. rows /\ text.row \in Nat
    BY TextLines
  <2>2. text.lines[text.row - 1] \in Nat
    BY <2>1, TextLines
  <2> QED BY <2>1, <2>2, TextLines
<1>2. PICK with \in Lines : with = <<m + n>> /\ Len(with) = 1 /\ with[1] = m + n
  <2>1. m + n \in Nat
    OBVIOUS
  <2> QED BY <2>1, OneLine
<1>3. /\ row - 1 \in 1 .. Len(lines) /\ row \in row - 1 .. Len(lines) /\ 1 \in 1 .. Len(with)
      /\ m \in 0 .. with[1] /\ (row - 1) - 1 + 1 = row - 1
  BY <1>1, <1>2, LineFacts
<1>4. textAt(splice(lines, row - 1, row, with), (row - 1) - 1 + 1, m) \in ValidTexts
  BY <1>3, SplicedText
<1> QED BY <1>1, <1>2, <1>3, <1>4 DEF joinedBefore

LEMMA JoinedNext ==
  ASSUME text \in ValidTexts, text.row < rows
  PROVE  joinedNext \in ValidTexts
<1>1. PICK lines \in Lines, row \in Nat, m \in Nat, n \in Nat :
        /\ lines = text.lines /\ row = text.row /\ row + 1 <= Len(lines)
        /\ row \in 1 .. Len(lines) /\ m = lineLen /\ n = lines[row + 1]
  <2>1. text.row + 1 \in 1 .. rows /\ text.row \in 1 .. rows /\ text.row \in Nat
    BY TextLines
  <2>2. text.lines[text.row + 1] \in Nat
    BY <2>1, TextLines
  <2> QED BY <2>1, <2>2, TextLines
<1>2. PICK with \in Lines : with = <<m + n>> /\ Len(with) = 1 /\ with[1] = m + n
  <2>1. m + n \in Nat
    OBVIOUS
  <2> QED BY <2>1, OneLine
<1>3. PICK next \in row .. Len(lines) : next = row + 1
  BY <1>1, LineFacts
<1>4. PICK col \in 0 .. with[1] : col = text.col
  <2>1. text.col \in 0 .. m
    BY <1>1, TextLines
  <2> QED BY <1>2, <2>1
<1>5. textAt(splice(lines, row, row + 1, with), row, col) \in ValidTexts
  <2>1. 1 \in 1 .. Len(with) /\ row - 1 + 1 = row /\ row \in 1 .. Len(lines)
    BY <1>1, <1>2
  <2>2. textAt(splice(lines, row, next, with), row - 1 + 1, col) \in ValidTexts
    BY <1>2, <2>1, SplicedText
  <2> QED BY <1>3, <2>1, <2>2
<1>6. joinedNext = textAt(splice(lines, row, row + 1, with), row, col)
  BY <1>1, <1>2, <1>4, TextLines DEF joinedNext, textAt
<1> QED BY <1>5, <1>6

(* The steps *)

\* Besides undo and redo, a step moves the cursor or edits behind a snapshot.
CursorMoves ==
    /\ text' \in ValidTexts /\ text'.lines = text.lines
    /\ UNCHANGED <<undoStack, redoStack>>
TextEdited == text' \in ValidTexts /\ pushUndo(text)

LEMMA Edits ==
  ASSUME NEW t, t \in ValidTexts, edit(t)
  PROVE  TextEdited
BY DEF edit, TextEdited

LEMMA Moves ==
  ASSUME text \in ValidTexts, NEW row \in 1 .. rows, NEW col \in 0 .. text.lines[row],
         moveTo(row, col)
  PROVE  CursorMoves
<1>1. PICK lines \in Lines : lines = text.lines /\ Len(lines) = rows
  BY TextLines
<1>2. textAt(lines, row, col) \in ValidTexts
  BY <1>1, ValidText
<1>3. text' = textAt(lines, row, col)
  BY <1>1, TextLines DEF moveTo, textAt
<1> QED BY <1>1, <1>2, <1>3 DEF CursorMoves, moveTo, textAt

LEMMA PartsTyped ==
  ASSUME NEW parts \in Parts
  PROVE  /\ parts \in Lines /\ parts # <<>> /\ Len(parts) \in 1 .. 2
         /\ Last(parts) = parts[Len(parts)]
         /\ textAt(parts, Len(parts), Last(parts)) \in ValidTexts
<1>1. /\ parts \in Lines /\ parts # <<>> /\ Len(parts) \in 1 .. 2
  <2>1. CASE \E n \in 0 .. MaxText : parts = <<n>>
    BY <2>1, OneLine, TextAssumption
  <2>2. CASE \E n, m \in 0 .. MaxText : parts = <<n, m>>
    BY <2>2, TwoLines, TextAssumption
  <2> QED BY <2>1, <2>2 DEF Parts
<1>2. Last(parts) = parts[Len(parts)]
  BY DEF Last
<1>3. parts[Len(parts)] \in Nat /\ Len(parts) \in 1 .. Len(parts)
  BY <1>1, LineFacts
<1>4. PICK n, col :
        n = Len(parts) /\ col = Last(parts) /\ n \in 1 .. Len(parts) /\ col \in 0 .. parts[n]
  BY <1>2, <1>3
<1>5. textAt(parts, n, col) \in ValidTexts
  BY <1>1, <1>4, ValidText
<1> QED BY <1>1, <1>2, <1>4, <1>5

LEMMA InsertEdits == ASSUME text \in ValidTexts, Insert PROVE TextEdited
<1>1. PICK parts \in Parts :
        LET with == IF Len(parts) = 1 THEN <<lineLen + parts[1]>>
                    ELSE <<text.col + parts[1], parts[2] + lineLen - text.col>>
            col == IF Len(parts) = 1 THEN text.col + parts[1] ELSE parts[2]
        IN  edit(textAt(splice(text.lines, text.row, text.row, with),
                        text.row + Len(parts) - 1, col))
  BY DEF Insert
<1>2. parts \in Lines /\ Len(parts) \in 1 .. 2
  BY PartsTyped
<1>3. PICK lines \in Lines, row \in Nat, m \in Nat, c \in Nat :
        /\ lines = text.lines /\ row = text.row /\ m = lineLen /\ c = text.col
        /\ row \in 1 .. Len(lines) /\ c <= m /\ row \in row .. Len(lines)
  BY TextLines
<1>4. CASE Len(parts) = 1
  <2>1. PICK n \in Nat : n = parts[1]
    BY <1>2, <1>4, LineFacts
  <2>2. PICK with \in Lines : with = <<m + n>> /\ Len(with) = 1 /\ with[1] = m + n
    <3>1. m + n \in Nat
      OBVIOUS
    <3> QED BY <3>1, OneLine
  <2>3. 1 \in 1 .. Len(with) /\ c + n \in 0 .. with[1] /\ row - 1 + 1 = row + 1 - 1
    BY <1>3, <2>2
  <2>4. textAt(splice(lines, row, row, with), row - 1 + 1, c + n) \in ValidTexts
    BY <1>3, <2>3, SplicedText
  <2>5. edit(textAt(splice(lines, row, row, with), row + 1 - 1, c + n))
    BY <1>1, <1>3, <1>4, <2>1, <2>2
  <2> QED BY <2>3, <2>4, <2>5, Edits
<1>5. CASE Len(parts) = 2
  <2>1. PICK n \in Nat, k \in Nat : n = parts[1] /\ k = parts[2]
    <3>1. 1 \in 1 .. Len(parts) /\ 2 \in 1 .. Len(parts)
      BY <1>5
    <3> QED BY <1>2, <3>1, LineFacts
  <2>2. PICK with \in Lines :
          with = <<c + n, k + m - c>> /\ Len(with) = 2 /\ with[2] = k + m - c
    <3>1. c + n \in Nat /\ k + m - c \in Nat
      <4>1. c \in Nat /\ m \in Nat /\ c <= m
        BY <1>3
      <4>2. n \in Nat /\ k \in Nat
        BY <2>1
      <4> QED BY <4>1, <4>2
    <3>2. /\ <<c + n, k + m - c>> \in Lines /\ Len(<<c + n, k + m - c>>) = 2
          /\ <<c + n, k + m - c>>[2] = k + m - c
      BY <3>1, TwoLines, ZenonT(30)
    <3> QED BY <3>2
  <2>3. 2 \in 1 .. Len(with) /\ k \in 0 .. with[2] /\ row - 1 + 2 = row + 2 - 1
    BY <1>3, <2>2
  <2>4. textAt(splice(lines, row, row, with), row - 1 + 2, k) \in ValidTexts
    BY <1>3, <2>3, SplicedText
  <2>5. edit(textAt(splice(lines, row, row, with), row + 2 - 1, k))
    BY <1>1, <1>3, <1>5, <2>1, <2>2
  <2> QED BY <2>3, <2>4, <2>5, Edits
<1> QED BY <1>2, <1>4, <1>5

LEMMA LineEdits ==
  ASSUME text \in ValidTexts,
         \/ SetText \/ ExternalEditor \/ Backspace \/ DeleteWordLeft \/ KillLineLeft
         \/ Delete \/ DeleteWordRight \/ KillLineRight
  PROVE  TextEdited
<1>1. CASE SetText
  BY <1>1, PartsTyped, Edits DEF SetText
<1>2. CASE ExternalEditor
  BY <1>2, PartsTyped DEF ExternalEditor, TextEdited
<1>3. ASSUME NEW from \in 0 .. text.col, edit(deletedTo(from)) PROVE TextEdited
  BY <1>3, DeletedTo, Edits
<1>4. ASSUME NEW end \in text.col .. lineLen, edit(deletedUpTo(end)) PROVE TextEdited
  BY <1>4, DeletedUpTo, Edits
<1>5. ASSUME text.row > 1, edit(joinedBefore) PROVE TextEdited
  BY <1>5, JoinedBefore, Edits
<1>6. ASSUME text.row < rows, edit(joinedNext) PROVE TextEdited
  BY <1>6, JoinedNext, Edits
<1>7. text.col \in Nat /\ lineLen \in Nat
  BY TextLines
<1>8. CASE Backspace
  <2>1. text.col > 0 => text.col - 1 \in 0 .. text.col
    BY <1>7
  <2> QED BY <1>3, <1>5, <1>8, <2>1 DEF Backspace
<1>9. CASE DeleteWordLeft
  <2>1. \A start \in 0 .. text.col - 1 : start \in 0 .. text.col
    BY <1>7
  <2> QED BY <1>3, <1>5, <1>9, <2>1 DEF DeleteWordLeft
<1>10. CASE KillLineLeft
  <2>1. 0 \in 0 .. text.col
    BY <1>7
  <2> QED BY <1>3, <1>10, <2>1 DEF KillLineLeft
<1>11. CASE Delete
  <2>1. text.col < lineLen => text.col + 1 \in text.col .. lineLen
    BY <1>7
  <2> QED BY <1>4, <1>6, <1>11, <2>1 DEF Delete
<1>12. CASE DeleteWordRight
  <2>1. \A end \in text.col + 1 .. lineLen : end \in text.col .. lineLen
    BY <1>7
  <2> QED BY <1>4, <1>6, <1>12, <2>1 DEF DeleteWordRight
<1>13. CASE KillLineRight
  <2>1. text.col < lineLen => lineLen \in text.col .. lineLen
    BY <1>7
  <2> QED BY <1>4, <1>6, <1>13, <2>1 DEF KillLineRight
<1> QED BY <1>1, <1>2, <1>8, <1>9, <1>10, <1>11, <1>12, <1>13

LEMMA RangeReplaced == ASSUME text \in ValidTexts, ReplaceRange PROVE TextEdited
<1>1. PICK sr \in 1 .. MaxText, er \in 1 .. MaxText, sc \in 0 .. MaxText,
           ec \in 0 .. MaxText, n \in 0 .. 1 :
        edit(replaceRangeInternal(sr, sc, er, ec, <<n>>))
  BY DEF ReplaceRange
<1>2. /\ sr \in Nat \ {0} /\ er \in Nat \ {0} /\ sc \in Int /\ ec \in Int /\ n \in Nat
  BY TextAssumption
<1>3. <<n>> \in Lines /\ <<n>> # <<>>
  BY <1>2, OneLine
<1>4. replaceRangeInternal(sr, sc, er, ec, <<n>>) \in ValidTexts
  BY <1>2, <1>3, Replaced
<1> QED BY <1>1, <1>4, Edits

\* Behind the last line deleted the cursor has a line to go to.
LEMMA LineDeleted ==
  ASSUME text \in ValidTexts, NEW count \in Nat \ {0}, VimDeleteLine(count)
  PROVE  TextEdited
<1>1. PICK lines \in Lines, row \in Nat \ {0}, m \in Nat :
        lines = text.lines /\ row = text.row /\ m = rows /\ m = Len(lines) /\ row <= m
  BY TextLines
<1>2. PICK deleted \in Nat :
        /\ deleted = atMost(count, rows - text.row + 1)
        /\ deleted >= 1 /\ row + deleted - 1 <= m
  BY <1>1 DEF atMost
<1>3. CASE rows = 1 \/ deleted >= rows
  <2>1. <<0>> \in Lines /\ 1 \in 1 .. Len(<<0>>) /\ 0 \in 0 .. <<0>>[1]
    BY OneLine
  <2>2. textAt(<<0>>, 1, 0) \in ValidTexts
    BY <2>1, ValidText
  <2> QED BY <1>2, <1>3, <2>2, Edits DEF VimDeleteLine
<1>4. CASE ~(rows = 1 \/ deleted >= rows)
  <2>1. PICK none \in Lines : none = <<>> /\ Len(none) = 0
    BY EmptySeq DEF Lines
  <2>2. PICK to \in row .. Len(lines) : to = row + deleted - 1
    BY <1>1, <1>2
  <2>3. PICK l \in Lines :
          l = splice(lines, row, to, none) /\ Len(l) = row - 1 + 0 + m - to
    <3>1. row \in 1 .. Len(lines)
      BY <1>1
    <3>2. /\ splice(lines, row, to, none) \in Lines
          /\ Len(splice(lines, row, to, none)) = row - 1 + Len(none) + Len(lines) - to
      BY <3>1, Spliced
    <3> QED BY <1>1, <2>1, <3>2
  <2>4. Len(l) = m - deleted /\ m - deleted >= 1
    <3>1. ~(deleted >= m)
      BY <1>1, <1>4
    <3>2. row - 1 + 0 + m - (row + deleted - 1) = m - deleted
      OBVIOUS
    <3> QED BY <2>2, <2>3, <3>1, <3>2
  <2>5. PICK new \in 1 .. Len(l) : new = atMost(row, m - deleted)
    <3>1. atMost(row, m - deleted) \in 1 .. m - deleted
      BY <2>4 DEF atMost
    <3> QED BY <2>4, <3>1
  <2>6. 0 \in 0 .. l[new]
    BY LineFacts
  <2>7. textAt(l, new, 0) \in ValidTexts
    BY <2>6, ValidText
  <2>8. edit(textAt(l, new, 0))
    BY <1>1, <1>2, <1>4, <2>1, <2>2, <2>3, <2>5 DEF VimDeleteLine
  <2> QED BY <2>7, <2>8, Edits
<1> QED BY <1>3, <1>4

LEMMA LinesChanged ==
  ASSUME text \in ValidTexts, NEW count \in Nat \ {0},
         VimChangeLine(count) \/ VimChangeDown(count) \/ VimChangeUp(count)
  PROVE  TextEdited
<1>1. PICK row \in Nat : row = text.row /\ row \in 1 .. rows /\ lineLen \in Int
  BY TextLines
<1>2. rows \in Nat
  BY TextLines
<1>3. ASSUME VimChangeLine(count) PROVE TextEdited
  <2>1. PICK n \in Nat \ {0} : n = atMost(count, rows - text.row + 1)
    BY <1>1, <1>2 DEF atMost
  <2>2. removedLines(row, n) \in ValidTexts
    BY <1>1, LinesRemoved
  <2>3. edit(removedLines(row, n))
    BY <1>1, <1>3, <2>1 DEF VimChangeLine
  <2> QED BY <2>2, <2>3, Edits
<1>4. ASSUME rows = 1, edit(removed(1, 0, 1, lineLen)) PROVE TextEdited
  <2>1. PICK n \in Int : n = lineLen
    BY <1>1
  <2>2. 1 \in 1 .. rows
    BY <1>4
  <2>3. removed(1, 0, 1, n) \in ValidTexts
    BY <2>2, RangeRemoved
  <2> QED BY <1>4, <2>1, <2>3, Edits
<1>5. CASE VimChangeDown(count)
  BY <1>3, <1>4, <1>5 DEF VimChangeDown
<1>6. CASE VimChangeUp(count)
  <2>1. PICK start \in 1 .. rows, n \in Nat \ {0} :
          /\ start = atLeast(text.row - count + 1, 1)
          /\ n = text.row - start + 1
    <3>1. /\ atLeast(text.row - count + 1, 1) \in 1 .. rows
          /\ text.row - atLeast(text.row - count + 1, 1) + 1 \in Nat \ {0}
      BY <1>1, <1>2 DEF atLeast
    <3> QED BY <3>1
  <2>2. PICK t \in ValidTexts : t = removedLines(start, n) /\ start <= Len(t.lines)
    BY LinesRemoved
  <2>3. PICK lines \in Lines : lines = t.lines
    BY TextParts
  <2>4. start \in 1 .. Len(lines)
    BY <1>2, <2>2, <2>3, LineFacts
  <2>5. 0 \in 0 .. lines[start]
    BY <2>4, LineFacts
  <2>6. textAt(lines, start, 0) \in ValidTexts
    BY <2>4, <2>5, ValidText
  <2>7. CASE rows = 1
    BY <1>4, <1>6, <2>7 DEF VimChangeUp
  <2>8. CASE rows # 1
    <3>1. edit(textAt(lines, start, 0))
      BY <1>6, <2>1, <2>2, <2>3, <2>8 DEF VimChangeUp
    <3> QED BY <2>6, <3>1, Edits
  <2> QED BY <2>7, <2>8
<1> QED BY <1>3, <1>5, <1>6

LEMMA InLineChanged ==
  ASSUME text \in ValidTexts, NEW count \in Nat \ {0},
         VimChangeLeft(count) \/ VimChangeRight(count) \/ VimDeleteChar(count)
  PROVE  TextEdited
<1>1. PICK row \in 1 .. rows, col \in Nat, m \in Nat :
        row = text.row /\ col = text.col /\ m = lineLen
  BY TextLines
<1>2. CASE VimChangeLeft(count)
  <2>1. PICK sc \in Int : sc = atLeast(text.col - count, 0)
    BY <1>1 DEF atLeast
  <2>2. removed(row, sc, row, col) \in ValidTexts
    BY <1>1, RangeRemoved
  <2> QED BY <1>1, <1>2, <2>1, <2>2, Edits DEF VimChangeLeft
<1>3. ASSUME VimChangeRight(count) PROVE TextEdited
  <2>1. PICK ec \in Int : ec = atMost(text.col + count, lineLen)
    BY <1>1 DEF atMost
  <2>2. removed(row, col, row, ec) \in ValidTexts
    BY <1>1, RangeRemoved
  <2> QED BY <1>1, <1>3, <2>1, <2>2, Edits DEF VimChangeRight
<1> QED BY <1>2, <1>3 DEF VimDeleteChar

LEMMA LineOpened ==
  ASSUME text \in ValidTexts, VimOpenBelow \/ VimOpenAbove
  PROVE  TextEdited
<1>1. PICK row \in Nat \ {0}, m \in Int :
        row = text.row /\ m = lineLen /\ row <= rows
  BY TextLines
<1>2. <<0, 0>> \in Lines /\ <<0, 0>> # <<>>
  BY TwoLines
<1>3. CASE VimOpenBelow
  <2>1. replaceRangeInternal(row, m, row, m, <<0, 0>>) \in ValidTexts
    BY <1>1, <1>2, Replaced
  <2> QED BY <1>1, <1>3, <2>1, Edits DEF VimOpenBelow
<1>4. CASE VimOpenAbove
  <2>1. PICK t \in ValidTexts :
          t = replaceRangeInternal(row, 0, row, 0, <<0, 0>>) /\ row <= Len(t.lines)
    <3>1. 0 \in Int
      OBVIOUS
    <3>2. /\ replaceRangeInternal(row, 0, row, 0, <<0, 0>>) \in ValidTexts
          /\ row <= rows => row <= Len(replaceRangeInternal(row, 0, row, 0, <<0, 0>>).lines)
      BY <1>2, <3>1, Replaced
    <3> QED BY <1>1, <3>2
  <2>2. PICK lines \in Lines : lines = t.lines
    BY TextParts
  <2>3. row \in 1 .. Len(lines)
    BY <2>1, <2>2, LineFacts
  <2>4. 0 \in 0 .. lines[row]
    BY <2>3, LineFacts
  <2>5. textAt(lines, row, 0) \in ValidTexts
    BY <2>3, <2>4, ValidText
  <2>6. edit(textAt(lines, row, 0))
    BY <1>1, <1>4, <2>1, <2>2 DEF VimOpenAbove
  <2> QED BY <2>5, <2>6, Edits
<1> QED BY <1>3, <1>4

LEMMA VimEdits == ASSUME text \in ValidTexts, VimEdit PROVE TextEdited
<1>1. PICK at \in 1 .. rows, here \in Int, m \in Int :
        at = text.row /\ here = text.col /\ m = lineLen
  BY TextLines
<1>2. CASE VimDeleteWord
  <2>1. PICK row \in 1 .. rows : \E col \in 0 .. text.lines[row] :
          \/ edit(removed(text.row, text.col, row, col))
          \/ edit(removed(row, col, text.row, text.col))
    BY <1>2 DEF VimDeleteWord
  <2>2. PICK col \in Int : \/ edit(removed(text.row, text.col, row, col))
                          \/ edit(removed(row, col, text.row, text.col))
    BY <2>1, TextLines
  <2>3. removed(at, here, row, col) \in ValidTexts /\ removed(row, col, at, here) \in ValidTexts
    BY RangeRemoved
  <2> QED BY <1>1, <2>2, <2>3, Edits
<1>3. CASE VimDeleteToEnd
  <2>1. removed(at, here, at, m) \in ValidTexts
    BY RangeRemoved
  <2> QED BY <1>1, <1>3, <2>1, Edits DEF VimDeleteToEnd
<1>4. CASE VimOpenBelow \/ VimOpenAbove
  BY <1>4, LineOpened
<1>5. ASSUME NEW count \in 1 .. MaxCount,
             \/ VimDeleteLine(count) \/ VimChangeLine(count) \/ VimChangeUp(count)
             \/ VimChangeDown(count) \/ VimChangeLeft(count) \/ VimChangeRight(count)
             \/ VimDeleteChar(count)
      PROVE  TextEdited
  <2>1. count \in Nat \ {0}
    BY TextAssumption
  <2> QED BY <1>5, <2>1, LineDeleted, LinesChanged, InLineChanged
<1> QED BY <1>2, <1>3, <1>4, <1>5 DEF VimEdit

LEMMA CursorSteps == ASSUME text \in ValidTexts, Move \/ VimMove PROVE CursorMoves
<1>1. /\ text.row \in 1 .. rows /\ rows \in Nat /\ lineLen \in Nat
      /\ lineLen = text.lines[text.row] /\ text.col \in 0 .. lineLen
      /\ \A i \in 1 .. rows : text.lines[i] \in Nat
  BY TextLines
<1>2. ASSUME NEW row, NEW col, row \in 1 .. rows, col \in 0 .. text.lines[row],
             moveTo(row, col)
      PROVE  CursorMoves
  BY <1>2, Moves
<1>3. CASE Move
  BY <1>2, <1>3 DEF Move
<1>4. CASE VimLeft
  <2>1. text.col > 0 => text.col - 1 \in 0 .. text.lines[text.row]
    BY <1>1
  <2>2. text.row > 1 => /\ text.row - 1 \in 1 .. rows
                        /\ atLeast(text.lines[text.row - 1] - 1, 0)
                             \in 0 .. text.lines[text.row - 1]
    <3>1. text.row > 1 => text.row - 1 \in 1 .. rows
      BY <1>1
    <3>2. \A n \in Nat : atLeast(n - 1, 0) \in 0 .. n
      BY DEF atLeast
    <3> QED BY <1>1, <3>1, <3>2
  <2> QED BY <1>1, <1>2, <1>4, <2>1, <2>2 DEF VimLeft
<1>5. CASE VimRight
  <2>1. text.col < lineLen - 1 => text.col + 1 \in 0 .. text.lines[text.row]
    BY <1>1
  <2>2. text.row < rows => /\ text.row + 1 \in 1 .. rows
                           /\ 0 \in 0 .. text.lines[text.row + 1]
    <3>1. text.row < rows => text.row + 1 \in 1 .. rows
      BY <1>1
    <3>2. \A n \in Nat : 0 \in 0 .. n
      OBVIOUS
    <3> QED BY <1>1, <3>1, <3>2
  <2> QED BY <1>1, <1>2, <1>5, <2>1, <2>2 DEF VimRight
<1>6. CASE VimInLine
  <2>1. \A col \in {atMost(text.col + 1, lineLen), lineLen, 0, atLeast(lineLen - 1, 0),
                     atLeast(text.col - 1, 0)} \cup 0 .. lineLen : col \in 0 .. lineLen
    BY <1>1 DEF atMost, atLeast
  <2> QED BY <1>1, <1>2, <1>6, <2>1 DEF VimInLine
<1>7. CASE VimToLine
  <2>1. \A row \in 1 .. rows : 0 \in 0 .. text.lines[row]
    BY <1>1
  <2> QED BY <1>2, <1>7, <2>1 DEF VimToLine
<1>8. ASSUME NEW count \in 1 .. MaxCount, VimUp(count) \/ VimDown(count) PROVE CursorMoves
  <2>1. /\ atLeast(text.row - count, 1) \in 1 .. rows
        /\ atMost(text.row + count, rows) \in 1 .. rows
    BY <1>1, TextAssumption DEF atLeast, atMost
  <2>2. ASSUME NEW row, row \in 1 .. rows, vimToRow(row) PROVE CursorMoves
    <3>1. \A n \in Nat, c \in Nat : atMost(c, atLeast(n - 1, 0)) \in 0 .. n
      BY DEF atMost, atLeast
    <3>2. text.col \in Nat /\ text.lines[row] \in Nat
      BY <1>1, <2>2
    <3>3. atMost(text.col, atLeast(text.lines[row] - 1, 0)) \in 0 .. text.lines[row]
      BY <3>1, <3>2
    <3> QED BY <1>2, <2>2, <3>3 DEF vimToRow
  <2> QED BY <1>8, <2>1, <2>2 DEF VimUp, VimDown
<1> QED BY <1>3, <1>4, <1>5, <1>6, <1>7, <1>8 DEF VimMove

LEMMA TextSteps ==
  ASSUME text \in ValidTexts, TextNext
  PROVE  CursorMoves \/ TextEdited \/ Undo \/ Redo
BY InsertEdits, LineEdits, RangeReplaced, VimEdits, CursorSteps DEF TextNext

WithSnapshot(u, t) == IF Len(u) < HistoryLimit THEN Append(u, t) ELSE Append(Tail(u), t)

\* A snapshot is on top, and the stack is no longer than the limit.
LEMMA SnapshotTaken ==
  ASSUME NEW S, NEW u \in Seq(S), NEW t \in S, Len(u) <= HistoryLimit,
         NEW v, v = WithSnapshot(u, t)
  PROVE  v \in Seq(S) /\ v # <<>> /\ Len(v) <= HistoryLimit /\ Last(v) = t
<1>1. HistoryLimit \in Nat \ {0} /\ Len(u) \in Nat
  BY TextAssumption
<1>2. PICK w \in Seq(S) : v = Append(w, t) /\ Len(w) < HistoryLimit
  <2>1. CASE Len(u) < HistoryLimit
    BY <2>1 DEF WithSnapshot
  <2>2. CASE ~(Len(u) < HistoryLimit)
    <3>1. u # <<>> /\ Len(u) = HistoryLimit
      BY <1>1, <2>2
    <3>2. Tail(u) \in Seq(S) /\ Len(Tail(u)) = Len(u) - 1
      BY <3>1, HeadTailProperties
    <3>3. v = Append(Tail(u), t)
      BY <2>2 DEF WithSnapshot
    <3>4. Len(Tail(u)) < HistoryLimit
      BY <1>1, <3>1, <3>2
    <3> QED BY <3>2, <3>3, <3>4
  <2> QED BY <2>1, <2>2
<1>3. Append(w, t) \in Seq(S) /\ Len(Append(w, t)) = Len(w) + 1
      /\ Append(w, t)[Len(w) + 1] = t
  BY AppendProperties
<1> QED BY <1>1, <1>2, <1>3, AppendNonempty DEF Last

\* The last text goes from one stack to the other as the current one.
LEMMA StackPopped ==
  ASSUME NEW S, NEW u \in Seq(S), u # <<>>, NEW r \in Seq(S), NEW t \in S
  PROVE  /\ Last(u) \in S /\ Front(u) \in Seq(S) /\ Append(r, t) \in Seq(S)
         /\ Append(r, t) # <<>> /\ Last(Append(r, t)) = t
         /\ Len(Front(u)) + Len(Append(r, t)) = Len(u) + Len(r)
<1>1. Len(u) \in Nat \ {0} /\ Len(r) \in Nat
  BY EmptySeq
<1>2. Last(u) \in S
  BY <1>1, ElementOfSeq DEF Last
<1>3. Front(u) \in Seq(S) /\ Len(Front(u)) = Len(u) - 1
  <2>1. \A i \in 1 .. Len(u) - 1 : u[i] \in S
    BY <1>1, ElementOfSeq
  <2>2. /\ SubSeq(u, 1, Len(u) - 1) \in Seq(S)
        /\ Len(SubSeq(u, 1, Len(u) - 1)) = IF 1 <= Len(u) - 1 THEN Len(u) - 1 - 1 + 1 ELSE 0
    <3>1. 1 \in Int /\ Len(u) - 1 \in Int
      BY <1>1
    <3>2. ASSUME NEW n \in Int, \A i \in 1 .. n : u[i] \in S
          PROVE  /\ SubSeq(u, 1, n) \in Seq(S)
                 /\ Len(SubSeq(u, 1, n)) = IF 1 <= n THEN n - 1 + 1 ELSE 0
      BY <3>1, <3>2, SubSeqProperties
    <3> QED BY <2>1, <3>1, <3>2
  <2>3. \A n \in Nat \ {0} : (IF 1 <= n - 1 THEN n - 1 - 1 + 1 ELSE 0) = n - 1
    OBVIOUS
  <2> QED BY <1>1, <2>2, <2>3 DEF Front
<1>4. Append(r, t) \in Seq(S) /\ Len(Append(r, t)) = Len(r) + 1
      /\ Append(r, t)[Len(r) + 1] = t
  BY AppendProperties
<1>5. Append(r, t) # <<>> /\ Last(Append(r, t)) = t
  BY <1>4, AppendNonempty DEF Last
<1> QED BY <1>1, <1>2, <1>3, <1>4, <1>5

LEMMA TextStep ==
  ASSUME XInv, CursorMoves \/ TextEdited \/ Undo \/ Redo
  PROVE  /\ XInv'
         /\ \/ text'.lines = text.lines
            \/ undoStack' # <<>> /\ Last(undoStack') = text
            \/ redoStack' # <<>> /\ Last(redoStack') = text
<1>1. PICK S, t, u, r :
        /\ S = ValidTexts /\ t = text /\ u = undoStack /\ r = redoStack
        /\ t \in S /\ u \in Seq(S) /\ r \in Seq(S)
        /\ Len(u) + Len(r) <= HistoryLimit
  BY DEF XInv
<1>0. t \in S /\ u \in Seq(S) /\ r \in Seq(S)
  BY <1>1
<1>2. Len(u) \in Nat /\ Len(r) \in Nat /\ HistoryLimit \in Nat
  BY <1>1, TextAssumption
<1>3. CASE CursorMoves
  BY <1>3 DEF CursorMoves, XInv
<1>4. CASE TextEdited
  <2>1. Len(u) <= HistoryLimit
    BY <1>1, <1>2
  <2>2. PICK v \in Seq(S) :
          v = WithSnapshot(u, t) /\ v # <<>> /\ Len(v) <= HistoryLimit /\ Last(v) = t
    <3>1. PICK v : v = WithSnapshot(u, t)
      OBVIOUS
    <3>2. v \in Seq(S) /\ v # <<>> /\ Len(v) <= HistoryLimit /\ Last(v) = t
      BY <1>0, <2>1, <3>1, SnapshotTaken
    <3> QED BY <3>1, <3>2
  <2>3. undoStack' = v /\ redoStack' = <<>> /\ text' \in S
    BY <1>1, <1>4, <2>2 DEF TextEdited, pushUndo, WithSnapshot
  <2>4. <<>> \in Seq(S) /\ Len(<<>>) = 0 /\ Len(v) \in Nat
    BY EmptySeq
  <2>5. Len(v) + Len(<<>>) <= HistoryLimit
    BY <2>2, <2>4
  <2> QED BY <1>1, <2>2, <2>3, <2>4, <2>5 DEF XInv
<1>5. CASE Undo
  <2>1. u # <<>>
    BY <1>1, <1>5 DEF Undo
  <2>2. /\ Last(u) \in S /\ Front(u) \in Seq(S) /\ Append(r, t) \in Seq(S)
        /\ Append(r, t) # <<>> /\ Last(Append(r, t)) = t
        /\ Len(Front(u)) + Len(Append(r, t)) = Len(u) + Len(r)
    BY <1>0, <2>1, StackPopped
  <2>3. text' = Last(u) /\ undoStack' = Front(u) /\ redoStack' = Append(r, t)
    BY <1>1, <1>5 DEF Undo
  <2> QED BY <1>1, <2>2, <2>3 DEF XInv
<1>6. CASE Redo
  <2>1. r # <<>>
    BY <1>1, <1>6 DEF Redo
  <2>2. /\ Last(r) \in S /\ Front(r) \in Seq(S) /\ Append(u, t) \in Seq(S)
        /\ Append(u, t) # <<>> /\ Last(Append(u, t)) = t
        /\ Len(Front(r)) + Len(Append(u, t)) = Len(r) + Len(u)
    BY <1>0, <2>1, StackPopped
  <2>3. text' = Last(r) /\ redoStack' = Front(r) /\ undoStack' = Append(u, t)
    BY <1>1, <1>6 DEF Redo
  <2>4. Len(Append(u, t)) + Len(Front(r)) = Len(u) + Len(r)
    <3>1. Len(Append(u, t)) \in Nat /\ Len(Front(r)) \in Nat
      BY <2>2
    <3> QED BY <1>2, <2>2, <3>1
  <2> QED BY <1>1, <2>2, <2>3, <2>4 DEF XInv
<1> QED BY <1>3, <1>4, <1>5, <1>6

LEMMA TextInitially == TextInit => XInv
<1> SUFFICES ASSUME TextInit PROVE XInv
  OBVIOUS
<1>1. <<0>> \in Lines /\ 1 \in 1 .. Len(<<0>>) /\ 0 \in 0 .. <<0>>[1]
  BY OneLine
<1>2. textAt(<<0>>, 1, 0) \in ValidTexts
  BY <1>1, ValidText
<1>3. <<>> \in Seq(ValidTexts) /\ Len(<<>>) + Len(<<>>) <= HistoryLimit
  BY EmptySeq, TextAssumption
<1> QED BY <1>2, <1>3 DEF TextInit, textAt, XInv

LEMMA TextInvariant == TextSpec => []XInv
<1>1. XInv /\ [TextNext]_textVars => XInv'
  <2> SUFFICES ASSUME XInv, [TextNext]_textVars PROVE XInv'
    OBVIOUS
  <2>1. text \in ValidTexts
    BY DEF XInv
  <2>2. CASE TextNext
    BY <2>1, <2>2, TextSteps, TextStep
  <2>3. CASE UNCHANGED textVars
    BY <2>3 DEF textVars, XInv
  <2> QED BY <2>2, <2>3
<1> QED BY <1>1, TextInitially, PTL DEF TextSpec

\* The reducer's state (text-buffer.ts:1118) is a text and two stacks of texts
\* within the limit on the history.
THEOREM TextTypeCorrect == TextSpec => []TextTypeOK
<1>1. XInv => TextTypeOK
  <2> SUFFICES ASSUME XInv PROVE TextTypeOK
    OBVIOUS
  <2>1. ValidTexts \subseteq Texts
    BY DEF ValidTexts
  <2>2. undoStack \in Seq(ValidTexts) /\ redoStack \in Seq(ValidTexts) /\ text \in ValidTexts
    BY DEF XInv
  <2>3. undoStack \in Seq(Texts) /\ redoStack \in Seq(Texts)
    BY <2>1, <2>2
  <2>4. Len(undoStack) \in Nat /\ Len(redoStack) \in Nat
    BY <2>2
  <2>5. Len(undoStack) <= HistoryLimit /\ Len(redoStack) <= HistoryLimit
    BY <2>4, TextAssumption DEF XInv
  <2> QED BY <2>1, <2>2, <2>3, <2>5 DEF TextTypeOK
<1> QED BY <1>1, TextInvariant, PTL

\* The cursor never leaves the text, whatever the edits, the counts of the vim
\* commands and the stale ranges (text-buffer.ts:1657, vim-buffer-actions.ts:208).
THEOREM CursorStaysInText == TextSpec => []CursorInText
<1>1. XInv => CursorInText
  BY TextLines DEF XInv, CursorInText
<1> QED BY <1>1, TextInvariant, PTL

\* A step that changes the lines leaves the text before it on top of a stack
\* (text-buffer.ts:1118).
THEOREM EditsCanBeUndone == TextSpec => ChangesCanBeUndone
<1>1. XInv /\ [TextNext]_textVars =>
        [text'.lines # text.lines =>
           \/ undoStack' # <<>> /\ Last(undoStack') = text
           \/ redoStack' # <<>> /\ Last(redoStack') = text]_textVars
  <2> SUFFICES ASSUME XInv, TextNext, text'.lines # text.lines
               PROVE  \/ undoStack' # <<>> /\ Last(undoStack') = text
                      \/ redoStack' # <<>> /\ Last(redoStack') = text
    OBVIOUS
  <2>1. text \in ValidTexts
    BY DEF XInv
  <2> QED BY <2>1, TextSteps, TextStep
<1> QED BY <1>1, TextInvariant, PTL DEF TextSpec, ChangesCanBeUndone
-------------------------------------------------------------------------------
(***************************************************************************)
(* The composition: a step of one component is a stutter of the others, so *)
(* every behaviour of the composition is one of each component, and what   *)
(* is proved of them holds of it.                                          *)
(***************************************************************************)

ComponentsInit ==
    /\ AcpInit /\ IdeInit /\ AgentInit /\ A2AInit /\ ApprovalInit /\ TextInit
    /\ TelemetryInit /\ McpInit /\ LoopInit /\ ContextInit

LEMMA ServicesStep ==
  ASSUME [ServicesNext]_serviceVars
  PROVE  /\ [AcpNext]_acpVars /\ [IdeNext]_ideVars /\ [AgentNext]_agentVars
         /\ [A2ANext]_a2aVars /\ [ApprovalNext]_approvalVars /\ [TextNext]_textVars
         /\ [TelemetryNext]_telemetryVars /\ [McpNext]_mcpVars /\ [LoopNext]_loopVars
         /\ [ContextNext]_contextVars
BY DEF ServicesNext, serviceVars

\* A behaviour of the composition is a behaviour of each of its components:
\* what is proved of a component, and what a run finds of the composition, are
\* about the same system.
THEOREM ServicesAreComponents ==
    ServicesSpec => /\ AcpSpec /\ IdeSpec /\ AgentSpec /\ A2ASpec /\ ApprovalSpec /\ TextSpec
                    /\ TelemetrySpec /\ McpSpec /\ LoopSpec /\ ContextSpec
<1>1. ServicesInit => ComponentsInit
  BY DEF ServicesInit, ComponentsInit
<1>2. [ServicesNext]_serviceVars =>
         /\ [AcpNext]_acpVars /\ [IdeNext]_ideVars /\ [AgentNext]_agentVars
         /\ [A2ANext]_a2aVars /\ [ApprovalNext]_approvalVars /\ [TextNext]_textVars
         /\ [TelemetryNext]_telemetryVars /\ [McpNext]_mcpVars /\ [LoopNext]_loopVars
         /\ [ContextNext]_contextVars
  BY ServicesStep
<1> QED BY <1>1, <1>2, PTL DEF ServicesSpec, ComponentsInit, AcpSpec, IdeSpec, AgentSpec, A2ASpec,
           ApprovalSpec, TextSpec, TelemetrySpec, McpSpec, LoopSpec, ContextSpec

\* The types of every component, whatever the instance.
THEOREM ServicesTypeCorrect == ServicesSpec => []ServicesTypeOK
<1>1. ServicesTypeOK <=>
         /\ AcpTypeOK /\ DiffTypeOK /\ AgentTypeOK /\ A2ATypeOK /\ ApprovalTypeOK /\ TextTypeOK
         /\ TelemetryTypeOK /\ McpTypeOK /\ LoopTypeOK /\ ContextTypeOK
  BY DEF ServicesTypeOK
<1> QED BY <1>1, ServicesAreComponents, AcpTypeCorrect, DiffTypeCorrect, AgentTypeCorrect,
           A2ATypeCorrect, ApprovalTypeCorrect, TextTypeCorrect, TelemetryTypeCorrect,
           McpTypeCorrect, LoopTypeCorrect, ContextTypeCorrect, PTL

==============================================================================
