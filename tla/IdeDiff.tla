-------------------------------- MODULE IdeDiff --------------------------------
(***************************************************************************)
(* Reviewing an edit in the IDE: the CLI's IdeClient, the companion's      *)
(* DiffManager, and the messages between them.                             *)
(*                                                                         *)
(* openDiff queues behind a promise-chain mutex, registers its resolver    *)
(* under the file's path and asks the companion to show a view.  What the  *)
(* user does with the view comes back as a notification that names the     *)
(* path only.  The terminal's dialog answers the same question: it closes  *)
(* the view first and then calls the resolver it found before.             *)
(***************************************************************************)
EXTENDS Integers, Sequences, SequencesExt

CONSTANTS Diffs,     \* calls of openDiff: numbers in their order
          DiffFiles, \* the paths they are about, numbered as they come up
          MaxDrops   \* bound: how often the connection goes away

ASSUME DiffAssumption == /\ Diffs \subseteq Nat \ {0} /\ DiffFiles \subseteq Nat \ {0}
                         /\ MaxDrops \in Nat

VARIABLES diff,           \* diff[d]: the call of openDiff, and the terminal's dialog
          diffMutex,      \* the call that queued last for the mutex, 0 at first
          diffResponses,  \* IdeClient's resolvers: the call registered for a path, or 0
          diffRequests,   \* requests the companion has not handled yet
          diffViews,      \* DiffManager.diffDocuments in their order
          viewAnswers,    \* acceptDiff and cancelDiff calls awaiting the editor
          diffNotes,      \* notifications on their way to the CLI
          ideConnected, ideDrops,
          disconnecting   \* the entry of diffResponses disconnect() has come to, or 0

ideVars == <<diff, diffMutex, diffResponses, diffRequests, diffViews, viewAnswers,
             diffNotes, ideConnected, ideDrops, disconnecting>>
cliVars == <<diff, diffMutex, diffResponses>>
companionVars == <<diffRequests, diffViews, viewAnswers, diffNotes>>
linkVars == <<ideConnected, ideDrops, disconnecting>>

Answers == {"accepted", "rejected"}
Settled == Answers \cup {"failed"}
Calls == Diffs \cup {0}

DiffTypeOK ==
    /\ diff \in [Diffs -> [at: {"new", "queued", "pending"} \cup Settled,
                           file: DiffFiles \cup {0}, after: Calls,
                           dialog: {"none", "shown", "closing", "closed", "gone", "left"},
                           resolver: Calls, outcome: Answers]]
    /\ diffMutex \in Calls
    /\ diffResponses \in [DiffFiles -> Calls]
    /\ diffRequests \subseteq Diffs
    /\ diffViews \in Seq(Diffs)
    /\ viewAnswers \subseteq Diffs \X Answers
    /\ diffNotes \in Seq(Diffs \X Answers)
    /\ ideConnected \in BOOLEAN /\ ideDrops \in 0 .. MaxDrops
    /\ disconnecting \in Calls

IdeInit ==
    /\ diff = [d \in Diffs |-> [at |-> "new", file |-> 0, after |-> 0, dialog |-> "none",
                                resolver |-> 0, outcome |-> "rejected"]]
    /\ diffMutex = 0
    /\ diffResponses = [f \in DiffFiles |-> 0]
    /\ diffRequests = {} /\ diffViews = <<>> /\ viewAnswers = {} /\ diffNotes = <<>>
    /\ ideConnected = TRUE /\ ideDrops = 0 /\ disconnecting = 0

\* A promise settles once; what comes later is ignored.
settle(f, d, answer) ==
    IF d # 0 /\ f[d].at = "pending" THEN [f EXCEPT ![d].at = answer] ELSE f

Released_early(d) == d # 0 => diff[d].at \in Settled \/ diff[d].dialog \in {"gone", "left"}

\* The mutex a call took is released when its promise settles.
Released(d) == d # 0 => diff[d].at \in Settled

\* The scheduler is done with the call's confirmation.
Answered(d) == diff[d].at \in Settled \/ diff[d].dialog \in {"gone", "left"}

\* closeDiff closes the first view of the file, closeDiffEditor the given one,
\* if it is still there.
FirstView(file) ==
    LET at == {i \in DOMAIN diffViews : diff[diffViews[i]].file = file}
    IN  {i \in at : \A j \in at : i <= j}
ViewOf(d) == {i \in DOMAIN diffViews : diffViews[i] = d}
closeView(at) == diffViews' = IF at = {} THEN diffViews
                              ELSE RemoveAt(diffViews, CHOOSE i \in at : TRUE)

-------------------------------------------------------------------------------
(* IdeClient *)

\* An edit asks for confirmation; acquireMutex takes its place in the queue.
OpenDiff(d, file) ==
    /\ diff[d].at = "new" /\ ideConnected /\ file <= d
    /\ \A e \in Diffs : e < d => diff[e].at # "new" /\ Answered(e)
    /\ diff' = [diff EXCEPT ![d].at = "queued", ![d].file = file, ![d].after = diffMutex,
                            ![d].dialog = "shown"]
    /\ diffMutex' = d
    /\ UNCHANGED <<diffResponses, companionVars, linkVars>>

\* The call before it released the mutex: register the resolver, ask the IDE.
Acquire(d) ==
    /\ diff[d].at = "queued" /\ Released(diff[d].after)
    /\ diff' = [diff EXCEPT ![d].at = "pending"]
    /\ diffResponses' = [diffResponses EXCEPT ![diff[d].file] = d]
    /\ diffRequests' = diffRequests \cup {d}
    /\ UNCHANGED <<diffMutex, diffViews, viewAnswers, diffNotes, linkVars>>

\* The request fails or times out; the companion may still have received it.
RequestFails(d) ==
    /\ diff[d].at = "pending" /\ d \in diffRequests
    /\ diff' = settle(diff, d, "failed")
    /\ diffResponses' = [diffResponses EXCEPT ![diff[d].file] = 0]
    /\ \/ ideConnected /\ UNCHANGED diffRequests
       \/ diffRequests' = diffRequests \ {d}
    /\ UNCHANGED <<diffMutex, diffViews, viewAnswers, diffNotes, linkVars>>

Notified_forgets ==
    /\ diffNotes # <<>>
    /\ diffResponses' = [diffResponses EXCEPT ![diff[Head(diffNotes)[1]].file] = 0]
    /\ diffNotes' = Tail(diffNotes)
    /\ UNCHANGED <<diff, diffMutex, diffRequests, diffViews, viewAnswers, linkVars>>

\* A notification resolves whatever call is registered for its path.
Notified ==
    /\ diffNotes # <<>>
    /\ LET file == diff[Head(diffNotes)[1]].file IN
         /\ diff' = settle(diff, diffResponses[file], Head(diffNotes)[2])
         /\ diffResponses' = [diffResponses EXCEPT ![file] = 0]
    /\ diffNotes' = Tail(diffNotes)
    /\ UNCHANGED <<diffMutex, diffRequests, diffViews, viewAnswers, linkVars>>

\* resolveDiffFromCli reads the resolver, then asks the IDE to close the view.
\* (A free mutex is taken before the user can answer.)
AnswerInTerminal(d, answer) ==
    /\ diff[d].dialog = "shown" /\ diff[d].at \notin Settled
    /\ diff[d].at = "queued" => ~Released(diff[d].after)
    /\ diff' = [diff EXCEPT ![d].dialog = "closing", ![d].outcome = answer,
                            ![d].resolver = diffResponses[diff[d].file]]
    /\ UNCHANGED <<diffMutex, diffResponses, companionVars, linkVars>>

\* closeDiff returned: the resolver is called and the path's entry deleted.
CloseReturns(d) ==
    /\ diff[d].dialog = "closed"
    /\ diff' = [settle(diff, diff[d].resolver, diff[d].outcome)
                  EXCEPT ![d].dialog = "gone", ![d].resolver = 0,
                         ![d].outcome = "rejected"]
    /\ diffResponses' = IF diff[d].resolver = 0 THEN diffResponses
                        ELSE [diffResponses EXCEPT ![diff[d].file] = 0]
    /\ UNCHANGED <<diffMutex, companionVars, linkVars>>

\* The turn is cancelled while another part of the terminal has the focus: the
\* dialog goes away, the view and the promise stay.
LeaveDialog(d) ==
    /\ diff[d].dialog = "shown"
    /\ diff' = [diff EXCEPT ![d].dialog = "left"]
    /\ UNCHANGED <<diffMutex, diffResponses, companionVars, linkVars>>

-------------------------------------------------------------------------------
(* DiffManager *)

ShowDiff(d) ==
    /\ d \in diffRequests /\ ideConnected
    /\ diffRequests' = diffRequests \ {d}
    /\ diffViews' = Append(diffViews, d)
    /\ UNCHANGED <<cliVars, viewAnswers, diffNotes, linkVars>>

\* The user accepts or closes a view; the editor's text is read first.
AnswerInIde(d, answer) ==
    /\ d \in ToSet(diffViews)
    /\ \A a \in Answers : <<d, a>> \notin viewAnswers
    /\ viewAnswers' = viewAnswers \cup {<<d, answer>>}
    /\ UNCHANGED <<cliVars, diffRequests, diffViews, diffNotes, linkVars>>

\* Then the view is closed and the notification sent.
ViewClosed(d, answer) ==
    /\ <<d, answer>> \in viewAnswers
    /\ viewAnswers' = viewAnswers \ {<<d, answer>>}
    /\ closeView(ViewOf(d))
    /\ diffNotes' = IF ideConnected THEN Append(diffNotes, <<d, answer>>) ELSE diffNotes
    /\ UNCHANGED <<cliVars, diffRequests, linkVars>>

\* closeDiff: the first view of the file is closed, without a notification.
\* Requests are handled in their order.
\* Without a connection the request fails and the CLI goes on.
closeDiff(d) ==
    \/ ideConnected /\ d \notin diffRequests /\ closeView(FirstView(diff[d].file))
    \/ ~ideConnected /\ UNCHANGED diffViews

CloseDiff(d) ==
    /\ diff[d].dialog = "closing"
    /\ closeDiff(d)
    /\ diff' = [diff EXCEPT ![d].dialog = "closed"]
    /\ UNCHANGED <<diffMutex, diffResponses, diffRequests, viewAnswers, diffNotes, linkVars>>

-------------------------------------------------------------------------------
(* The connection *)

Dropped ==
    /\ ideConnected /\ ideDrops < MaxDrops
    /\ ideDrops' = ideDrops + 1

\* setState: what the companion sends is not heard any more.
Disconnected == ideConnected' = FALSE /\ diffNotes' = <<>>

\* The calls registered, but for the given one.
Entries(but) == {diffResponses[f] : f \in DiffFiles} \ {0, but}

\* disconnect() goes on: it comes to the next entry of diffResponses, or
\* forgets all of them, those it has closed the views of.
NextEntry(visited) ==
    \/ /\ disconnecting' \in Entries(visited)
       /\ UNCHANGED <<diffResponses, ideConnected, diffNotes>>
    \/ /\ Entries(visited) = {}
       /\ disconnecting' = 0
       /\ diffResponses' = [f \in DiffFiles |-> 0]
       /\ Disconnected

\* /ide disable.
Disconnect ==
    /\ disconnecting = 0
    /\ Dropped
    /\ NextEntry(0)
    /\ UNCHANGED <<diff, diffMutex, diffRequests, diffViews, viewAnswers>>

\* The view of an entry is closed.  A path registered meanwhile is a new entry.
DisconnectGoesOn ==
    /\ disconnecting # 0
    /\ closeDiff(disconnecting)
    /\ NextEntry(disconnecting)
    /\ UNCHANGED <<diff, diffMutex, diffRequests, viewAnswers, ideDrops>>

\* The connection is lost (onerror, onclose).
ConnectionLost ==
    /\ Dropped
    /\ Disconnected
    /\ UNCHANGED <<cliVars, diffRequests, diffViews, viewAnswers, disconnecting>>

\* /ide enable: the same IdeClient with a new connection.
Reconnect ==
    /\ ~ideConnected
    /\ ideConnected' = TRUE
    /\ UNCHANGED <<cliVars, companionVars, ideDrops, disconnecting>>

IdeStep(d) ==
    \/ Acquire(d) \/ ShowDiff(d) \/ CloseDiff(d) \/ CloseReturns(d)
    \/ \E a \in Answers : ViewClosed(d, a)

IdeNext ==
    \/ \E d \in Diffs : \/ IdeStep(d) \/ RequestFails(d) \/ LeaveDialog(d)
                        \/ \E f \in DiffFiles : OpenDiff(d, f)
                        \/ \E a \in Answers : AnswerInTerminal(d, a) \/ AnswerInIde(d, a)
    \/ Notified \/ Disconnect \/ DisconnectGoesOn \/ ConnectionLost \/ Reconnect

IdeSpec == IdeInit /\ [][IdeNext]_ideVars

-------------------------------------------------------------------------------

\* The mutex: calls get past it one at a time (ide-client.ts:305).
OneDiffPending ==
    \A d, e \in Diffs : diff[d].at = "pending" /\ diff[e].at = "pending" => d = e

SameFileTwice == \E d, e \in Diffs : d # e /\ diff[d].file # 0 /\ diff[d].file = diff[e].file

\* No connection went away, no dialog was left without an answer, and no two
\* edits are about one path.
Undisturbed ==
    ideDrops = 0 /\ ~SameFileTwice /\ \A d \in Diffs : diff[d].dialog # "left"

\* Every call settles, and so releases the mutex for the next one: an answer
\* in the terminal racing one in the IDE loses no resolver
\* (ide-client.ts:283, :394, :750).
DiffsSettle ==
    []<>(~Undisturbed \/ \A d \in Diffs : diff[d].at \in Settled \cup {"new"})
===============================================================================
