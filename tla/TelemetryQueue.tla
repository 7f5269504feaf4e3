----------------------------- MODULE TelemetryQueue -----------------------------
(***************************************************************************)
(* The usage events of a session (clearcut-logger.ts): a queue of limited  *)
(* length that is sent as a whole, while further events are logged.  What  *)
(* could not be sent goes back to the front, as far as there is room.  One *)
(* flush runs at a time; one that is asked for meanwhile follows it.       *)
(*                                                                         *)
(* Events are numbered as they are logged.                                 *)
(***************************************************************************)
EXTENDS Naturals, Sequences, SequencesExt

CONSTANTS MAX_EVENTS, MAX_RETRY_EVENTS,
          MaxLogged  \* bound: events logged in a session

ASSUME TelemetryAssumption == /\ MAX_EVENTS \in Nat \ {0} /\ MaxLogged \in Nat
                              /\ MAX_RETRY_EVENTS \in 1 .. MAX_EVENTS

VARIABLES events,        \* this.events
          eventsToSend,  \* the local variable of the flush that runs
          flushing, pendingFlush,
          logged,        \* how many events were logged
          received       \* events of a request that the service accepted

telemetryVars == <<events, eventsToSend, flushing, pendingFlush, logged, received>>

TelemetryTypeOK ==
    /\ events \in Seq(1 .. logged) /\ Len(events) <= MAX_EVENTS
    /\ eventsToSend \in Seq(1 .. logged) /\ Len(eventsToSend) <= MAX_EVENTS
    /\ flushing \in BOOLEAN /\ pendingFlush \in BOOLEAN
    /\ logged \in 0 .. MaxLogged
    /\ received \subseteq 1 .. logged

TelemetryInit ==
    /\ events = <<>> /\ eventsToSend = <<>>
    /\ flushing = FALSE /\ pendingFlush = FALSE
    /\ logged = 0 /\ received = {}

mostRecent(n, s) == IF n >= Len(s) THEN s ELSE SubSeq(s, Len(s) - n + 1, Len(s))

\* A full queue loses its oldest event.
enqueueHelper ==
    /\ logged < MaxLogged
    /\ logged' = logged + 1
    /\ events' = mostRecent(MAX_EVENTS, Append(events, logged + 1))
    /\ UNCHANGED <<eventsToSend, flushing, pendingFlush, received>>

requeueFailedEvents_first(failed) ==
    mostRecent(MAX_EVENTS - Len(events),
               SubSeq(failed, 1, IF Len(failed) < MAX_RETRY_EVENTS THEN Len(failed)
                                 ELSE MAX_RETRY_EVENTS)) \o events

\* The most recent of the failed events, and of those what there is room for.
requeueFailedEvents(failed) ==
    mostRecent(MAX_EVENTS - Len(events), mostRecent(MAX_RETRY_EVENTS, failed)) \o events

\* A flush takes the whole queue.
flushStarts(queue) == flushing' = TRUE /\ eventsToSend' = queue /\ events' = <<>>

flushToClearcut ==
    /\ IF flushing
         THEN /\ pendingFlush' = TRUE
              /\ UNCHANGED <<events, eventsToSend, flushing>>
         ELSE flushStarts(events) /\ UNCHANGED pendingFlush
    /\ UNCHANGED <<logged, received>>

\* The request is answered, or fails.  An accepted one whose answer cannot be
\* read counts as failed: its events will be sent twice.
FlushEnds(accepted, readable) ==
    /\ flushing
    /\ received' = IF accepted THEN received \cup ToSet(eventsToSend) ELSE received
    /\ LET queue == IF accepted /\ readable THEN events ELSE requeueFailedEvents(eventsToSend)
       IN  IF pendingFlush THEN flushStarts(queue) /\ pendingFlush' = FALSE
           ELSE /\ flushing' = FALSE /\ eventsToSend' = <<>> /\ events' = queue
                /\ UNCHANGED pendingFlush
    /\ UNCHANGED logged

flushStep == \E accepted, readable \in BOOLEAN : FlushEnds(accepted, readable)

TelemetryNext == enqueueHelper \/ flushToClearcut \/ flushStep

TelemetrySpec == TelemetryInit /\ [][TelemetryNext]_telemetryVars

-------------------------------------------------------------------------------

\* However logging, overflow and failing flushes mix: what is held stands in
\* the order of logging, nothing twice, and none of the last MAX_RETRY_EVENTS
\* events is lost before the service has it (clearcut-logger.ts:1484, :1498).
RecentEventsKept ==
    LET held == eventsToSend \o events IN
    /\ \A i, j \in 1 .. Len(held) : i < j => held[i] < held[j]
    /\ \A e \in 1 .. logged :
           e > logged - MAX_RETRY_EVENTS => e \in received \cup ToSet(held)

\* "Events added after this amount are dropped until the next flush"
\* (clearcut-logger.ts:182).  The code drops the oldest event instead.
NewestDropped ==
    [][Len(events) = MAX_EVENTS /\ logged' # logged => events' = events]_telemetryVars
===============================================================================
