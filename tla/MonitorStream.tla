--------------------------- MODULE MonitorStream ---------------------------
(***************************************************************************)
(* Serial monitors of one board (internal/monitor/stream.go) and the       *)
(* WebSocket handler that serves them (internal/http/monitor.go).          *)
(*                                                                         *)
(* A session runs in four goroutines: the handler that created it, its     *)
(* read loop, its control loop and the reader of the client's messages.    *)
(* The reservation is meant to follow the port: taken before it is opened, *)
(* given back when it is closed.  A flash job competes for both.           *)
(***************************************************************************)
EXTENDS Naturals, Sequences

CONSTANTS Sids,      \* connections: a session id is the client's address
          Flash,     \* the flash job that wants the board, as an owner
          Nobody,    \* no owner
          MaxTries,  \* maxRetries of the read loop: 10 in the code
          DataCap,   \* places of dataCh: 256 in the code
          CtlCap     \* places of control: 10 in the code

ASSUME MonitorAssumption ==
  /\ Flash \notin Sids /\ Nobody \notin Sids \cup {Flash}
  /\ {MaxTries, DataCap, CtlCap} \subseteq Nat \ {0}

VARIABLES
  session,  \* the goroutines of each session and what they share
  lease,    \* owner of the board's reservation
  port,     \* who has the board's serial port open
  plugged,  \* external: the board answers on its port
  taken     \* history: sessions whose reservation was taken from them

monVars == <<session, lease, port, plugged, taken>>

SessionType ==
  [handler : {"none", "creating", "live", "leaving", "gone"},
   loop : {"off", "reading", "backoff", "opening", "over"}, try : 0..MaxTries,
   cancelled : BOOLEAN, data : 0..DataCap, closed : BOOLEAN, error : BOOLEAN, batch : BOOLEAN,
   control : BOOLEAN, messages : {"off", "reading", "replying", "over"},
   client : {"reads", "stalled", "left"}, queue : Seq({"reset", "close"})]

MonTypeOK ==
  /\ session \in [Sids -> SessionType] /\ \A i \in Sids : Len(session[i].queue) <= CtlCap
  /\ lease \in Sids \cup {Flash, Nobody}
  /\ port \in Sids \cup {Flash, Nobody}
  /\ plugged \in BOOLEAN
  /\ taken \subseteq Sids

NewSession ==
  [handler |-> "none", loop |-> "off", try |-> 0, cancelled |-> FALSE, data |-> 0, closed |-> FALSE,
   error |-> FALSE, batch |-> FALSE, control |-> FALSE, messages |-> "off", client |-> "reads",
   queue |-> <<>>]

In(i, handler) == session[i].handler = handler
Looping(i, loop) == session[i].loop = loop
\* StreamManager.mu is held over the whole of Create.
ManagerFree == \A i \in Sids : ~ In(i, "creating")
-----------------------------------------------------------------------------
(* StreamManager.Create and Remove.                                         *)

\* StreamSession.Start reserves; refused, the handler reports and is done.
CreateReserves(i) ==
  /\ In(i, "none") /\ ManagerFree
  /\ lease = Nobody
  /\ lease' = i
  /\ session' = [session EXCEPT ![i].handler = "creating"]
  /\ UNCHANGED <<port, plugged, taken>>

\* The port opens, the loops start, the session is registered and the handler
\* starts the reader of the client's messages.
CreateOpens(i) ==
  /\ In(i, "creating")
  /\ plugged /\ port = Nobody
  /\ port' = i
  /\ session' = [session EXCEPT ![i].handler = "live", ![i].loop = "reading",
                                ![i].control = TRUE, ![i].messages = "reading"]
  /\ UNCHANGED <<lease, plugged, taken>>

\* Mutant: a failed open returns without giving the reservation back.
MutantCreateFails(i) ==
  /\ In(i, "creating")
  /\ session' = [session EXCEPT ![i] = NewSession]
  /\ taken' = taken \ {i}
  /\ UNCHANGED <<lease, port, plugged>>

\* DeviceRegistry.Release: only the owner on record gives a reservation back.
GiveBack(i) == lease' = IF lease = i THEN Nobody ELSE lease

CreateFails(i) ==
  /\ In(i, "creating")
  /\ GiveBack(i)
  /\ session' = [session EXCEPT ![i] = NewSession]
  /\ taken' = taken \ {i}
  /\ UNCHANGED <<port, plugged>>

\* The handler's deferred Remove: Close cancels and closes the port the session
\* has now, Release follows.  The connection is closed after it.
RemoveSession(i) ==
  /\ In(i, "leaving") /\ ManagerFree
  /\ port' = IF port = i THEN Nobody ELSE port
  /\ GiveBack(i)
  /\ session' = [session EXCEPT ![i].handler = "gone", ![i].cancelled = TRUE, ![i].client = "left"]
  /\ UNCHANGED <<plugged, taken>>
-----------------------------------------------------------------------------
(* readLoop.                                                                *)

\* Return from the loop: the deferred close of dataCh.
LoopEnds(i, s) == session' = [session EXCEPT ![i] = [s EXCEPT !.loop = "over", !.closed = TRUE]]

\* Mutant: dataCh stays open when the exit pattern was found.
MutantReadData(i) ==
  /\ Looping(i, "reading") /\ ~ session[i].cancelled /\ port = i /\ plugged
  /\ \/ session' = [session EXCEPT ![i].data = IF @ < DataCap THEN @ + 1 ELSE @]
     \/ session' = [session EXCEPT ![i].loop = "over", ![i].cancelled = TRUE]
  /\ UNCHANGED <<lease, port, plugged, taken>>

\* Output goes to dataCh, or nowhere when that is full; the exit pattern in it
\* cancels the session.
ReadData(i) ==
  LET s == [session[i] EXCEPT !.data = IF @ < DataCap THEN @ + 1 ELSE @]
  IN  /\ Looping(i, "reading") /\ ~ s.cancelled /\ port = i /\ plugged
      /\ \/ session' = [session EXCEPT ![i] = s]
         \/ LoopEnds(i, [s EXCEPT !.cancelled = TRUE])
      /\ UNCHANGED <<lease, port, plugged, taken>>

\* The context is looked at between two reads; EOF ends the loop as well.
ReadStops(i) ==
  /\ Looping(i, "reading") /\ (session[i].cancelled \/ ~ plugged)
  /\ LoopEnds(i, session[i])
  /\ UNCHANGED <<lease, port, plugged, taken>>

\* Any other error: the board is gone.
ReadFails(i) ==
  /\ Looping(i, "reading") /\ ~ session[i].cancelled /\ ~ plugged
  /\ session' = [session EXCEPT ![i].loop = "backoff", ![i].try = 1]
  /\ UNCHANGED <<lease, port, plugged, taken>>

\* The select of the back-off: a session cancelled meanwhile gives up, though
\* when the timer has fired too, either may be taken.
BackoffCancelled(i) ==
  /\ Looping(i, "backoff") /\ session[i].cancelled
  /\ LoopEnds(i, session[i])
  /\ UNCHANGED <<lease, port, plugged, taken>>

BackoffFires(i) ==
  /\ Looping(i, "backoff")
  /\ session' = [session EXCEPT ![i].loop = "opening"]
  /\ port' = IF port = i THEN Nobody ELSE port
  /\ UNCHANGED <<lease, plugged, taken>>

\* Nobody looks at the context or the reservation here.
Reopens(i) ==
  /\ Looping(i, "opening")
  /\ plugged /\ port = Nobody
  /\ port' = i
  /\ session' = [session EXCEPT ![i].loop = "reading", ![i].try = 0]
  /\ UNCHANGED <<lease, plugged, taken>>

ReopenFails(i) ==
  /\ Looping(i, "opening")
  /\ IF session[i].try < MaxTries
       THEN session' = [session EXCEPT ![i].loop = "backoff", ![i].try = @ + 1]
       ELSE LoopEnds(i, [session[i] EXCEPT !.error = TRUE, !.try = 0])
  /\ UNCHANGED <<lease, port, plugged, taken>>
-----------------------------------------------------------------------------
(* The handler: select over Data, the batch timer and Errors.               *)

Leaves(i, s) == session' = [session EXCEPT ![i] = [s EXCEPT !.handler = "leaving"]]

\* WriteJSON has no deadline: a client that stops reading blocks it.
CanWrite(i) == session[i].client # "stalled"

TakeData(i) ==
  /\ In(i, "live") /\ session[i].data > 0
  /\ session' = [session EXCEPT ![i].data = @ - 1, ![i].batch = TRUE]
  /\ UNCHANGED <<lease, port, plugged, taken>>

\* flushBatch, for a full batch or by the timer.  A write to a client that has
\* left fails, at the latest the second time.  gorilla panics when it finds two
\* writers at once: one of them, the handler or the reader that is replying.
FlushBatch(i) ==
  /\ In(i, "live") /\ session[i].batch /\ CanWrite(i)
  /\ \/ session' = [session EXCEPT ![i].batch = FALSE]
     \/ session[i].client = "left" /\ Leaves(i, session[i])
     \/ session[i].messages = "replying" /\ Leaves(i, session[i])
     \/ session[i].messages = "replying" /\ session' = [session EXCEPT ![i].messages = "over", ![i].batch = FALSE]
  /\ UNCHANGED <<lease, port, plugged, taken>>

DataEnds(i) ==
  /\ In(i, "live") /\ session[i].closed /\ session[i].data = 0
  /\ session[i].batch => CanWrite(i)
  /\ Leaves(i, [session[i] EXCEPT !.batch = FALSE])
  /\ UNCHANGED <<lease, port, plugged, taken>>

TakeError(i) ==
  /\ In(i, "live") /\ session[i].error /\ CanWrite(i)
  /\ Leaves(i, [session[i] EXCEPT !.batch = FALSE, !.error = FALSE])
  /\ UNCHANGED <<lease, port, plugged, taken>>
-----------------------------------------------------------------------------
(* handleMonitorMessages and controlLoop.                                   *)

Listening(i) == session[i].messages = "reading" /\ session[i].client # "left"

\* SendControl blocks on a full channel, unless the session is cancelled: then
\* the message may be dropped.
SendControl(i, msg, messages) ==
  \/ /\ Len(session[i].queue) < CtlCap
     /\ session' = [session EXCEPT ![i].queue = Append(@, msg), ![i].messages = messages]
  \/ /\ session[i].cancelled
     /\ session' = [session EXCEPT ![i].messages = messages]

ClientResets(i) ==
  /\ Listening(i) /\ SendControl(i, "reset", "replying")
  /\ UNCHANGED <<lease, port, plugged, taken>>

ClientCloses(i) ==
  /\ Listening(i) /\ SendControl(i, "close", "over")
  /\ UNCHANGED <<lease, port, plugged, taken>>

\* reset_complete is written, or fails without consequence.
Reply(i) ==
  /\ session[i].messages = "replying" /\ CanWrite(i)
  /\ session' = [session EXCEPT ![i].messages = "reading"]
  /\ UNCHANGED <<lease, port, plugged, taken>>

\* The read of the next message fails; the handler is not told.
MessagesEnd(i) ==
  /\ session[i].messages = "reading" /\ session[i].client = "left"
  /\ session' = [session EXCEPT ![i].messages = "over"]
  /\ UNCHANGED <<lease, port, plugged, taken>>

\* controlLoop: reset pulls the lines of the port, close cancels.
TakeControl(i) ==
  /\ session[i].control
  /\ \/ /\ session[i].queue # <<>>
        /\ session' = [session EXCEPT ![i].queue = Tail(@),
                         ![i].cancelled = @ \/ Head(session[i].queue) = "close",
                         ![i].control = Head(session[i].queue) # "close"]
     \/ session[i].cancelled /\ session' = [session EXCEPT ![i].control = FALSE]
  /\ UNCHANGED <<lease, port, plugged, taken>>
-----------------------------------------------------------------------------
(* The rest of the world.                                                   *)

ClientChanges(i, to) ==
  /\ In(i, "live") /\ session[i].client # "left" /\ session[i].client # to
  /\ session' = [session EXCEPT ![i].client = to]
  /\ UNCHANGED <<lease, port, plugged, taken>>

PlugChanges == plugged' = ~ plugged /\ UNCHANGED <<session, lease, port, taken>>

\* Expiry, the sweep for orphaned boards, or an anonymous DELETE.
LeaseTaken(i) ==
  /\ lease = i
  /\ lease' = Nobody
  /\ taken' = taken \cup {i}
  /\ UNCHANGED <<session, port, plugged>>

FlashReserves == lease = Nobody /\ lease' = Flash /\ UNCHANGED <<session, port, plugged, taken>>

FlashOpens ==
  /\ lease = Flash /\ port = Nobody /\ plugged
  /\ port' = Flash
  /\ UNCHANGED <<session, lease, plugged, taken>>

FlashEndsWork ==
  /\ lease = Flash
  /\ lease' = Nobody
  /\ port' = IF port = Flash THEN Nobody ELSE port
  /\ UNCHANGED <<session, plugged, taken>>
-----------------------------------------------------------------------------
MonInit ==
  /\ session = [i \in Sids |-> NewSession]
  /\ lease = Nobody /\ port = Nobody /\ plugged = TRUE /\ taken = {}

ReadLoop(i) ==
  ReadData(i) \/ ReadStops(i) \/ ReadFails(i) \/ BackoffCancelled(i) \/ BackoffFires(i)
    \/ Reopens(i) \/ ReopenFails(i)
Handler(i) ==
  CreateOpens(i) \/ CreateFails(i) \/ TakeData(i) \/ FlushBatch(i) \/ DataEnds(i) \/ TakeError(i)

MonNext ==
  \/ \E i \in Sids :
       \/ CreateReserves(i) \/ Handler(i) \/ RemoveSession(i) \/ ReadLoop(i) \/ TakeControl(i)
       \/ ClientResets(i) \/ ClientCloses(i) \/ Reply(i) \/ MessagesEnd(i)
       \/ \E to \in {"reads", "stalled", "left"} : ClientChanges(i, to)
       \/ LeaseTaken(i)
  \/ PlugChanges \/ FlashReserves \/ FlashOpens \/ FlashEndsWork

MonSpec == MonInit /\ [][MonNext]_monVars

\* The goroutines of a session run on, and the manager's mutex starves nobody.
\* Clients, boards and jobs owe nothing.
MonFairness ==
  \A i \in Sids : /\ WF_monVars(Handler(i)) /\ SF_monVars(RemoveSession(i))
                  /\ WF_monVars(ReadLoop(i)) /\ WF_monVars(TakeControl(i))

MonFairSpec == MonSpec /\ MonFairness
-----------------------------------------------------------------------------
(* Properties.                                                              *)

\* stream.go:20-26: the reservation belongs to a session exactly from before its
\* port opens until it is removed, unless it was taken away.
LeaseIsSession ==
  \A i \in Sids :
    LET served == session[i].handler \in {"creating", "live", "leaving"}
    IN  (lease = i => served) /\ (served => lease = i \/ i \in taken)

\* A session that was cancelled, by its exit pattern or by its client, is removed,
\* and with it the reservation, unless its client stops reading.
CancelledEnds ==
  \A i \in Sids : session[i].cancelled ~> In(i, "gone") \/ session[i].client = "stalled"

\* So is one whose board does not come back: the retries come to an end.
UnpluggedEnds ==
  \A i \in Sids : <>[](~ plugged /\ session[i].client # "stalled") => <>[](~ In(i, "live"))

\* A session ends in both of these cases, and gives its board back.
SessionEnds == CancelledEnds /\ UnpluggedEnds
=============================================================================
