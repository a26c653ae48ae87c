--------------------------- MODULE FlashProgress ---------------------------
(***************************************************************************)
(* The progress of flash and erase jobs on its way to WebSocket clients.   *)
(* On the leader the executor's progress goroutines (executor.go) and one  *)
(* streamer per job feed the broadcast channel of the hub                  *)
(* (internal/http/progress.go), which hands each message to the send       *)
(* channel of every subscriber of the job.                                 *)
(*                                                                         *)
(* The way of a job from the queue to a worker and back is JobDispatch's,  *)
(* the command that listens is FlashCommand.                               *)
(***************************************************************************)
EXTENDS Naturals, Sequences, SequencesExt

CONSTANTS Tracked,    \* jobs
          NoTrack,    \* no job
          Watchers,    \* WebSocket connections: the flash command, the UI
          HubCap,     \* places of broadcast: 100 in the code
          SendCap,    \* places of send (10 in the code) and the message in hand
          ReportCap   \* places of Progress and Phase: 10 each in the code

ASSUME ProgressAssumption ==
  /\ {HubCap, SendCap, ReportCap} \subseteq Nat \ {0}
  /\ NoTrack \notin Tracked

VARIABLES
  work,   \* where each job stands, its reports on their way to the hub, its streamer
  subs,   \* ProgressHub.subscribers
  room,   \* capacity of the array behind each slice of subs
  bcast,  \* ProgressHub.broadcast
  hub,    \* the hub goroutine: the message it hands out and its copy of the slice
  conn    \* the WebSocket connections, both ends

progVars == <<work, subs, room, bcast, hub, conn>>

Message == [job : Tracked, type : {"progress", "complete"}]
NoMsg == [job |-> NoTrack, type |-> "progress"]

WorkType ==
  [at : {"new", "queued", "running", "draining", "ended"}, reports : 0..ReportCap,
   streamer : {"off", "ticking", "announcing"}]
HubType == [msg : Message \cup {NoMsg}, slice : Seq(Watchers), next : Nat, shared : BOOLEAN]
ConnType ==
  [at : {"unused", "served", "gone"}, job : Tracked \cup {NoTrack},
   client : {"reads", "stalled", "left"}, send : Seq(Message), heard : {"progress", "complete"}]

ProgTypeOK ==
  /\ work \in [Tracked -> WorkType]
  /\ subs \in [Tracked -> Seq(Watchers)] /\ room \in [Tracked -> Nat]
  /\ \A j \in Tracked : Len(subs[j]) <= room[j]
  /\ bcast \in Seq(Message) /\ Len(bcast) <= HubCap
  /\ hub \in HubType /\ hub.next \in 1..Len(hub.slice) + 1
  /\ conn \in [Watchers -> ConnType] /\ \A c \in Watchers : Len(conn[c].send) <= SendCap
-----------------------------------------------------------------------------
(* The hub.                                                                 *)

\* BroadcastProgress and BroadcastComplete block while the channel is full.
Broadcast(j, type) ==
  /\ Len(bcast) < HubCap
  /\ bcast' = Append(bcast, [job |-> j, type |-> type])

NoTurn == [msg |-> NoMsg, slice |-> <<>>, next |-> 1, shared |-> FALSE]

\* run takes a message and, under the read lock, the slice of its job: the array
\* stays the one Subscribe and Unsubscribe write to.
HubTakes ==
  /\ hub.msg = NoMsg /\ bcast # <<>>
  /\ bcast' = Tail(bcast)
  /\ hub' = [msg |-> Head(bcast), slice |-> subs[Head(bcast).job], next |-> 1, shared |-> TRUE]
  /\ UNCHANGED <<work, subs, room, conn>>

\* One turn of the loop over the slice: sub.send <- msg, or sub.cancel is closed.
\* Either may be taken when both can; with neither the hub waits.
HubHands ==
  /\ hub.next \in DOMAIN hub.slice
  /\ LET c == hub.slice[hub.next]
     IN  \/ /\ Len(conn[c].send) < SendCap
            /\ conn' = [conn EXCEPT ![c].send = Append(@, hub.msg)]
         \/ conn[c].at = "gone" /\ UNCHANGED conn
  /\ hub' = [hub EXCEPT !.next = @ + 1]
  /\ UNCHANGED <<work, subs, room, bcast>>

HubDone ==
  /\ hub.msg # NoMsg /\ hub.next > Len(hub.slice)
  /\ hub' = NoTurn
  /\ UNCHANGED <<work, subs, room, bcast, conn>>

\* The array behind subs[j] is written as "cells" from position i on: so is the
\* hub's slice, as far as it reaches, while it is the same array.
ArrayWritten(j, i, cells) ==
  hub' = IF hub.msg.job = j /\ hub.shared
           THEN [hub EXCEPT !.slice =
                  [k \in DOMAIN @ |-> IF k \in i..i + Len(cells) - 1 THEN cells[k - i + 1] ELSE @[k]]]
           ELSE hub

\* Subscribe: append in place while there is room, else into an array twice as large.
Subscribe(c, j) ==
  LET n == Len(subs[j])
  IN  /\ subs' = [subs EXCEPT ![j] = Append(@, c)]
      /\ IF n < room[j]
           THEN ArrayWritten(j, n + 1, <<c>>) /\ UNCHANGED room
           ELSE /\ room' = [room EXCEPT ![j] = IF n = 0 THEN 1 ELSE 2 * n]
                /\ hub' = IF hub.msg.job = j THEN [hub EXCEPT !.shared = FALSE] ELSE hub

\* Mutant: the subscriber leaves the map, its cancel channel stays open.
MutantUnsubscribe(c) ==
  LET j == conn[c].job
      i == CHOOSE k \in DOMAIN subs[j] : subs[j][k] = c
  IN  /\ conn' = [conn EXCEPT ![c].at = "lost", ![c].client = "left"]
      /\ subs' = [subs EXCEPT ![j] = RemoveAt(@, i)]
      /\ ArrayWritten(j, i, SubSeq(subs[j], i + 1, Len(subs[j])))
      /\ room' = [room EXCEPT ![j] = IF Len(subs[j]) = 1 THEN 0 ELSE @]

\* Unsubscribe: cancel is closed, append(subs[:i], subs[i+1:]...) moves the rest
\* down within the array, and an empty slice is deleted.
Unsubscribe(c) ==
  LET j == conn[c].job
      i == CHOOSE k \in DOMAIN subs[j] : subs[j][k] = c
  IN  /\ conn' = [conn EXCEPT ![c].at = "gone", ![c].client = "left"]
      /\ subs' = [subs EXCEPT ![j] = RemoveAt(@, i)]
      /\ ArrayWritten(j, i, SubSeq(subs[j], i + 1, Len(subs[j])))
      /\ room' = [room EXCEPT ![j] = IF Len(subs[j]) = 1 THEN 0 ELSE @]
-----------------------------------------------------------------------------
(* handleProgressWebSocket.                                                 *)

\* The job exists; the subscription precedes the "init" message, whose write
\* may fail unnoticed.
Joins(c, j) ==
  /\ conn[c].at = "unused" /\ work[j].at # "new"
  /\ conn' = [conn EXCEPT ![c].at = "served", ![c].job = j]
  /\ Subscribe(c, j)
  /\ UNCHANGED <<work, bcast>>

Served(c) == conn[c].at = "served" /\ conn[c].send # <<>>

\* The next message of send reaches the client or is lost with it.  WriteJSON has
\* no deadline: it blocks while the client does not read.
HandlerWrites(c) ==
  /\ Served(c) /\ conn[c].client # "stalled"
  /\ conn' = [conn EXCEPT ![c].send = Tail(@),
               ![c].heard = IF conn[c].client = "reads" THEN Head(conn[c].send).type ELSE @]
  /\ UNCHANGED <<work, subs, room, bcast, hub>>

\* The write to a client that has left fails, now or later: the handler returns.
\* Without another message it waits for ever: nobody closes send.
HandlerFails(c) ==
  /\ Served(c) /\ conn[c].client = "left"
  /\ Unsubscribe(c)
  /\ UNCHANGED <<work, bcast>>
-----------------------------------------------------------------------------
(* The job: executor.go and StartProgressStreamer.                          *)

JobEnqueued(j) ==
  /\ work[j].at = "new"
  /\ work' = [work EXCEPT ![j].at = "queued", ![j].streamer = "ticking"]
  /\ UNCHANGED <<subs, room, bcast, hub, conn>>

\* A job that is cancelled stays where it is, and executeJob sets its status again:
\* cancelling changes nothing here.
WorkStarts(j) ==
  /\ work[j].at = "queued"
  /\ work' = [work EXCEPT ![j].at = "running"]
  /\ UNCHANGED <<subs, room, bcast, hub, conn>>

\* The flasher reports a percentage or a phase, or drops it when nobody takes it.
FlasherReports(j) ==
  /\ work[j].at = "running" /\ work[j].reports < ReportCap
  /\ work' = [work EXCEPT ![j].reports = @ + 1]
  /\ UNCHANGED <<subs, room, bcast, hub, conn>>

\* The goroutines of executeFlash and executeErase: progressCB is BroadcastProgress.
ForwardReport(j) ==
  /\ work[j].reports > 0
  /\ Broadcast(j, "progress")
  /\ work' = [work EXCEPT ![j].reports = @ - 1]
  /\ UNCHANGED <<subs, room, hub, conn>>

\* Flash or EraseFlash returned: Progress and Phase are closed ...
FlashReturned(j) ==
  /\ work[j].at = "running"
  /\ work' = [work EXCEPT ![j].at = "draining"]
  /\ UNCHANGED <<subs, room, bcast, hub, conn>>

\* Mutant: the worker does not wait for the goroutines.
MutantWorkEnds(j) ==
  /\ work[j].at = "draining"
  /\ work' = [work EXCEPT ![j].at = "ended"]
  /\ UNCHANGED <<subs, room, bcast, hub, conn>>

\* ... and the worker waits until their goroutines are through before it sets
\* the status to "completed" or "failed", whatever it was.
WorkEnds(j) ==
  /\ work[j].at = "draining" /\ work[j].reports = 0
  /\ work' = [work EXCEPT ![j].at = "ended"]
  /\ UNCHANGED <<subs, room, bcast, hub, conn>>

\* A tick of the streamer; one that finds "completed" or "failed" is the last.
StreamerTicks(j) ==
  /\ work[j].streamer = "ticking"
  /\ Broadcast(j, "progress")
  /\ work' = [work EXCEPT ![j].streamer = IF work[j].at = "ended" THEN "announcing" ELSE @]
  /\ UNCHANGED <<subs, room, hub, conn>>

StreamerAnnounces(j) ==
  /\ work[j].streamer = "announcing"
  /\ Broadcast(j, "complete")
  /\ work' = [work EXCEPT ![j].streamer = "off"]
  /\ UNCHANGED <<subs, room, hub, conn>>
-----------------------------------------------------------------------------
\* A client stalls, reads on or leaves: for good, or because it heard the end.
ViewerChanges(c, to) ==
  /\ conn[c].at = "served" /\ conn[c].client \notin {"left", to}
  /\ conn' = [conn EXCEPT ![c].client = to]
  /\ UNCHANGED <<work, subs, room, bcast, hub>>

ProgInit ==
  /\ work = [j \in Tracked |-> [at |-> "new", reports |-> 0, streamer |-> "off"]]
  /\ subs = [j \in Tracked |-> <<>>] /\ room = [j \in Tracked |-> 0]
  /\ bcast = <<>> /\ hub = NoTurn
  /\ conn = [c \in Watchers |-> [at |-> "unused", job |-> NoTrack, client |-> "reads", send |-> <<>>,
                                heard |-> "progress"]]

HubRuns == HubTakes \/ HubHands \/ HubDone
HandlerRuns(c) == HandlerWrites(c) \/ HandlerFails(c)
WorkerRuns(j) == WorkStarts(j) \/ FlashReturned(j) \/ WorkEnds(j)
StreamerRuns(j) == StreamerTicks(j) \/ StreamerAnnounces(j)

ProgNext ==
  \/ HubRuns
  \/ \E c \in Watchers : HandlerRuns(c) \/ \E to \in {"reads", "stalled", "left"} : ViewerChanges(c, to)
  \/ \E j \in Tracked :
       \/ JobEnqueued(j) \/ WorkerRuns(j)
       \/ FlasherReports(j) \/ ForwardReport(j) \/ StreamerRuns(j)
       \/ \E c \in Watchers : Joins(c, j)

ProgSpec == ProgInit /\ [][ProgNext]_progVars

\* The goroutines of the leader run on, a flash ends (EspFlash), and a full
\* broadcast channel serves its senders in turn.  Clients owe nothing.
ProgFairness ==
  /\ WF_progVars(HubRuns)
  /\ \A c \in Watchers : WF_progVars(HandlerRuns(c))
  /\ \A j \in Tracked : /\ WF_progVars(WorkerRuns(j)) /\ SF_progVars(ForwardReport(j))
                        /\ SF_progVars(StreamerRuns(j))

ProgFairSpec == ProgSpec /\ ProgFairness
-----------------------------------------------------------------------------
(* Properties.                                                              *)

\* What a client is sent of a job ends with its completion: no progress report
\* follows, although the streamer and two goroutines of the worker send them.
OrderKept ==
  \A c \in Watchers :
    LET sent == <<conn[c].heard>> \o [i \in DOMAIN conn[c].send |-> conn[c].send[i].type]
    IN  \A i, k \in DOMAIN sent : i < k /\ sent[i] = "complete" => sent[k] = "complete"

\* A running job ends whoever watches it, unless a client stops reading without
\* leaving: that one blocks the hub, the hub the reports, and they the worker.
WatchedJobEnds ==
  \A j \in Tracked :
    work[j].at = "running" ~> work[j].at = "ended" \/ \E c \in Watchers : conn[c].client = "stalled"
=============================================================================
