---------------------------- MODULE SerialProofs ----------------------------
(***************************************************************************)
(* What a leader does on the serial port of a board: which monitor session *)
(* its reservation belongs to, what SnapSession guarantees of an image, for*)
(* every number of sessions, every size of a dump, every output and every  *)
(* capacity of the channels; and the types of these, of the flash protocol *)
(* and of application images together.                                     *)
(***************************************************************************)
EXTENDS MCSerial, AppImageProofs, EspFlashProofs

Holding == {"creating", "live", "leaving"}
Everyone == Sids \cup {Flash, Nobody}

\* A session takes its next state, and is served before and after.
GoesOn(i) ==
  \E s \in SessionType :
    /\ session' = [session EXCEPT ![i] = s]
    /\ Len(s.queue) <= CtlCap
    /\ s.handler \in Holding <=> session[i].handler \in Holding

MonInv == MonTypeOK /\ LeaseIsSession

LEMMA Owners ==
  /\ Flash \notin Sids /\ Nobody \notin Sids /\ Flash # Nobody
  /\ MaxTries \in Nat /\ MaxTries > 0 /\ DataCap \in Nat /\ DataCap > 0 /\ CtlCap \in Nat /\ CtlCap > 0
  BY MonitorAssumption DEF MonitorAssumption

\* The lease stays with the sessions that are served.
LEMMA SessionGoesOn ==
  ASSUME MonInv, NEW i \in Sids, GoesOn(i), UNCHANGED <<lease, taken>>,
         port' \in Everyone, plugged' \in BOOLEAN
  PROVE  MonInv'
<1>1. PICK s \in SessionType : /\ session' = [session EXCEPT ![i] = s] /\ Len(s.queue) <= CtlCap
                               /\ s.handler \in Holding <=> session[i].handler \in Holding
  BY DEF GoesOn
<1>2. /\ session' \in [Sids -> SessionType] /\ session'[i] = s
      /\ \A j \in Sids : j # i => session'[j] = session[j]
  BY <1>1 DEF MonInv, MonTypeOK
<1>3. MonTypeOK'
  BY <1>1, <1>2 DEF MonInv, MonTypeOK, Everyone
<1>4. \A j \in Sids : session'[j].handler \in Holding <=> session[j].handler \in Holding
  BY <1>1, <1>2
<1>5. LeaseIsSession'
  BY <1>4 DEF MonInv, LeaseIsSession, Holding
<1>6. QED
  BY <1>3, <1>5 DEF MonInv

LEMMA SessionTyped ==
  ASSUME MonInv, NEW i \in Sids
  PROVE  /\ session[i] \in SessionType /\ session \in [Sids -> SessionType]
         /\ session[i].try \in 0..MaxTries /\ session[i].data \in 0..DataCap
         /\ session[i].queue \in Seq({"reset", "close"}) /\ Len(session[i].queue) <= CtlCap
  BY DEF MonInv, MonTypeOK, SessionType

\* What a step makes of the session, given as a whole.
LEMMA TurnGoesOn ==
  ASSUME NEW i \in Sids, NEW s \in SessionType, session' = [session EXCEPT ![i] = s],
         Len(s.queue) <= CtlCap, s.handler \in Holding, session[i].handler \in Holding
  PROVE  GoesOn(i)
  BY DEF GoesOn

LEMMA LoopStep == ASSUME MonInv, NEW i \in Sids, ReadLoop(i) PROVE MonInv'
<1>1. /\ session[i] \in SessionType /\ session \in [Sids -> SessionType]
      /\ session[i].try \in 0..MaxTries /\ session[i].data \in 0..DataCap /\ Len(session[i].queue) <= CtlCap
  BY SessionTyped
<1>2. port \in Everyone /\ plugged \in BOOLEAN /\ Nobody \in Everyone /\ i \in Everyone
  BY DEF MonInv, MonTypeOK, Everyone
<1>3. \E s \in SessionType : /\ session' = [session EXCEPT ![i] = s]
                             /\ s.queue = session[i].queue /\ s.handler = session[i].handler
  <2>1. CASE ReadData(i)
    <3>1. PICK n \in 0..DataCap : n = IF session[i].data < DataCap THEN session[i].data + 1 ELSE session[i].data
      BY <1>1, Owners
    <3>2. PICK s : s = [session[i] EXCEPT !.data = n]
      OBVIOUS
    <3>3. s \in SessionType /\ s.queue = session[i].queue /\ s.handler = session[i].handler
      BY <1>1, <3>1, <3>2 DEF SessionType
    <3>4. PICK t : t = [s EXCEPT !.cancelled = TRUE, !.loop = "over", !.closed = TRUE]
      OBVIOUS
    <3>5. t \in SessionType /\ t.queue = s.queue /\ t.handler = s.handler
      BY <3>3, <3>4 DEF SessionType
    <3>6. session' = [session EXCEPT ![i] = s] \/ session' = [session EXCEPT ![i] = t]
      BY <1>1, <2>1, <3>1, <3>2, <3>3, <3>4 DEF ReadData, LoopEnds, SessionType
    <3>7. QED
      BY <3>3, <3>5, <3>6
  <2>2. CASE LoopEnds(i, session[i])
    <3>1. PICK s : s = [session[i] EXCEPT !.loop = "over", !.closed = TRUE]
      OBVIOUS
    <3>2. s \in SessionType /\ s.queue = session[i].queue /\ s.handler = session[i].handler
      BY <1>1, <3>1 DEF SessionType
    <3>3. QED
      BY <2>2, <3>1, <3>2 DEF LoopEnds
  <2>3. CASE session' = [session EXCEPT ![i].loop = "backoff", ![i].try = 1]
    <3>1. PICK s : s = [session[i] EXCEPT !.loop = "backoff", !.try = 1]
      OBVIOUS
    <3>2. 1 \in 0..MaxTries
      BY Owners
    <3>3. s \in SessionType /\ s.queue = session[i].queue /\ s.handler = session[i].handler
      BY <1>1, <3>1, <3>2 DEF SessionType
    <3>4. session' = [session EXCEPT ![i] = s]
      BY <1>1, <2>3, <3>1
    <3>5. QED
      BY <3>3, <3>4
  <2>4. CASE session' = [session EXCEPT ![i].loop = "opening"]
    <3>1. PICK s : s = [session[i] EXCEPT !.loop = "opening"]
      OBVIOUS
    <3>2. s \in SessionType /\ s.queue = session[i].queue /\ s.handler = session[i].handler
      BY <1>1, <3>1 DEF SessionType
    <3>3. session' = [session EXCEPT ![i] = s]
      BY <1>1, <2>4, <3>1
    <3>4. QED
      BY <3>2, <3>3
  <2>5. CASE session' = [session EXCEPT ![i].loop = "reading", ![i].try = 0]
    <3>1. PICK s : s = [session[i] EXCEPT !.loop = "reading", !.try = 0]
      OBVIOUS
    <3>2. 0 \in 0..MaxTries
      BY Owners
    <3>3. s \in SessionType /\ s.queue = session[i].queue /\ s.handler = session[i].handler
      BY <1>1, <3>1, <3>2 DEF SessionType
    <3>4. session' = [session EXCEPT ![i] = s]
      BY <1>1, <2>5, <3>1
    <3>5. QED
      BY <3>3, <3>4
  <2>6. CASE session[i].try < MaxTries /\ session' = [session EXCEPT ![i].loop = "backoff", ![i].try = @ + 1]
    <3>1. PICK n \in 0..MaxTries : n = session[i].try + 1
      BY <1>1, <2>6, Owners
    <3>2. PICK s : s = [session[i] EXCEPT !.loop = "backoff", !.try = n]
      OBVIOUS
    <3>3. s \in SessionType /\ s.queue = session[i].queue /\ s.handler = session[i].handler
      BY <1>1, <3>1, <3>2 DEF SessionType
    <3>4. session' = [session EXCEPT ![i] = s]
      BY <1>1, <2>6, <3>1, <3>2
    <3>5. QED
      BY <3>3, <3>4
  <2>7. CASE LoopEnds(i, [session[i] EXCEPT !.error = TRUE, !.try = 0])
    <3>1. PICK s : s = [session[i] EXCEPT !.error = TRUE, !.try = 0, !.loop = "over", !.closed = TRUE]
      OBVIOUS
    <3>2. 0 \in 0..MaxTries
      BY Owners
    <3>3. s \in SessionType /\ s.queue = session[i].queue /\ s.handler = session[i].handler
      BY <1>1, <3>1, <3>2 DEF SessionType
    <3>4. session' = [session EXCEPT ![i] = s]
      BY <1>1, <2>7, <3>1 DEF LoopEnds, SessionType
    <3>5. QED
      BY <3>3, <3>4
  <2>8. QED
    BY <2>1, <2>2, <2>3, <2>4, <2>5, <2>6, <2>7
       DEF ReadLoop, ReadStops, ReadFails, BackoffCancelled, BackoffFires, Reopens, ReopenFails
<1>4. GoesOn(i)
  BY <1>1, <1>3 DEF GoesOn
<1>5. UNCHANGED <<lease, plugged, taken>> /\ port' \in {port, Nobody, i}
  BY DEF ReadLoop, ReadData, ReadStops, ReadFails, BackoffCancelled, BackoffFires, Reopens, ReopenFails
<1>6. QED
  BY <1>2, <1>4, <1>5, SessionGoesOn

LEMMA HandlerStep ==
  ASSUME MonInv, NEW i \in Sids, TakeData(i) \/ FlushBatch(i) \/ DataEnds(i) \/ TakeError(i)
  PROVE  MonInv'
<1>1. /\ session[i] \in SessionType /\ session \in [Sids -> SessionType]
      /\ session[i].data \in 0..DataCap /\ Len(session[i].queue) <= CtlCap
  BY SessionTyped
<1>2. session[i].handler \in Holding /\ UNCHANGED <<lease, port, plugged, taken>>
  BY DEF TakeData, FlushBatch, DataEnds, TakeError, In, Holding
<1>3. \E s \in SessionType : /\ session' = [session EXCEPT ![i] = s]
                             /\ s.queue = session[i].queue /\ s.handler \in Holding
  <2>1. CASE TakeData(i)
    <3>1. PICK n \in 0..DataCap : n = session[i].data - 1
      BY <1>1, <2>1, Owners DEF TakeData
    <3>2. PICK s : s = [session[i] EXCEPT !.data = n, !.batch = TRUE]
      OBVIOUS
    <3>3. s \in SessionType /\ s.queue = session[i].queue /\ s.handler = session[i].handler
      BY <1>1, <3>1, <3>2 DEF SessionType
    <3>4. session' = [session EXCEPT ![i] = s]
      BY <1>1, <2>1, <3>1, <3>2 DEF TakeData
    <3>5. QED
      BY <1>2, <3>3, <3>4
  <2>2. CASE session' = [session EXCEPT ![i].batch = FALSE]
    <3>1. PICK s : s = [session[i] EXCEPT !.batch = FALSE]
      OBVIOUS
    <3>2. s \in SessionType /\ s.queue = session[i].queue /\ s.handler = session[i].handler
      BY <1>1, <3>1 DEF SessionType
    <3>3. session' = [session EXCEPT ![i] = s]
      BY <1>1, <2>2, <3>1
    <3>4. QED
      BY <1>2, <3>2, <3>3
  <2>3. CASE session' = [session EXCEPT ![i].messages = "over", ![i].batch = FALSE]
    <3>1. PICK s : s = [session[i] EXCEPT !.messages = "over", !.batch = FALSE]
      OBVIOUS
    <3>2. s \in SessionType /\ s.queue = session[i].queue /\ s.handler = session[i].handler
      BY <1>1, <3>1 DEF SessionType
    <3>3. session' = [session EXCEPT ![i] = s]
      BY <1>1, <2>3, <3>1
    <3>4. QED
      BY <1>2, <3>2, <3>3
  <2>4. ASSUME NEW r \in SessionType, r.queue = session[i].queue, Leaves(i, r)
        PROVE  \E s \in SessionType : /\ session' = [session EXCEPT ![i] = s]
                                      /\ s.queue = session[i].queue /\ s.handler \in Holding
    <3>1. PICK s : s = [r EXCEPT !.handler = "leaving"]
      OBVIOUS
    <3>2. s \in SessionType /\ s.queue = r.queue /\ s.handler \in Holding
      BY <3>1 DEF SessionType, Holding
    <3>3. QED
      BY <2>4, <3>1, <3>2 DEF Leaves
  <2>5. PICK r, q : r = [session[i] EXCEPT !.batch = FALSE] /\ q = [session[i] EXCEPT !.batch = FALSE, !.error = FALSE]
    OBVIOUS
  <2>6. r \in SessionType /\ q \in SessionType /\ r.queue = session[i].queue /\ q.queue = session[i].queue
    BY <1>1, <2>5 DEF SessionType
  <2>7. CASE Leaves(i, session[i]) \/ Leaves(i, r) \/ Leaves(i, q)
    BY <1>1, <2>4, <2>6, <2>7
  <2>8. QED
    BY <2>1, <2>2, <2>3, <2>5, <2>7 DEF FlushBatch, DataEnds, TakeError
<1>4. GoesOn(i)
  BY <1>1, <1>2, <1>3 DEF GoesOn
<1>5. port' \in Everyone /\ plugged' \in BOOLEAN
  BY <1>2 DEF MonInv, MonTypeOK, Everyone
<1>6. QED
  BY <1>2, <1>4, <1>5, SessionGoesOn

LEMMA ClientStep ==
  ASSUME MonInv, NEW i \in Sids,
         \/ ClientResets(i) \/ ClientCloses(i) \/ Reply(i) \/ MessagesEnd(i)
         \/ \E to \in {"reads", "stalled", "left"} : ClientChanges(i, to)
  PROVE  MonInv'
<1>1. /\ session[i] \in SessionType /\ session \in [Sids -> SessionType]
      /\ session[i].queue \in Seq({"reset", "close"}) /\ Len(session[i].queue) <= CtlCap
  BY SessionTyped
<1>2. UNCHANGED <<lease, port, plugged, taken>>
  BY DEF ClientResets, ClientCloses, Reply, MessagesEnd, ClientChanges
<1>3. \E s \in SessionType : /\ session' = [session EXCEPT ![i] = s]
                             /\ Len(s.queue) <= CtlCap /\ s.handler = session[i].handler
  <2>1. ASSUME NEW messages \in {"replying", "over", "reading"},
               session' = [session EXCEPT ![i].messages = messages]
        PROVE  \E s \in SessionType : /\ session' = [session EXCEPT ![i] = s]
                                      /\ Len(s.queue) <= CtlCap /\ s.handler = session[i].handler
    <3>1. PICK s : s = [session[i] EXCEPT !.messages = messages]
      OBVIOUS
    <3>2. s \in SessionType /\ s.queue = session[i].queue /\ s.handler = session[i].handler
      BY <1>1, <3>1 DEF SessionType
    <3>3. session' = [session EXCEPT ![i] = s]
      BY <1>1, <2>1, <3>1
    <3>4. QED
      BY <1>1, <3>2, <3>3
  <2>2. ASSUME NEW msg \in {"reset", "close"}, NEW messages \in {"replying", "over"}, SendControl(i, msg, messages)
        PROVE  \E s \in SessionType : /\ session' = [session EXCEPT ![i] = s]
                                      /\ Len(s.queue) <= CtlCap /\ s.handler = session[i].handler
    <3>1. CASE session' = [session EXCEPT ![i].messages = messages]
      BY <2>1, <3>1
    <3>2. CASE /\ Len(session[i].queue) < CtlCap
               /\ session' = [session EXCEPT ![i].queue = Append(@, msg), ![i].messages = messages]
      <4>1. PICK q : q = Append(session[i].queue, msg)
        OBVIOUS
      <4>2. q \in Seq({"reset", "close"}) /\ Len(q) = Len(session[i].queue) + 1 /\ Len(session[i].queue) \in Nat
        BY <1>1, <4>1, AppendProperties, LenProperties
      <4>3. Len(q) <= CtlCap
        BY <3>2, <4>2, Owners
      <4>4. PICK s : s = [session[i] EXCEPT !.queue = q, !.messages = messages]
        OBVIOUS
      <4>5. s \in SessionType /\ s.queue = q /\ s.handler = session[i].handler
        BY <1>1, <4>2, <4>4 DEF SessionType
      <4>6. session' = [session EXCEPT ![i] = s]
        BY <1>1, <3>2, <4>1, <4>4
      <4>7. QED
        BY <4>3, <4>5, <4>6
    <3>3. QED
      BY <2>2, <3>1, <3>2 DEF SendControl
  <2>3. ASSUME NEW to \in {"reads", "stalled", "left"}, ClientChanges(i, to)
        PROVE  \E s \in SessionType : /\ session' = [session EXCEPT ![i] = s]
                                      /\ Len(s.queue) <= CtlCap /\ s.handler = session[i].handler
    <3>1. PICK s : s = [session[i] EXCEPT !.client = to]
      OBVIOUS
    <3>2. s \in SessionType /\ s.queue = session[i].queue /\ s.handler = session[i].handler
      BY <1>1, <3>1 DEF SessionType
    <3>3. session' = [session EXCEPT ![i] = s]
      BY <1>1, <2>3, <3>1 DEF ClientChanges
    <3>4. QED
      BY <1>1, <3>2, <3>3
  <2>4. QED
    BY <2>1, <2>2, <2>3 DEF ClientResets, ClientCloses, Reply, MessagesEnd
<1>4. GoesOn(i)
  BY <1>3 DEF GoesOn
<1>5. port' \in Everyone /\ plugged' \in BOOLEAN
  BY <1>2 DEF MonInv, MonTypeOK, Everyone
<1>6. QED
  BY <1>2, <1>4, <1>5, SessionGoesOn

LEMMA ControlStep == ASSUME MonInv, NEW i \in Sids, TakeControl(i) PROVE MonInv'
<1>1. /\ session[i] \in SessionType /\ session \in [Sids -> SessionType]
      /\ session[i].queue \in Seq({"reset", "close"}) /\ Len(session[i].queue) <= CtlCap
      /\ session[i].cancelled \in BOOLEAN
  BY SessionTyped DEF SessionType
<1>2. UNCHANGED <<lease, port, plugged, taken>>
  BY DEF TakeControl
<1>3. \E s \in SessionType : /\ session' = [session EXCEPT ![i] = s]
                             /\ Len(s.queue) <= CtlCap /\ s.handler = session[i].handler
  <2>1. CASE /\ session[i].queue # <<>>
             /\ session' = [session EXCEPT ![i].queue = Tail(@),
                              ![i].cancelled = @ \/ Head(session[i].queue) = "close",
                              ![i].control = Head(session[i].queue) # "close"]
    <3>1. PICK q : q = Tail(session[i].queue)
      OBVIOUS
    <3>2. q \in Seq({"reset", "close"}) /\ Len(q) = Len(session[i].queue) - 1 /\ Len(session[i].queue) \in Nat
      BY <1>1, <2>1, <3>1, HeadTailProperties, LenProperties
    <3>3. Len(q) <= CtlCap
      BY <1>1, <3>2, Owners
    <3>4. PICK a, b \in BOOLEAN : /\ a = (session[i].cancelled \/ Head(session[i].queue) = "close")
                                  /\ b = (Head(session[i].queue) # "close")
      BY <1>1
    <3>5. PICK s : s = [session[i] EXCEPT !.queue = q, !.cancelled = a, !.control = b]
      OBVIOUS
    <3>6. s \in SessionType /\ s.queue = q /\ s.handler = session[i].handler
      BY <1>1, <3>2, <3>5 DEF SessionType
    <3>7. session' = [session EXCEPT ![i] = s]
      BY <1>1, <2>1, <3>1, <3>4, <3>5
    <3>8. QED
      BY <3>3, <3>6, <3>7
  <2>2. CASE session' = [session EXCEPT ![i].control = FALSE]
    <3>1. PICK s : s = [session[i] EXCEPT !.control = FALSE]
      OBVIOUS
    <3>2. s \in SessionType /\ s.queue = session[i].queue /\ s.handler = session[i].handler
      BY <1>1, <3>1 DEF SessionType
    <3>3. session' = [session EXCEPT ![i] = s]
      BY <1>1, <2>2, <3>1
    <3>4. QED
      BY <1>1, <3>2, <3>3
  <2>3. QED
    BY <2>1, <2>2 DEF TakeControl
<1>4. GoesOn(i)
  BY <1>3 DEF GoesOn
<1>5. port' \in Everyone /\ plugged' \in BOOLEAN
  BY <1>2 DEF MonInv, MonTypeOK, Everyone
<1>6. QED
  BY <1>2, <1>4, <1>5, SessionGoesOn

\* The steps that open or end a session, or give its reservation back.
LEMMA ManagerStep ==
  ASSUME MonInv, NEW i \in Sids, CreateReserves(i) \/ CreateOpens(i) \/ CreateFails(i) \/ RemoveSession(i)
  PROVE  MonInv'
<1>1. /\ session[i] \in SessionType /\ session \in [Sids -> SessionType]
      /\ session[i].queue \in Seq({"reset", "close"}) /\ Len(session[i].queue) <= CtlCap
  BY SessionTyped
<1>2. /\ port \in Everyone /\ plugged \in BOOLEAN /\ lease \in Everyone /\ taken \subseteq Sids
      /\ Nobody \in Everyone /\ i \in Everyone /\ Nobody \notin Sids
  BY Owners DEF MonInv, MonTypeOK, Everyone
<1>3. CASE CreateReserves(i)
  <2>1. PICK s : s = [session[i] EXCEPT !.handler = "creating"]
    OBVIOUS
  <2>2. s \in SessionType /\ s.queue = session[i].queue /\ s.handler \in Holding
    BY <1>1, <2>1 DEF SessionType, Holding
  <2>3. session' = [session EXCEPT ![i] = s] /\ lease = Nobody /\ lease' = i /\ UNCHANGED <<port, plugged, taken>>
    BY <1>1, <1>3, <2>1 DEF CreateReserves
  <2>4. /\ session' \in [Sids -> SessionType] /\ session'[i] = s
        /\ \A j \in Sids : j # i => session'[j] = session[j]
    BY <1>1, <2>2, <2>3
  <2>5. MonTypeOK'
    BY <1>1, <1>2, <2>2, <2>3, <2>4 DEF MonInv, MonTypeOK, Everyone
  <2>6. LeaseIsSession'
    BY <1>2, <2>2, <2>3, <2>4 DEF MonInv, LeaseIsSession, Holding
  <2>7. QED
    BY <2>5, <2>6 DEF MonInv
<1>4. CASE CreateOpens(i)
  <2>1. PICK s : s = [session[i] EXCEPT !.handler = "live", !.loop = "reading", !.control = TRUE,
                                        !.messages = "reading"]
    OBVIOUS
  <2>2. s \in SessionType /\ s.queue = session[i].queue /\ s.handler \in Holding
    BY <1>1, <2>1 DEF SessionType, Holding
  <2>3. session' = [session EXCEPT ![i] = s]
    BY <1>1, <1>4, <2>1 DEF CreateOpens
  <2>4. session[i].handler \in Holding /\ UNCHANGED <<lease, taken, plugged>> /\ port' = i
    BY <1>4 DEF CreateOpens, In, Holding
  <2>5. GoesOn(i)
    BY <1>1, <2>2, <2>3, <2>4 DEF GoesOn
  <2>6. QED
    BY <1>2, <2>4, <2>5, SessionGoesOn
<1>5. ASSUME NEW s \in SessionType, session' = [session EXCEPT ![i] = s], Len(s.queue) <= CtlCap,
             s.handler \notin Holding, GiveBack(i), taken' \in {taken, taken \ {i}},
             port' \in Everyone, plugged' = plugged
      PROVE  MonInv'
  <2>1. /\ session' \in [Sids -> SessionType] /\ session'[i] = s
        /\ \A j \in Sids : j # i => session'[j] = session[j]
    BY <1>1, <1>5
  <2>2. lease' # i /\ lease' \in {lease, Nobody} /\ \A j \in Sids : j # i => (lease' = j <=> lease = j)
    BY <1>2, <1>5 DEF GiveBack
  <2>3. MonTypeOK'
    BY <1>2, <1>5, <2>1, <2>2 DEF MonInv, MonTypeOK, Everyone
  <2>4. LeaseIsSession'
    BY <1>5, <2>1, <2>2 DEF MonInv, LeaseIsSession, Holding
  <2>5. QED
    BY <2>3, <2>4 DEF MonInv
<1>6. CASE CreateFails(i)
  <2>1. <<>> \in Seq({"reset", "close"}) /\ Len(<<>>) = 0
    BY EmptySeq
  <2>2. NewSession \in SessionType /\ Len(NewSession.queue) <= CtlCap /\ NewSession.handler \notin Holding
    BY <2>1, Owners DEF NewSession, SessionType, Holding
  <2>3. QED
    BY <1>2, <1>5, <1>6, <2>2 DEF CreateFails
<1>7. CASE RemoveSession(i)
  <2>1. PICK s : s = [session[i] EXCEPT !.handler = "gone", !.cancelled = TRUE, !.client = "left"]
    OBVIOUS
  <2>2. s \in SessionType /\ s.queue = session[i].queue /\ s.handler \notin Holding
    BY <1>1, <2>1 DEF SessionType, Holding
  <2>3. session' = [session EXCEPT ![i] = s]
    BY <1>1, <1>7, <2>1 DEF RemoveSession
  <2>4. GiveBack(i) /\ port' \in Everyone /\ taken' = taken /\ plugged' = plugged
    BY <1>2, <1>7 DEF RemoveSession
  <2>5. QED
    BY <1>1, <1>5, <2>2, <2>3, <2>4
<1>8. QED
  BY <1>3, <1>4, <1>6, <1>7

LEMMA WorldStep ==
  ASSUME MonInv, \/ \E i \in Sids : LeaseTaken(i)
                 \/ PlugChanges \/ FlashReserves \/ FlashOpens \/ FlashEndsWork \/ UNCHANGED monVars
  PROVE  MonInv'
<1>1. /\ session' = session
      /\ \/ UNCHANGED <<lease, taken>>
         \/ \E i \in Sids : lease = i /\ lease' = Nobody /\ taken' = taken \cup {i}
         \/ lease \in {Nobody, Flash} /\ lease' \in {Nobody, Flash} /\ UNCHANGED taken
  BY DEF LeaseTaken, PlugChanges, FlashReserves, FlashOpens, FlashEndsWork, monVars
<1>2. port' \in Everyone /\ plugged' \in BOOLEAN
  BY DEF LeaseTaken, PlugChanges, FlashReserves, FlashOpens, FlashEndsWork, monVars, MonInv, MonTypeOK, Everyone
<1>3. MonTypeOK'
  BY <1>1, <1>2 DEF MonInv, MonTypeOK, Everyone
<1>4. LeaseIsSession'
  BY <1>1, Owners DEF MonInv, LeaseIsSession
<1>5. QED
  BY <1>3, <1>4 DEF MonInv

LEMMA MonInitInv == MonInit => MonInv
<1>1. <<>> \in Seq({"reset", "close"}) /\ Len(<<>>) = 0
  BY EmptySeq
<1>2. NewSession \in SessionType /\ Len(NewSession.queue) <= CtlCap /\ NewSession.handler = "none"
  BY <1>1, Owners DEF NewSession, SessionType
<1>3. QED
  BY <1>2, Owners DEF MonInit, MonInv, MonTypeOK, LeaseIsSession

LEMMA MonStep == MonInv /\ [MonNext]_monVars => MonInv'
  BY LoopStep, HandlerStep, ClientStep, ControlStep, ManagerStep, WorldStep DEF MonNext, Handler

LEMMA MonInvariant == MonSpec => []MonInv
  BY MonInitInv, MonStep, PTL DEF MonSpec

\* Type correctness of the monitor sessions.
THEOREM MonitorTypes == MonSpec => []MonTypeOK
<1>1. MonInv => MonTypeOK
  BY DEF MonInv
<1>2. QED
  BY <1>1, MonInvariant, PTL

\* The reservation is a session's from before its port opens until it is removed,
\* unless it was taken away: no goroutine of the session gives it up on its own, and
\* no failed start keeps it (StreamManager.Create and Remove).
THEOREM MonitorLease == MonSpec => []LeaseIsSession
<1>1. MonInv => LeaseIsSession
  BY DEF MonInv
<1>2. QED
  BY <1>1, MonInvariant, PTL
-----------------------------------------------------------------------------
(* Snapshots: SnapSession.                                                    *)

USE SnapAssumption

SnapType ==
  [pc : {"idle", "monitor", "drain", "monitored", "done"}, framebuffer : BOOLEAN,
   ctx : {"running", "stopped", "elapsed"}, error : BOOLEAN,
   camera : {"off", "capturing", "captured", "failed"}, status : {"none", "success", "partial"}]
FrameType ==
  [state : {"idle", "collecting", "complete"}, error : BOOLEAN, payload : Seq(Line), image : Seq(Line)]
DeviceType == [out : 0..MaxOut, dump : 0..MaxOut, at : 0..DumpLines + 1,
               missed : SUBSET (1..MaxOut)]

Typed ==
  /\ snap \in SnapType /\ frame \in FrameType /\ lines \in Seq(Line)
  /\ device \in DeviceType /\ device.dump <= device.out

\* Nothing is read before the monitor starts, and no dump unless one is asked for.
Fresh ==
  /\ snap.pc = "idle" => frame.state = "idle" /\ lines = <<>>
  /\ snap.pc = "drain" => snap.framebuffer
  /\ ~snap.framebuffer => frame.state = "idle"

\* A dump that is seen to begin is one of those counted.
Counted(q) == \A i \in 1..Len(q) : q[i].kind = "begin" => q[i].dump > 0

\* Line b may be read after line n of dump d: in a dump the lines ascend, and those of
\* another do not follow unless its BEGIN has been dropped, as those of m were.
After(m, d, n, b) == b.kind = "data" => (b.dump = d /\ b.n > n) \/ b.dump \in m

\* The board has printed line n of dump d, and has not begun another since, or its
\* BEGIN has been dropped.
Ahead(d, n) ==
  reader = "reading" => \/ device.dump = d /\ (device.at = 0 \/ n < device.at)
                        \/ device.dump \in device.missed

\* What is to come after line n of dump d.
Coming(q, d, n) == IF q = <<>> THEN Ahead(d, n) ELSE After(device.missed, d, n, q[1])

InDump(l) == l.kind \in {"begin", "data"} /\ l.dump > 0

\* The lines that wait are in the order of the board.
Ordered(q) ==
  /\ \A i \in 1..Len(q) : i + 1 \in 1..Len(q) /\ InDump(q[i]) => After(device.missed, q[i].dump, q[i].n, q[i + 1])
  /\ \A i \in 1..Len(q) : i = Len(q) /\ InDump(q[i]) => Ahead(q[i].dump, q[i].n)

\* The payload has lines of dump d, in ascending order, the last of them line n.
Ascends(s, d, n) ==
  \A i \in 1..Len(s) : s[i].kind = "data" /\ s[i].dump = d /\ s[i].n >= i /\ s[i].n <= n - (Len(s) - i)

Collects ==
  frame.state = "collecting" /\ ~ Blended(frame.payload) =>
    \E d \in 1..MaxOut, n \in 0..DumpLines :
      /\ n >= Len(frame.payload) /\ Ascends(frame.payload, d, n)
      /\ Coming(lines, d, n)

Whole(s) == \E d \in 1..MaxOut : s = [i \in 1..DumpLines |-> [kind |-> "data", dump |-> d, n |-> i]]

Kept == Ordered(lines) /\ Collects /\ (frame.state = "complete" => Whole(frame.image) \/ Blended(frame.image))

SnapInv ==
  /\ Typed /\ Fresh /\ Counted(lines) /\ Kept
-----------------------------------------------------------------------------
(* Sequences of lines.                                                      *)

LEMMA LineParts ==
  ASSUME NEW l \in Line
  PROVE  /\ l.kind \in {"log", "begin", "data", "end"} /\ l.dump \in 0..MaxOut
         /\ l.n \in Nat /\ l.n <= DumpLines
         /\ l.kind = "data" => l = [kind |-> "data", dump |-> l.dump, n |-> l.n]
         /\ l.kind # "data" => l.n = 0
  BY DEF Line

LEMMA AppendLine ==
  ASSUME NEW q \in Seq(Line), NEW l \in Line
  PROVE  /\ Append(q, l) \in Seq(Line) /\ Len(Append(q, l)) = Len(q) + 1
         /\ Append(q, l)[Len(q) + 1] = l
         /\ \A i \in 1..Len(q) : Append(q, l)[i] = q[i]
  OBVIOUS

LEMMA TailLine ==
  ASSUME NEW q \in Seq(Line), q # <<>>
  PROVE  /\ Head(q) \in Line /\ Head(q) = q[1] /\ Len(q) \in Nat \ {0}
         /\ Tail(q) \in Seq(Line) /\ Len(Tail(q)) = Len(q) - 1
         /\ \A i \in 1..(Len(q) - 1) : Tail(q)[i] = q[i + 1]
  OBVIOUS

LEMMA EmptyLine == ASSUME NEW q \in Seq(Line) PROVE q = <<>> <=> Len(q) = 0
  OBVIOUS

\* A line more of the same dump.
LEMMA AscendsMore ==
  ASSUME NEW s \in Seq(Line), NEW d \in 1..MaxOut, NEW n \in 0..DumpLines, n >= Len(s), Ascends(s, d, n),
         NEW l \in Line, l.kind = "data", l.dump = d, l.n > n
  PROVE  /\ l.n \in 0..DumpLines /\ l.n >= Len(Append(s, l)) /\ Ascends(Append(s, l), d, l.n)
<1> DEFINE t == Append(s, l)
<1>1. /\ t \in Seq(Line) /\ Len(t) = Len(s) + 1 /\ t[Len(s) + 1] = l /\ Len(s) \in Nat
      /\ \A i \in 1..Len(s) : t[i] = s[i]
  BY AppendLine
<1>2. l.n \in Nat /\ l.n <= DumpLines /\ DumpLines \in Nat /\ n \in Nat
  BY LineParts
<1>3. \A i \in 1..Len(s) : s[i] \in Line
  OBVIOUS
<1>4. \A i \in 1..Len(s) : s[i].n \in Nat
  BY <1>3, LineParts
<1> HIDE DEF t
<1>5. ASSUME NEW i \in 1..Len(t)
      PROVE  t[i].kind = "data" /\ t[i].dump = d /\ t[i].n >= i /\ t[i].n <= l.n - (Len(t) - i)
  <2>1. CASE i = Len(s) + 1
    BY <1>1, <1>2, <2>1
  <2>2. CASE i \in 1..Len(s)
    <3>1. t[i] = s[i] /\ s[i].n \in Nat
      BY <1>1, <1>4, <2>2
    <3>2. s[i].kind = "data" /\ s[i].dump = d /\ s[i].n >= i /\ s[i].n <= n - (Len(s) - i)
      BY <2>2 DEF Ascends
    <3>3. s[i].n <= l.n - (Len(t) - i)
      BY <1>1, <1>2, <2>2, <3>1, <3>2, SMTT(30)
    <3>4. QED
      BY <3>1, <3>2, <3>3
  <2>3. QED
    BY <1>1, <2>1, <2>2
<1>6. Ascends(t, d, l.n)
  BY <1>5 DEF Ascends
<1>7. QED
  BY <1>1, <1>2, <1>6 DEF t

\* A line more of a dump that began unseen.
LEMMA BlendedMore ==
  ASSUME NEW t \in Seq(Line), NEW l \in Line
  PROVE  Blended(Append(t, l)) <=> Blended(t) \/ l.dump \in device.missed
<1>1. /\ Append(t, l)[Len(t) + 1] = l /\ \A i \in 1..Len(t) : Append(t, l)[i] = t[i]
      /\ DOMAIN t = 1..Len(t) /\ DOMAIN Append(t, l) = 1..Len(t) + 1 /\ Len(t) \in Nat
  OBVIOUS
<1>2. QED
  BY <1>1 DEF Blended

\* As many ascending lines as a dump has are the dump.
LEMMA AscendsWhole ==
  ASSUME NEW s \in Seq(Line), NEW d \in 1..MaxOut, NEW n \in 0..DumpLines, Ascends(s, d, n), Len(s) = DumpLines
  PROVE  Whole(s)
<1>1. DumpLines \in Nat /\ n \in Nat /\ n <= DumpLines
  OBVIOUS
<1>2. ASSUME NEW i \in 1..DumpLines PROVE s[i] = [kind |-> "data", dump |-> d, n |-> i]
  <2>1. s[i] \in Line
    OBVIOUS
  <2>2. s[i].n \in Nat /\ (s[i].kind = "data" => s[i] = [kind |-> "data", dump |-> s[i].dump, n |-> s[i].n])
    BY <2>1, LineParts
  <2>3. s[i].kind = "data" /\ s[i].dump = d /\ s[i].n >= i /\ s[i].n <= n - (DumpLines - i)
    BY DEF Ascends
  <2>4. s[i].n = i
    BY <1>1, <2>2, <2>3
  <2>5. QED
    BY <2>2, <2>3, <2>4
<1>3. s = [i \in 1..DumpLines |-> s[i]]
  OBVIOUS
<1>4. s = [i \in 1..DumpLines |-> [kind |-> "data", dump |-> d, n |-> i]]
  BY <1>2, <1>3
<1>5. QED
  BY <1>4 DEF Whole
-----------------------------------------------------------------------------
(* The collector.                                                           *)

\* Reading the first line that waits.
LEMMA FeedInv ==
  ASSUME Typed, Counted(lines), Kept, lines # <<>>, lines' = Tail(lines),
         frame' = Feed(Head(lines)) \/ (frame' = frame /\ frame.state # "collecting"),
         UNCHANGED <<reader, device>>
  PROVE  Kept'
<1> DEFINE l == Head(lines)
<1>1. /\ l \in Line /\ l = lines[1] /\ Len(lines) \in Nat \ {0}
      /\ lines' \in Seq(Line) /\ Len(lines') = Len(lines) - 1
      /\ \A i \in 1..(Len(lines) - 1) : lines'[i] = lines[i + 1]
  BY TailLine DEF Typed
<1>2. frame \in FrameType /\ Ordered(lines) /\ Collects /\ (frame.state = "complete" => Whole(frame.image) \/ Blended(frame.image))
  BY DEF Typed, Kept
<1> HIDE DEF l
<1>3. \A i \in 1..Len(lines') : i + 1 \in 1..Len(lines) /\ lines'[i] = lines[i + 1]
  BY <1>1
<1>4. Ordered(lines)'
  <2>1. ASSUME NEW i \in 1..Len(lines'), i + 1 \in 1..Len(lines'), InDump(lines'[i])
        PROVE  After(device.missed, lines'[i].dump, lines'[i].n, lines'[i + 1])
    <3>1. /\ i + 1 \in 1..Len(lines) /\ lines'[i] = lines[i + 1]
          /\ (i + 1) + 1 \in 1..Len(lines) /\ lines'[i + 1] = lines[(i + 1) + 1]
      BY <1>3, <2>1
    <3>2. QED
      BY <1>2, <2>1, <3>1 DEF Ordered
  <2>2. ASSUME NEW i \in 1..Len(lines'), i = Len(lines'), InDump(lines'[i])
        PROVE  Ahead(lines'[i].dump, lines'[i].n)
    <3>1. i + 1 \in 1..Len(lines) /\ lines'[i] = lines[i + 1] /\ i + 1 = Len(lines)
      BY <1>1, <1>3, <2>2
    <3>2. QED
      BY <1>2, <2>2, <3>1 DEF Ordered
  <2>3. QED
    BY <2>1, <2>2 DEF Ordered, Ahead
<1>5. InDump(l) => Coming(lines', l.dump, l.n)
  <2>1. SUFFICES ASSUME InDump(l) PROVE Coming(lines', l.dump, l.n)
    OBVIOUS
  <2>2. 1 \in 1..Len(lines)
    BY <1>1
  <2>3. CASE lines' = <<>>
    <3>1. Len(lines') = 0 /\ 1 = Len(lines)
      <4>1. Len(lines') = 0
        BY <1>1, <2>3, EmptyLine
      <4>2. QED
        BY <1>1, <4>1
    <3>2. QED
      BY <1>1, <1>2, <2>1, <2>2, <2>3, <3>1 DEF Ordered, Coming
  <2>4. CASE lines' # <<>>
    <3>1. Len(lines') # 0
      BY <1>1, <2>4, EmptyLine
    <3>2. 1 \in 1..Len(lines') /\ 1 + 1 \in 1..Len(lines) /\ lines'[1] = lines[1 + 1]
      BY <1>1, <3>1
    <3>3. QED
      BY <1>1, <1>2, <2>1, <2>2, <2>4, <3>2 DEF Ordered, Coming
  <2>5. QED
    BY <2>3, <2>4
<1>6. CASE frame.state = "collecting" /\ frame' = Feed(Head(lines))
  <2>1. frame.payload \in Seq(Line)
    BY <1>2 DEF FrameType
  <2>2. ASSUME ~ Blended(frame.payload)
        PROVE  \E d \in 1..MaxOut, n \in 0..DumpLines :
                 n >= Len(frame.payload) /\ Ascends(frame.payload, d, n) /\ After(device.missed, d, n, l)
    BY <1>1, <1>2, <1>6, <2>2 DEF Collects, Coming
  <2>3. CASE l.kind = "data"
    <3>1. frame' = [frame EXCEPT !.payload = Append(frame.payload, l)]
      BY <1>6, <2>3 DEF Feed, l
    <3>2. frame'.payload = Append(frame.payload, l) /\ frame'.state = "collecting"
      BY <1>2, <1>6, <3>1 DEF FrameType
    <3>3. SUFFICES ASSUME ~ Blended(frame.payload)' PROVE Collects'
      BY <1>4, <3>2 DEF Kept, Collects
    <3>4. ~ Blended(frame.payload) /\ l.dump \notin device.missed
      <4>1. PICK t : t = Append(frame.payload, l)
        OBVIOUS
      <4>2. ~ Blended(t)
        BY <3>2, <3>3, <4>1 DEF Blended
      <4>3. l \in Line
        BY <1>1
      <4>4. QED
        BY <2>1, <4>1, <4>2, <4>3, BlendedMore
    <3>5. PICK d \in 1..MaxOut, n \in 0..DumpLines :
            n >= Len(frame.payload) /\ Ascends(frame.payload, d, n) /\ After(device.missed, d, n, l)
      BY <2>2, <3>4
    <3>6. l.dump = d /\ l.n > n
      BY <2>3, <3>4, <3>5 DEF After
    <3>7. l.n \in 0..DumpLines /\ l.n >= Len(frame'.payload) /\ Ascends(frame'.payload, d, l.n)
      <4>1. l \in Line
        BY <1>1
      <4>2. /\ l.n \in 0..DumpLines /\ l.n >= Len(Append(frame.payload, l))
            /\ Ascends(Append(frame.payload, l), d, l.n)
        BY <2>1, <2>3, <3>5, <3>6, <4>1, AscendsMore, Zenon
      <4>3. QED
        BY <3>2, <4>2, Zenon
    <3>8. Coming(lines', d, l.n)
      BY <1>5, <2>3, <3>6 DEF InDump
    <3>9. QED
      BY <3>7, <3>8 DEF Collects, Coming, Ahead
  <2>4. CASE l.kind = "end" /\ Len(frame.payload) = DumpLines
    <3>1. frame' = [frame EXCEPT !.state = "complete", !.image = frame.payload]
      BY <1>6, <2>4 DEF Feed, l
    <3>2. frame'.state = "complete" /\ frame'.image = frame.payload
      BY <1>2, <3>1 DEF FrameType
    <3>3. Whole(frame.payload) \/ Blended(frame.payload)
      BY <2>1, <2>2, <2>4, AscendsWhole
    <3>4. QED
      BY <1>4, <3>2, <3>3 DEF Kept, Collects, Whole, Blended
  <2>5. CASE l.kind \in {"log", "begin"} \/ (l.kind = "end" /\ Len(frame.payload) # DumpLines)
    <3>1. frame' = Aborted
      BY <1>6, <2>5 DEF Feed, l
    <3>2. frame'.state = "idle"
      BY <1>2, <3>1 DEF FrameType, Aborted
    <3>3. QED
      BY <1>4, <3>2 DEF Kept, Collects
  <2>6. QED
    BY <1>1, <2>3, <2>4, <2>5, LineParts
<1>7. CASE frame.state = "idle" /\ l.kind = "begin" /\ frame' = Feed(Head(lines)) /\ l.dump > 0
  <2>1. frame' = [frame EXCEPT !.state = "collecting", !.payload = <<>>]
    BY <1>7 DEF Feed, l
  <2>2. frame'.state = "collecting" /\ frame'.payload = <<>>
    BY <1>2, <2>1 DEF FrameType
  <2>3. l.n = 0 /\ l.dump \in 1..MaxOut
    BY <1>1, <1>7, LineParts
  <2>4. Coming(lines', l.dump, 0)
    BY <1>5, <1>7, <2>3 DEF InDump
  <2>5. Len(frame'.payload) = 0 /\ Ascends(frame'.payload, l.dump, 0) /\ 0 \in 0..DumpLines
    BY <2>2 DEF Ascends
  <2>6. Collects'
    <3>1. PICK d \in 1..MaxOut : d = l.dump
      BY <2>3
    <3>2. Len(frame'.payload) = 0 /\ Ascends(frame'.payload, d, 0) /\ Coming(lines', d, 0)
      BY <2>4, <2>5, <3>1
    <3>3. Coming(lines, d, 0)'
      BY <3>2 DEF Coming, Ahead
    <3>4. 0 \in 0..DumpLines /\ 0 >= Len(frame'.payload)
      BY <2>5, <3>2
    <3>5. \E n \in 0..DumpLines : /\ n >= Len(frame'.payload) /\ Ascends(frame'.payload, d, n)
                                 /\ Coming(lines, d, n)'
      BY <3>2, <3>3, <3>4
    <3>6. QED
      BY <3>5 DEF Collects
  <2>7. QED
    BY <1>4, <2>2, <2>6 DEF Kept
<1>8. CASE frame' = frame /\ frame.state # "collecting"
  BY <1>2, <1>4, <1>8 DEF Kept, Collects, Whole, Blended
<1>9. frame' = Feed(Head(lines)) /\ (frame.state = "complete" \/ (frame.state = "idle" /\ l.kind # "begin"))
        => frame' = frame /\ frame.state # "collecting"
  BY DEF Feed, l
<1>10. l.kind = "begin" => l.dump > 0
  <2>1. 1 \in 1..Len(lines)
    BY <1>1
  <2>2. QED
    BY <1>1, <2>1 DEF Counted
<1>11. frame.state \in {"idle", "collecting", "complete"}
  BY <1>2 DEF FrameType
<1>12. QED
  BY <1>6, <1>7, <1>8, <1>9, <1>10, <1>11
-----------------------------------------------------------------------------
(* Steps.                                                                   *)

LEMMA SnapInitInv == SnapInit => SnapInv
<1> SUFFICES ASSUME SnapInit PROVE SnapInv
  OBVIOUS
<1>1. /\ lines = <<>> /\ frame = NoFrame /\ reader = "off" /\ snap.pc = "idle" /\ snap \in SnapType
      /\ ~snap.framebuffer
  BY DEF SnapInit, SnapType
<1>2. device \in DeviceType /\ device.dump <= device.out
  <2>1. device \in [out : {0}, dump : {0}, at : 0..DumpLines + 1, missed : {{}}] /\ 0 \in 0..MaxOut
    <3>1. 0 \in 0..MaxOut
      OBVIOUS
    <3>2. QED
      BY <3>1 DEF SnapInit
  <2>2. device.out = 0 /\ device.dump = 0 /\ device.at \in 0..DumpLines + 1 /\ device.missed = {}
    BY <2>1
  <2>3. device \in DeviceType
    BY <2>1 DEF DeviceType
  <2>4. QED
    BY <2>2, <2>3
<1>3. frame \in FrameType /\ frame.state = "idle"
  BY <1>1 DEF NoFrame, FrameType
<1>4. lines \in Seq(Line) /\ Len(lines) = 0
  BY <1>1
<1>5. Typed /\ Fresh /\ Counted(lines)
  BY <1>1, <1>2, <1>3, <1>4 DEF Typed, Fresh, Counted
<1>6. Kept
  BY <1>3, <1>4 DEF Kept, Ordered, Collects
<1>7. QED
  BY <1>5, <1>6 DEF SnapInv

\* Nothing is read, and what is to come is not less certain.
LEMMA KeptQuiet ==
  ASSUME Typed, Kept, UNCHANGED <<lines, frame>>,
         device.missed \subseteq device'.missed,
         \A d \in 1..MaxOut, n \in 0..DumpLines : Ahead(d, n) => Ahead(d, n)'
  PROVE  Kept'
<1>1. \A i \in 1..Len(lines) : InDump(lines[i]) => lines[i].dump \in 1..MaxOut /\ lines[i].n \in 0..DumpLines
  <2>1. ASSUME NEW i \in 1..Len(lines), InDump(lines[i])
        PROVE  lines[i].dump \in 1..MaxOut /\ lines[i].n \in 0..DumpLines
    <3>1. lines[i] \in Line
      BY DEF Typed
    <3>2. QED
      BY <2>1, <3>1, LineParts DEF InDump
  <2>2. QED
    BY <2>1
<1>2. Ordered(lines)'
  <2>1. ASSUME NEW i \in 1..Len(lines), i = Len(lines), InDump(lines[i])
        PROVE  Ahead(lines[i].dump, lines[i].n)'
    <3>1. Ahead(lines[i].dump, lines[i].n)
      BY <2>1 DEF Kept, Ordered
    <3>2. Ahead(lines[i].dump, lines[i].n) => (reader' = "reading" =>
            \/ device'.dump = lines[i].dump /\ (device'.at = 0 \/ lines[i].n < device'.at)
            \/ device'.dump \in device'.missed)
      BY <1>1, <2>1 DEF Ahead
    <3>3. QED
      BY <3>1, <3>2 DEF Ahead
  <2>2. QED
    BY <2>1 DEF Kept, Ordered, Ahead, After
<1>3. Collects'
  <2>1. SUFFICES ASSUME frame.state = "collecting", ~ Blended(frame.payload)' PROVE Collects'
    BY DEF Collects
  <2>2. ~ Blended(frame.payload)
    BY <2>1 DEF Blended
  <2>3. PICK d \in 1..MaxOut, n \in 0..DumpLines :
          n >= Len(frame.payload) /\ Ascends(frame.payload, d, n) /\ Coming(lines, d, n)
    BY <2>1, <2>2 DEF Kept, Collects
  <2>4. Coming(lines, d, n)'
    <3>1. Ahead(d, n) => Ahead(d, n)'
      OBVIOUS
    <3>2. QED
      BY <2>3, <3>1 DEF Coming, After
  <2>5. QED
    BY <2>3, <2>4 DEF Collects
<1>4. frame.state = "complete" => Whole(frame.image)' \/ Blended(frame.image)'
  BY DEF Kept, Whole, Blended
<1>5. QED
  BY <1>2, <1>3, <1>4 DEF Kept

\* What leaves the board, the lines and the collector alone.
LEMMA Quiet ==
  ASSUME SnapInv, UNCHANGED <<frame, lines, device>>, snap' \in SnapType, reader' \in {reader, "over", "lost", "eof"},
         snap.pc # "idle", snap'.pc # "idle", snap'.framebuffer = snap.framebuffer,
         snap'.pc = "drain" => snap.framebuffer
  PROVE  SnapInv'
<1>1. Typed' /\ Fresh' /\ Counted(lines)'
  BY DEF SnapInv, Typed, Fresh, Counted
<1>2. \A d \in 1..MaxOut, n \in 0..DumpLines : Ahead(d, n) => Ahead(d, n)'
  BY DEF Ahead
<1>3. Kept'
  BY <1>2, KeptQuiet DEF SnapInv
<1>4. QED
  BY <1>1, <1>3 DEF SnapInv

LEMMA RunInv == ASSUME SnapInv, Run PROVE SnapInv'
<1>1. PICK fb \in BOOLEAN, cam \in {"off", "capturing"} :
        \/ /\ snap' = [snap EXCEPT !.pc = "monitor", !.framebuffer = fb, !.camera = cam]
           /\ reader' = "reading"
        \/ /\ snap' = [snap EXCEPT !.pc = "monitored", !.framebuffer = fb, !.camera = cam, !.error = TRUE]
           /\ UNCHANGED reader
  BY DEF Run
<1>2. snap' \in SnapType /\ snap'.pc \in {"monitor", "monitored"}
  BY <1>1 DEF SnapInv, Typed, SnapType
<1>3. UNCHANGED <<frame, lines, device>> /\ frame.state = "idle" /\ lines = <<>>
  BY DEF SnapInv, Fresh, Run
<1>4. Typed' /\ Fresh' /\ Counted(lines)'
  BY <1>2, <1>3 DEF SnapInv, Typed, Fresh, Counted
<1>5. Kept'
  BY <1>3 DEF Kept, Ordered, Collects
<1>6. QED
  BY <1>4, <1>5 DEF SnapInv

\* What the board prints next is a line, and the lines of a dump in their order.
LEMMA PrintedLine ==
  ASSUME Typed, device.out < MaxOut, NEW line \in Printed
  PROVE  /\ line \in Line /\ (line.kind = "begin" => line.dump > 0)
         /\ DeviceAfter(line) \in DeviceType
         /\ DeviceAfter(line).dump <= DeviceAfter(line).out
         /\ DeviceAfter(line).dump >= device.dump
         /\ DeviceAfter(line).missed = device.missed
<1>1. /\ device \in DeviceType /\ device.dump <= device.out
      /\ device.out \in Nat /\ device.dump \in Nat /\ device.at \in Nat /\ MaxOut \in Nat /\ DumpLines \in Nat
      /\ device.at <= DumpLines + 1
  BY DEF Typed, DeviceType
<1>2. \/ line = [kind |-> "log", dump |-> 0, n |-> 0]
      \/ line = [kind |-> "begin", dump |-> device.dump + 1, n |-> 0] /\ device.at = 0
      \/ line = [kind |-> "data", dump |-> device.dump, n |-> device.at] /\ device.at # 0 /\ device.at <= DumpLines
      \/ line = [kind |-> "end", dump |-> device.dump, n |-> 0] /\ device.at > DumpLines
  BY <1>1 DEF Printed
<1>3. device.out + 1 \in 0..MaxOut /\ device.dump \in 0..MaxOut
  BY <1>1
<1>4. CASE line = [kind |-> "log", dump |-> 0, n |-> 0]
  <2>1. line.kind = "log" /\ device.at \in 0..DumpLines + 1
    BY <1>1, <1>4
  <2>2. DeviceAfter(line) = [device EXCEPT !.out = device.out + 1, !.dump = device.dump, !.at = device.at]
    BY <1>4, <2>1 DEF DeviceAfter
  <2>3. /\ DeviceAfter(line) \in DeviceType /\ DeviceAfter(line).out = device.out + 1
        /\ DeviceAfter(line).dump = device.dump /\ DeviceAfter(line).missed = device.missed
    BY <1>1, <1>3, <2>1, <2>2 DEF DeviceType
  <2>4. line \in Line /\ (line.kind = "begin" => line.dump > 0)
    BY <1>1, <1>3, <1>4, <2>1 DEF Line
  <2>5. QED
    BY <1>1, <2>3, <2>4
<1>5. CASE line = [kind |-> "begin", dump |-> device.dump + 1, n |-> 0] /\ device.at = 0
  <2>1. /\ line.kind = "begin" /\ line.dump = device.dump + 1 /\ device.at + 1 = 1
        /\ 1 \in 0..DumpLines + 1 /\ device.dump + 1 \in 0..MaxOut
    BY <1>1, <1>5
  <2>2. DeviceAfter(line) = [device EXCEPT !.out = device.out + 1, !.dump = device.dump + 1, !.at = 1]
    BY <1>5, <2>1 DEF DeviceAfter
  <2>3. /\ DeviceAfter(line) \in DeviceType /\ DeviceAfter(line).out = device.out + 1
        /\ DeviceAfter(line).dump = device.dump + 1 /\ DeviceAfter(line).missed = device.missed
    BY <1>1, <1>3, <2>1, <2>2 DEF DeviceType
  <2>4. line \in Line /\ (line.kind = "begin" => line.dump > 0)
    BY <1>1, <1>5, <2>1 DEF Line
  <2>5. QED
    BY <1>1, <2>3, <2>4
<1>6. CASE line = [kind |-> "data", dump |-> device.dump, n |-> device.at] /\ device.at # 0 /\ device.at <= DumpLines
  <2>1. line.kind = "data" /\ device.at + 1 \in 0..DumpLines + 1 /\ device.at \in 1..DumpLines
    BY <1>1, <1>6
  <2>2. DeviceAfter(line) = [device EXCEPT !.out = device.out + 1, !.dump = device.dump, !.at = device.at + 1]
    BY <1>6, <2>1 DEF DeviceAfter
  <2>3. /\ DeviceAfter(line) \in DeviceType /\ DeviceAfter(line).out = device.out + 1
        /\ DeviceAfter(line).dump = device.dump /\ DeviceAfter(line).missed = device.missed
    BY <1>1, <1>3, <2>1, <2>2 DEF DeviceType
  <2>4. line \in Line /\ (line.kind = "begin" => line.dump > 0)
    BY <1>1, <1>3, <1>6, <2>1 DEF Line
  <2>5. QED
    BY <1>1, <2>3, <2>4
<1>7. CASE line = [kind |-> "end", dump |-> device.dump, n |-> 0] /\ device.at > DumpLines
  <2>1. line.kind = "end" /\ 0 \in 0..DumpLines + 1
    BY <1>1, <1>7
  <2>2. DeviceAfter(line) = [device EXCEPT !.out = device.out + 1, !.dump = device.dump, !.at = 0]
    BY <1>7, <2>1 DEF DeviceAfter
  <2>3. /\ DeviceAfter(line) \in DeviceType /\ DeviceAfter(line).out = device.out + 1
        /\ DeviceAfter(line).dump = device.dump /\ DeviceAfter(line).missed = device.missed
    BY <1>1, <1>3, <2>1, <2>2 DEF DeviceType
  <2>4. line \in Line /\ (line.kind = "begin" => line.dump > 0)
    BY <1>1, <1>3, <1>7, <2>1 DEF Line
  <2>5. QED
    BY <1>1, <2>3, <2>4
<1>8. QED
  BY <1>2, <1>4, <1>5, <1>6, <1>7

\* A line of a dump that is printed comes after those printed of it.
LEMMA PrintedAfter ==
  ASSUME Typed, device.out < MaxOut, NEW line \in Printed, NEW d \in 1..MaxOut, NEW n \in 0..DumpLines,
         (device.dump = d /\ (device.at = 0 \/ n < device.at)) \/ device.dump \in device.missed
  PROVE  /\ After(device.missed, d, n, line)
         /\ line.kind # "begin" =>
              \/ DeviceAfter(line).dump = d /\ (DeviceAfter(line).at = 0 \/ n < DeviceAfter(line).at)
              \/ DeviceAfter(line).dump \in device.missed
<1>1. /\ device \in DeviceType
      /\ device.dump \in Nat /\ device.at \in Nat /\ DumpLines \in Nat /\ n \in Nat
  BY DEF Typed, DeviceType
<1>2. \/ line.kind = "log"
      \/ line.kind = "begin"
      \/ line.kind = "data" /\ line.dump = device.dump /\ line.n = device.at /\ device.at # 0
      \/ line.kind = "end"
  BY <1>1 DEF Printed
<1>3. /\ DeviceAfter(line).dump = (IF line.kind = "begin" THEN line.dump ELSE device.dump)
      /\ DeviceAfter(line).at = (CASE line.kind \in {"begin", "data"} -> device.at + 1
                                  [] line.kind = "end" -> 0
                                  [] line.kind = "log" -> device.at)
  BY <1>1 DEF DeviceAfter, DeviceType
<1>4. QED
  BY <1>1, <1>2, <1>3 DEF After

\* After a line of a dump is printed, the board is past it.
LEMMA PrintedAhead ==
  ASSUME Typed, device.out < MaxOut, NEW line \in Printed, InDump(line)
  PROVE  DeviceAfter(line).dump = line.dump /\ line.n < DeviceAfter(line).at
<1>1. device \in DeviceType /\ device.dump \in Nat /\ device.at \in Nat
  BY DEF Typed, DeviceType
<1>2. \/ line.kind = "begin" /\ line.n = 0
      \/ line.kind = "data" /\ line.dump = device.dump /\ line.n = device.at
  BY <1>1 DEF Printed, InDump
<1>3. /\ DeviceAfter(line).dump = (IF line.kind = "begin" THEN line.dump ELSE device.dump)
      /\ line.kind \in {"begin", "data"} => DeviceAfter(line).at = device.at + 1
  BY <1>1 DEF DeviceAfter, DeviceType
<1>4. QED
  BY <1>1, <1>2, <1>3

\* A line read from the port goes to the end of dataCh.
LEMMA KeptAppend ==
  ASSUME Typed, Kept, device.out < MaxOut, NEW line \in Printed, reader = "reading",
         lines' = Append(lines, line), device' = DeviceAfter(line), UNCHANGED <<frame, reader>>
  PROVE  Kept'
<1>1. line \in Line /\ device'.missed = device.missed
  BY PrintedLine
<1>2. /\ lines \in Seq(Line) /\ Len(lines) \in Nat /\ Len(lines') = Len(lines) + 1
      /\ lines'[Len(lines) + 1] = line /\ \A i \in 1..Len(lines) : lines'[i] = lines[i]
  <2>1. lines \in Seq(Line)
    BY DEF Typed
  <2>2. QED
    BY <1>1, <2>1, AppendLine
<1>3. \A d \in 1..MaxOut, n \in 0..DumpLines : Ahead(d, n) => After(device.missed, d, n, line)
  BY PrintedAfter DEF Ahead
<1>4. Ordered(lines)'
  <2>1. ASSUME NEW i \in 1..Len(lines'), i + 1 \in 1..Len(lines'), InDump(lines'[i])
        PROVE  After(device.missed, lines'[i].dump, lines'[i].n, lines'[i + 1])
    <3>1. i \in 1..Len(lines) /\ lines'[i] = lines[i] /\ InDump(lines[i])
      BY <1>2, <2>1
    <3>2. CASE i = Len(lines)
      <4>1. lines[i] \in Line /\ lines'[i + 1] = line
        BY <1>2, <3>1, <3>2
      <4>2. lines[i].dump \in 1..MaxOut /\ lines[i].n \in 0..DumpLines
        BY <3>1, <4>1, LineParts DEF InDump
      <4>3. Ahead(lines[i].dump, lines[i].n)
        BY <3>1, <3>2 DEF Kept, Ordered
      <4>4. After(device.missed, lines[i].dump, lines[i].n, line)
        BY <1>3, <4>2, <4>3
      <4>5. QED
        BY <3>1, <4>1, <4>4
    <3>3. CASE i # Len(lines)
      <4>1. i + 1 \in 1..Len(lines) /\ lines'[i + 1] = lines[i + 1]
        BY <1>2, <3>1, <3>3
      <4>2. QED
        BY <3>1, <4>1 DEF Kept, Ordered
    <3>4. QED
      BY <3>2, <3>3
  <2>2. ASSUME NEW i \in 1..Len(lines'), i = Len(lines'), InDump(lines'[i])
        PROVE  device'.dump = lines'[i].dump /\ lines'[i].n < device'.at
    <3>1. lines'[i] = line
      BY <1>2, <2>2
    <3>2. QED
      BY <2>2, <3>1, PrintedAhead
  <2>3. QED
    BY <1>1, <2>1, <2>2 DEF Ordered, Ahead
<1>5. Collects'
  <2>1. SUFFICES ASSUME frame.state = "collecting", ~ Blended(frame.payload) PROVE Collects'
    BY <1>1 DEF Collects, Blended
  <2>2. PICK d \in 1..MaxOut, n \in 0..DumpLines :
          n >= Len(frame.payload) /\ Ascends(frame.payload, d, n) /\ Coming(lines, d, n)
    BY <2>1 DEF Kept, Collects
  <2>3. After(device.missed, d, n, lines'[1])
    <3>1. CASE lines = <<>>
      <4>1. lines'[1] = line
        BY <1>2, <3>1, EmptyLine
      <4>2. QED
        BY <1>3, <2>2, <3>1, <4>1 DEF Coming
    <3>2. CASE lines # <<>>
      <4>1. Len(lines) # 0
        BY <1>2, <3>2, EmptyLine
      <4>2. lines'[1] = lines[1]
        BY <1>2, <4>1
      <4>3. QED
        BY <2>2, <3>2, <4>2 DEF Coming
    <3>3. QED
      BY <3>1, <3>2
  <2>4. lines' # <<>>
    BY <1>2
  <2>5. Coming(lines, d, n)'
    BY <1>1, <2>3, <2>4 DEF Coming
  <2>6. QED
    BY <2>2, <2>5 DEF Collects
<1>6. QED
  BY <1>1, <1>4, <1>5 DEF Kept, Whole, Blended

LEMMA PrintsInv == ASSUME SnapInv, Prints PROVE SnapInv'
<1>1. PICK line \in Printed :
        IF Len(lines) < LineCap
          THEN lines' = Append(lines, line) /\ device' = DeviceAfter(line)
          ELSE /\ device' = [DeviceAfter(line) EXCEPT
                    !.missed = IF line.kind = "begin" THEN @ \cup {line.dump} ELSE @]
               /\ UNCHANGED lines
  BY DEF Prints
<1>2. reader = "reading" /\ device.out < MaxOut /\ UNCHANGED <<snap, frame, reader>> /\ Typed /\ Fresh /\ Counted(lines) /\ Kept
  BY DEF Prints, Heard, SnapInv
<1>3. /\ line \in Line /\ (line.kind = "begin" => line.dump > 0)
      /\ DeviceAfter(line) \in DeviceType /\ DeviceAfter(line).dump <= DeviceAfter(line).out
      /\ DeviceAfter(line).missed = device.missed
  BY <1>1, <1>2, PrintedLine
<1>4. snap.pc # "idle"
  BY DEF Prints, Heard
<1>5. CASE Len(lines) < LineCap
  <2>1. lines' = Append(lines, line) /\ device' = DeviceAfter(line)
    BY <1>1, <1>5
  <2>2. /\ lines \in Seq(Line) /\ lines' \in Seq(Line) /\ Len(lines) \in Nat /\ Len(lines') = Len(lines) + 1
        /\ lines'[Len(lines) + 1] = line /\ \A i \in 1..Len(lines) : lines'[i] = lines[i]
    <3>1. lines \in Seq(Line)
      BY <1>2 DEF Typed
    <3>2. QED
      BY <1>3, <2>1, <3>1, AppendLine
  <2>3. Typed' /\ Fresh'
    BY <1>2, <1>3, <1>4, <2>1, <2>2 DEF Typed, Fresh
  <2>4. Counted(lines)'
    <3>1. ASSUME NEW i \in 1..Len(lines'), lines'[i].kind = "begin" PROVE lines'[i].dump > 0
      <4>1. i = Len(lines) + 1 \/ i \in 1..Len(lines)
        BY <2>2
      <4>2. QED
        BY <1>2, <1>3, <2>2, <3>1, <4>1 DEF Counted
    <3>2. QED
      BY <3>1 DEF Counted
  <2>5. Kept'
    BY <1>1, <1>2, <1>5, <2>1, KeptAppend
  <2>6. QED
    BY <2>3, <2>4, <2>5 DEF SnapInv
<1>6. CASE ~ (Len(lines) < LineCap)
  <2>1. PICK r : r = DeviceAfter(line)
    OBVIOUS
  <2>2. PICK m : m = IF line.kind = "begin" THEN r.missed \cup {line.dump} ELSE r.missed
    OBVIOUS
  <2>3. /\ device'.out = DeviceAfter(line).out /\ device'.dump = DeviceAfter(line).dump
        /\ device'.at = DeviceAfter(line).at /\ device' \in DeviceType /\ UNCHANGED lines
        /\ device.missed \subseteq device'.missed /\ (line.kind = "begin" => line.dump \in device'.missed)
    <3>1. device' = [r EXCEPT !.missed = m] /\ r \in DeviceType /\ UNCHANGED lines
      BY <1>1, <1>3, <1>6, <2>1, <2>2
    <3>2. m \subseteq 1..MaxOut /\ r.missed \subseteq m /\ (line.kind = "begin" => line.dump \in m)
      <4>1. line.kind = "begin" => line.dump \in 1..MaxOut
        BY <1>3, LineParts
      <4>2. QED
        BY <2>2, <3>1, <4>1 DEF DeviceType
    <3>3. /\ device'.out = r.out /\ device'.dump = r.dump /\ device'.at = r.at
          /\ device'.missed = m /\ device' \in DeviceType
      BY <3>1, <3>2 DEF DeviceType
    <3>4. QED
      BY <1>3, <2>1, <3>1, <3>2, <3>3
  <2>4. Typed' /\ Fresh' /\ Counted(lines)'
    BY <1>2, <1>3, <2>3 DEF Typed, Fresh, Counted
  <2>5. ASSUME NEW d \in 1..MaxOut, NEW n \in 0..DumpLines, Ahead(d, n) PROVE Ahead(d, n)'
    <3>1. SUFFICES ASSUME reader = "reading"
                   PROVE  \/ device'.dump = d /\ (device'.at = 0 \/ n < device'.at)
                          \/ device'.dump \in device'.missed
      BY <1>2 DEF Ahead
    <3>2. (device.dump = d /\ (device.at = 0 \/ n < device.at)) \/ device.dump \in device.missed
      BY <2>5, <3>1 DEF Ahead
    <3>3. CASE line.kind = "begin"
      <4>1. DeviceAfter(line).dump = line.dump
        BY <1>2, <3>3 DEF DeviceAfter, Typed, DeviceType
      <4>2. QED
        BY <2>3, <3>1, <3>3, <4>1
    <3>4. CASE line.kind # "begin"
      BY <1>2, <2>3, <3>2, <3>4, PrintedAfter
    <3>5. QED
      BY <3>3, <3>4
  <2>6. Kept'
    BY <1>2, <2>3, <2>5, KeptQuiet
  <2>7. QED
    BY <2>4, <2>6 DEF SnapInv
<1>7. QED
  BY <1>5, <1>6

LEMMA ResetsInv == ASSUME SnapInv, Resets PROVE SnapInv'
<1>1. device' = [device EXCEPT !.at = 0] /\ UNCHANGED <<snap, frame, reader, lines>> /\ Typed
  BY DEF Resets, SnapInv
<1>2. device \in DeviceType
  BY <1>1 DEF Typed
<1>3. /\ device' \in DeviceType /\ device'.at = 0 /\ device'.dump = device.dump /\ device'.out = device.out
      /\ device'.missed = device.missed
  BY <1>1, <1>2 DEF DeviceType
<1>4. Typed' /\ Fresh' /\ Counted(lines)'
  BY <1>1, <1>3 DEF SnapInv, Typed, Fresh, Counted
<1>5. \A d \in 1..MaxOut, n \in 0..DumpLines : Ahead(d, n) => Ahead(d, n)'
  BY <1>1, <1>3 DEF Ahead
<1>6. Kept'
  BY <1>1, <1>3, <1>5, KeptQuiet DEF SnapInv
<1>7. QED
  BY <1>4, <1>6 DEF SnapInv

\* A line is taken from dataCh, by the monitor or while a dump is drained.
LEMMA TakeInv ==
  ASSUME SnapInv, lines # <<>>, lines' = Tail(lines), UNCHANGED <<reader, device>>,
         frame' = Feed(Head(lines)) \/ (frame' = frame /\ frame.state # "collecting"),
         ~snap.framebuffer => frame' = frame,
         snap' \in SnapType, snap'.framebuffer = snap.framebuffer, snap'.pc # "idle",
         snap'.pc = "drain" => snap.framebuffer
  PROVE  SnapInv'
<1>1. /\ Head(lines) \in Line /\ lines' \in Seq(Line) /\ Len(lines) \in Nat \ {0} /\ Len(lines') = Len(lines) - 1
      /\ \A i \in 1..(Len(lines) - 1) : lines'[i] = lines[i + 1]
  BY TailLine DEF SnapInv, Typed
<1>2. Typed'
  <2>1. Feed(Head(lines)) \in FrameType
    <3>1. frame \in FrameType /\ Head(lines) \in Line /\ frame.payload \in Seq(Line)
      BY <1>1 DEF SnapInv, Typed, FrameType
    <3>2. Append(frame.payload, Head(lines)) \in Seq(Line) /\ <<>> \in Seq(Line)
      BY <3>1
    <3>3. QED
      BY <3>1, <3>2 DEF Feed, Aborted, FrameType
  <2>2. frame' \in FrameType
    BY <2>1 DEF SnapInv, Typed
  <2>3. QED
    BY <1>1, <2>2 DEF SnapInv, Typed
<1>3. Fresh'
  BY DEF SnapInv, Fresh
<1>4. Counted(lines)'
  <2>1. ASSUME NEW i \in 1..Len(lines') PROVE i + 1 \in 1..Len(lines) /\ lines'[i] = lines[i + 1]
    BY <1>1
  <2>2. QED
    BY <2>1 DEF SnapInv, Counted
<1>5. Kept'
  BY FeedInv DEF SnapInv
<1>6. QED
  BY <1>2, <1>3, <1>4, <1>5 DEF SnapInv

LEMMA MonitorsInv == ASSUME SnapInv, Monitors PROVE SnapInv'
<1> DEFINE f == IF snap.framebuffer THEN Feed(Head(lines)) ELSE frame
           ctx == IF Settled(f) /\ snap.ctx = "running" THEN "stopped" ELSE snap.ctx
<1>1. /\ snap.pc = "monitor" /\ lines # <<>> /\ lines' = Tail(lines) /\ UNCHANGED <<reader, device>>
      /\ frame' = f
      /\ snap' = [snap EXCEPT !.ctx = ctx, !.pc = IF ctx = "running" THEN snap.pc ELSE AfterTime(f)]
  BY DEF Monitors
<1>2. snap \in SnapType /\ (~snap.framebuffer => frame.state = "idle")
  BY DEF SnapInv, Typed, Fresh
<1>3. ctx \in {"running", "stopped", "elapsed"}
  BY <1>2 DEF SnapType
<1>4. /\ snap.framebuffer => frame' = Feed(Head(lines))
      /\ ~snap.framebuffer => frame' = frame /\ f = frame
  BY <1>1
<1>5. AfterTime(f) \in {"drain", "monitored"} /\ (AfterTime(f) = "drain" => f.state = "collecting")
  BY DEF AfterTime
<1>6. AfterTime(f) = "drain" => snap.framebuffer
  BY <1>2, <1>4, <1>5
<1> HIDE DEF f, ctx
<1>7. /\ snap' \in SnapType /\ snap'.framebuffer = snap.framebuffer
      /\ snap'.pc = (IF ctx = "running" THEN "monitor" ELSE AfterTime(f))
  BY <1>1, <1>2, <1>3, <1>5 DEF SnapType
<1>8. snap'.pc # "idle" /\ (snap'.pc = "drain" => snap.framebuffer)
  BY <1>5, <1>6, <1>7
<1>9. CASE snap.framebuffer
  BY <1>1, <1>4, <1>7, <1>8, <1>9, TakeInv
<1>10. CASE ~snap.framebuffer
  BY <1>1, <1>2, <1>4, <1>7, <1>8, <1>10, TakeInv
<1>11. QED
  BY <1>9, <1>10

LEMMA DrainsInv == ASSUME SnapInv, Drains PROVE SnapInv'
<1>1. /\ snap.pc = "drain" /\ lines # <<>> /\ lines' = Tail(lines) /\ UNCHANGED <<reader, device>>
      /\ frame' = Feed(Head(lines))
      /\ snap' = [snap EXCEPT !.pc = IF Settled(Feed(Head(lines))) THEN "monitored" ELSE snap.pc]
  BY DEF Drains
<1>2. snap \in SnapType /\ snap.framebuffer
  BY <1>1 DEF SnapInv, Typed, Fresh
<1>3. snap' \in SnapType /\ snap'.framebuffer = snap.framebuffer /\ snap'.pc \in {"drain", "monitored"}
  BY <1>1, <1>2 DEF SnapType
<1>4. QED
  BY <1>1, <1>2, <1>3, TakeInv

LEMMA QuietSteps ==
  ASSUME SnapInv, Elapses \/ Leave \/ MonitorFails \/ DrainEnds \/ Assemble \/ ReaderStops \/ ReaderFails
  PROVE  SnapInv'
<1>1. snap \in SnapType /\ Fresh
  BY DEF SnapInv, Typed
<1>2. CASE Elapses
  <2>1. /\ snap' \in SnapType /\ snap'.pc = "monitor" /\ snap'.framebuffer = snap.framebuffer
        /\ snap.pc = "monitor" /\ UNCHANGED <<frame, reader, lines, device>>
    BY <1>1, <1>2 DEF Elapses, SnapType
  <2>2. QED
    BY <2>1, Quiet
<1>3. CASE Leave
  <2>1. AfterTime(frame) \in {"drain", "monitored"} /\ (AfterTime(frame) = "drain" => snap.framebuffer)
    BY <1>1 DEF AfterTime, Fresh
  <2>2. /\ snap' \in SnapType /\ snap'.pc = AfterTime(frame) /\ snap'.framebuffer = snap.framebuffer
        /\ snap.pc = "monitor" /\ UNCHANGED <<frame, reader, lines, device>>
    BY <1>1, <1>3, <2>1 DEF Leave, SnapType
  <2>3. QED
    BY <2>1, <2>2, Quiet
<1>4. CASE MonitorFails
  <2>1. /\ snap' \in SnapType /\ snap'.pc = "monitored" /\ snap'.framebuffer = snap.framebuffer
        /\ snap.pc = "monitor" /\ UNCHANGED <<frame, reader, lines, device>>
    BY <1>1, <1>4 DEF MonitorFails, SnapType
  <2>2. QED
    BY <2>1, Quiet
<1>5. CASE DrainEnds
  <2>1. /\ snap' \in SnapType /\ snap'.pc = "monitored" /\ snap'.framebuffer = snap.framebuffer
        /\ snap.pc = "drain" /\ UNCHANGED <<frame, reader, lines, device>>
    BY <1>1, <1>5 DEF DrainEnds, SnapType
  <2>2. QED
    BY <2>1, Quiet
<1>6. CASE Assemble
  <2>1. /\ snap' \in SnapType /\ snap'.pc = "done" /\ snap'.framebuffer = snap.framebuffer
        /\ snap.pc = "monitored" /\ UNCHANGED <<frame, lines, device>> /\ reader' \in {reader, "over"}
    BY <1>1, <1>6 DEF Assemble, SnapType
  <2>2. QED
    BY <2>1, Quiet
<1>7. CASE ReaderStops \/ ReaderFails
  <2>1. UNCHANGED <<snap, frame, lines, device>> /\ reader' \in {"over", "lost", "eof"}
    BY <1>7 DEF ReaderStops, ReaderFails
  <2>2. reader' # "reading"
    BY <2>1
  <2>3. Typed' /\ Fresh' /\ Counted(lines)'
    BY <2>1 DEF SnapInv, Typed, Fresh, Counted
  <2>4. \A d \in 1..MaxOut, n \in 0..DumpLines : Ahead(d, n) => Ahead(d, n)'
    BY <2>2 DEF Ahead
  <2>5. Kept'
    BY <2>1, <2>4, KeptQuiet DEF SnapInv
  <2>6. QED
    BY <2>3, <2>5 DEF SnapInv
<1>8. QED
  BY <1>2, <1>3, <1>4, <1>5, <1>6, <1>7

\* The camera has a part of its own.
LEMMA CapturesInv == ASSUME SnapInv, Captures PROVE SnapInv'
<1>1. PICK to \in {"captured", "failed"} : snap' = [snap EXCEPT !.camera = to]
  BY DEF Captures
<1>2. UNCHANGED <<frame, reader, lines, device>> /\ snap \in SnapType
  BY DEF Captures, SnapInv, Typed
<1>3. snap' \in SnapType /\ snap'.pc = snap.pc /\ snap'.framebuffer = snap.framebuffer
  BY <1>1, <1>2 DEF SnapType
<1>4. Typed' /\ Fresh' /\ Counted(lines)'
  BY <1>2, <1>3 DEF SnapInv, Typed, Fresh, Counted
<1>5. \A d \in 1..MaxOut, n \in 0..DumpLines : Ahead(d, n) => Ahead(d, n)'
  BY <1>2 DEF Ahead
<1>6. Kept'
  BY <1>2, <1>5, KeptQuiet DEF SnapInv
<1>7. QED
  BY <1>4, <1>6 DEF SnapInv

LEMMA StutterInv == ASSUME SnapInv, UNCHANGED snapVars PROVE SnapInv'
<1>1. UNCHANGED <<snap, frame, reader, lines, device>>
  BY DEF snapVars
<1>2. Typed' /\ Fresh' /\ Counted(lines)'
  BY <1>1 DEF SnapInv, Typed, Fresh, Counted
<1>3. \A d \in 1..MaxOut, n \in 0..DumpLines : Ahead(d, n) => Ahead(d, n)'
  BY <1>1 DEF Ahead
<1>4. Kept'
  BY <1>1, <1>3, KeptQuiet DEF SnapInv
<1>5. QED
  BY <1>2, <1>4 DEF SnapInv

LEMMA SnapStep == SnapInv /\ [SnapNext]_snapVars => SnapInv'
<1> SUFFICES ASSUME SnapInv, [SnapNext]_snapVars PROVE SnapInv'
  OBVIOUS
<1>1. CASE Run
  BY <1>1, RunInv
<1>2. CASE Monitors
  BY <1>2, MonitorsInv
<1>3. CASE Drains
  BY <1>3, DrainsInv
<1>4. CASE Elapses \/ Leave \/ MonitorFails \/ DrainEnds \/ Assemble \/ ReaderStops \/ ReaderFails
  BY <1>4, QuietSteps
<1>5. CASE Captures
  BY <1>5, CapturesInv
<1>6. CASE Prints
  BY <1>6, PrintsInv
<1>7. CASE Resets
  BY <1>7, ResetsInv
<1>8. CASE UNCHANGED snapVars
  BY <1>8, StutterInv
<1>9. QED
  BY <1>1, <1>2, <1>3, <1>4, <1>5, <1>6, <1>7, <1>8 DEF SnapNext, Monitor

\* framebuffer.go feed: an image is one whole dump, whatever else is printed, however
\* often the board is reset and whatever lines a full channel drops, unless the BEGIN of
\* a later dump is one of them: then its lines may be taken for the first one's.
THEOREM SnapWholeFrame == SnapSpec => []WholeFrame
<1>1. SnapInit => SnapInv
  BY SnapInitInv
<1>2. SnapInv /\ [SnapNext]_snapVars => SnapInv'
  BY SnapStep
<1>3. SnapInv => WholeFrame
  BY DEF SnapInv, Kept, WholeFrame, Whole
<1>4. QED
  BY <1>1, <1>2, <1>3, PTL DEF SnapSpec

\* The read loop fills dataCh up to its capacity.
Buffered == reader \in {"off", "reading", "lost", "eof", "over"} /\ Len(lines) <= LineCap

LEMMA BufferedStep == SnapInv /\ Buffered /\ [SnapNext]_snapVars => Buffered'
<1> SUFFICES ASSUME SnapInv, Buffered, [SnapNext]_snapVars PROVE Buffered'
  OBVIOUS
<1>1. lines \in Seq(Line) /\ Len(lines) \in Nat
  BY DEF SnapInv, Typed
<1>2. reader' \in {"off", "reading", "lost", "eof", "over"}
  BY DEF Buffered, SnapNext, Monitor, Run, Elapses, Monitors, Leave, MonitorFails, Drains, DrainEnds, Captures,
         Assemble, ReaderStops, ReaderFails, Prints, Resets, snapVars
<1>3. CASE Prints
  <2>1. PICK line \in Printed :
          UNCHANGED lines \/ (Len(lines) < LineCap /\ lines' = Append(lines, line))
    BY <1>3 DEF Prints
  <2>2. line \in Line
    BY <1>3, PrintedLine DEF Prints, SnapInv
  <2>3. UNCHANGED lines \/ (Len(lines) < LineCap /\ Len(lines') = Len(lines) + 1)
    BY <1>1, <2>1, <2>2, AppendLine
  <2>4. QED
    BY <1>1, <1>2, <2>3 DEF Buffered
<1>4. CASE ~ Prints
  <2>1. UNCHANGED lines \/ (lines # <<>> /\ lines' = Tail(lines))
    BY <1>4 DEF SnapNext, Monitor, Run, Elapses, Monitors, Leave, MonitorFails, Drains, DrainEnds, Captures,
                Assemble, ReaderStops, ReaderFails, Resets, snapVars
  <2>2. UNCHANGED lines \/ Len(lines') = Len(lines) - 1
    BY <1>1, <2>1, TailLine
  <2>3. QED
    BY <1>1, <1>2, <2>2 DEF Buffered
<1>5. QED
  BY <1>3, <1>4

LEMMA BufferedInit == SnapInit => Buffered
<1> SUFFICES ASSUME SnapInit PROVE Buffered
  OBVIOUS
<1>1. lines = <<>> /\ Len(<<>>) = 0 /\ reader = "off"
  BY DEF SnapInit
<1>2. QED
  BY <1>1 DEF Buffered

LEMMA SnapTyped == SnapInv /\ Buffered => SnapTypeOK
  BY DEF SnapInv, Buffered, SnapTypeOK, Typed, SnapType, FrameType, DeviceType
-----------------------------------------------------------------------------
(* The parts of MCSerial together.                                          *)

\* The part that runs keeps its inductive invariant, the others rest.
SerialInv ==
  /\ IF part = "image" THEN ImgInv ELSE ImgRests
  /\ IF part = "esp" THEN EspInv /\ Bounded ELSE EspRests
  /\ MonInv /\ SnapInv /\ Buffered

LEMMA SerialStep == SerialInv /\ [Next]_serialVars => SerialInv'
<1> SUFFICES ASSUME SerialInv, [Next]_serialVars PROVE SerialInv'
  OBVIOUS
<1>1. /\ UNCHANGED part /\ [MonNext]_monVars /\ [SnapNext]_snapVars
      /\ IF part = "image" THEN [ImgNext]_imgVars ELSE UNCHANGED imgVars
      /\ IF part = "esp" THEN [EspNext]_espVars ELSE UNCHANGED espVars
  BY DEF Next, serialVars
<1>2. MonInv' /\ SnapInv' /\ Buffered'
  BY <1>1, MonStep, SnapStep, BufferedStep DEF SerialInv
<1>3. IF part' = "image" THEN ImgInv' ELSE ImgRests'
  <2>1. CASE part = "image"
    BY <1>1, <2>1, ImgStep DEF SerialInv
  <2>2. CASE part # "image"
    BY <1>1, <2>2 DEF SerialInv, ImgRests, imgVars
  <2>3. QED
    BY <2>1, <2>2, <1>1
<1>4. IF part' = "esp" THEN EspInv' /\ Bounded' ELSE EspRests'
  <2>1. CASE part = "esp"
    BY <1>1, <2>1, EspInvStep, BoundedStep DEF SerialInv
  <2>2. CASE part # "esp"
    BY <1>1, <2>2 DEF SerialInv, EspRests, EspStart, espVars
  <2>3. QED
    BY <2>1, <2>2, <1>1
<1>5. QED
  BY <1>2, <1>3, <1>4 DEF SerialInv

\* What serves the serial port of a board keeps its types, whichever part runs.
THEOREM SerialTypes == Spec => []SerialTypeOK
<1>1. Init => SerialInv
  <2> SUFFICES ASSUME Init PROVE SerialInv
    OBVIOUS
  <2>1. MonInv /\ SnapInv /\ Buffered
    BY MonInitInv, SnapInitInv, BufferedInit DEF Init
  <2>2. EspInit => Bounded
    BY BoundedStart DEF EspInit, Outcomes
  <2>3. QED
    BY <2>1, <2>2, ImgInitInv, EspInitInv DEF Init, SerialInv
<1>2. SerialInv => SerialTypeOK
  <2> SUFFICES ASSUME SerialInv PROVE SerialTypeOK
    OBVIOUS
  <2>1. MonTypeOK /\ SnapTypeOK
    BY SnapTyped DEF SerialInv, MonInv
  <2>2. ImgTypeOK
    <3>1. ImgRests => ImgTypeOK
      <4> SUFFICES ASSUME ImgRests PROVE ImgTypeOK
        OBVIOUS
      <4>1. <<>> \in Seq(Nat) /\ Header \in Nat /\ DOMAIN <<>> = {}
        BY ImageAssumption, EmptySeq
      <4>2. QED
        BY <4>1 DEF ImgRests, ImgTypeOK, Range
    <3>2. QED
      BY <3>1, ImgTyped DEF SerialInv
  <2>3. EspTypeOK
    <3>1. EspRests => EspTyped /\ Bounded
      BY BoundedStart DEF EspRests, Outcomes
    <3>2. QED
      BY <3>1, EspTypesFollow DEF SerialInv, EspInv
  <2>4. QED
    BY <2>1, <2>2, <2>3 DEF SerialTypeOK
<1>3. Spec => [][Next]_serialVars /\ Init
  BY DEF Spec
<1>4. QED
  BY <1>1, <1>2, <1>3, SerialStep, PTL
=============================================================================
