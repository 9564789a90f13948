-------------------------- MODULE MessageBus_proofs --------------------------
(***************************************************************************)
(* What becomes of an event answered 200 between the publisher, the        *)
(* webhook queue and the store, for any number of payments, any length of  *)
(* the queues, any deployment and any number of restarts and closed        *)
(* channels.                                                               *)
(***************************************************************************)
EXTENDS MessageBus, SequenceTheorems, TLAPS

IInv ==
    /\ mbWire \in Seq(MbRows)
    /\ mbHooks \in Seq(MbRows)
    /\ AcceptedEventSurvives

(* Publishing adds one message to those in the queue. *)
LEMMA RangeAppend ==
    ASSUME NEW S, NEW queue \in Seq(S), NEW x \in S
    PROVE  Append(queue, x) \in Seq(S) /\ Range(Append(queue, x)) = Range(queue) \union {x}
<1>1. /\ Append(queue, x) \in Seq(S)
      /\ Len(Append(queue, x)) = Len(queue) + 1
      /\ \A i \in 1 .. Len(queue) : Append(queue, x)[i] = queue[i]
      /\ Append(queue, x)[Len(queue) + 1] = x
      /\ Len(queue) \in Nat
  OBVIOUS
<1>2. /\ Range(queue) = {queue[i] : i \in 1 .. Len(queue)}
      /\ Range(Append(queue, x)) = {Append(queue, x)[i] : i \in 1 .. Len(Append(queue, x))}
  BY <1>1, RangeEquality
<1> QED
  BY <1>1, <1>2

(* Acknowledging takes the message at the head out of the queue, and no    *)
(* other.                                                                  *)
LEMMA RangeTail ==
    ASSUME NEW S, NEW queue \in Seq(S), queue # <<>>
    PROVE  /\ Tail(queue) \in Seq(S) /\ Head(queue) \in S
           /\ Range(queue) = {Head(queue)} \union Range(Tail(queue))
<1>1. /\ Tail(queue) \in Seq(S)
      /\ Len(Tail(queue)) = Len(queue) - 1
      /\ Len(queue) \in Nat /\ Len(queue) >= 1
      /\ \A i \in 1 .. (Len(queue) - 1) : Tail(queue)[i] = queue[i + 1]
      /\ Head(queue) = queue[1]
      /\ Head(queue) \in S
  OBVIOUS
<1>2. /\ Range(queue) = {queue[i] : i \in 1 .. Len(queue)}
      /\ Range(Tail(queue)) = {Tail(queue)[i] : i \in 1 .. Len(Tail(queue))}
  BY <1>1, RangeEquality
<1>3. ASSUME NEW i \in 2 .. Len(queue)
      PROVE  queue[i] \in Range(Tail(queue))
  <2>1. i - 1 \in 1 .. (Len(queue) - 1) /\ queue[i] = Tail(queue)[i - 1]
    BY <1>1
  <2> QED
    BY <1>1, <1>2, <2>1
<1>4. Range(Tail(queue)) \subseteq Range(queue)
  BY <1>1, <1>2
<1>5. \A i \in 1 .. Len(queue) : i = 1 \/ i \in 2 .. Len(queue)
  BY <1>1
<1> QED
  BY <1>1, <1>2, <1>3, <1>4, <1>5

------------------------------------------------------------------------------
(* Before the first event there is nothing to lose. *)
LEMMA InitIInv == BusInit => IInv
BY DEF BusInit, IInv, AcceptedEventSurvives

Kept == /\ mbConsumed \subseteq mbConsumed' /\ mbLost \subseteq mbLost'
        /\ mbEarly \subseteq mbEarly' /\ mbCut \subseteq mbCut'

(* A step that leaves wire, queue and what was promised alone, and         *)
(* consumes or loses perhaps more, keeps every event accounted for.        *)
LEMMA QuietKeeps ==
    ASSUME IInv, UNCHANGED <<hookVars, mbTold>>, Kept
    PROVE  IInv'
BY DEF IInv, AcceptedEventSurvives, hookVars, Kept

(* A break of the channel writes off what is on the wire and nothing of    *)
(* the queue.                                                              *)
LEMMA FaultKeeps ==
    ASSUME IInv, Fault, UNCHANGED mbTold, Kept
    PROVE  IInv'
<1>1. Range(mbWire) \subseteq mbCut' /\ mbWire' = <<>> /\ mbHooks' = mbHooks
  BY DEF Fault, Unacknowledged
<1>2. <<>> \in Seq(MbRows)
  OBVIOUS
<1> QED
  BY <1>1, <1>2 DEF IInv, AcceptedEventSurvives, Kept

(* A step that takes the head out of the queue must have consumed it or    *)
(* written it off.                                                         *)
LEMMA DequeueKeeps ==
    ASSUME IInv, mbHooks # <<>>, mbHooks' = Tail(mbHooks), UNCHANGED <<mbWire, mbTold>>, Kept,
           Head(mbHooks) \in mbConsumed' \union mbLost' \union mbEarly'
    PROVE  IInv'
<1>1. /\ Tail(mbHooks) \in Seq(MbRows)
      /\ Range(mbHooks) = {Head(mbHooks)} \union Range(Tail(mbHooks))
  BY RangeTail DEF IInv
<1> QED
  BY <1>1 DEF IInv, AcceptedEventSurvives, Kept

(* IInv is inductive: publish before 200, store before acknowledgement. *)
LEMMA NextIInv == IInv /\ [BusNext]_mbVars => IInv'
<1> SUFFICES ASSUME IInv, [BusNext]_mbVars PROVE IInv'
  OBVIOUS
<1>1. CASE RunOnce \/ UNCHANGED mbVars
  BY <1>1, QuietKeeps DEF RunOnce, eventVars, hookVars, mbVars, Kept
<1>2. CASE ChannelCloses \/ Restart
  BY <1>2, FaultKeeps DEF ChannelCloses, Restart, Fault, Kept
<1>3. ASSUME NEW r \in MbRows, AckFails(r) PROVE IInv'
  BY <1>3, FaultKeeps DEF AckFails, ApplyEvent, Fault, Kept
<1>4. CASE BrokerTakes
  <2>1. /\ Tail(mbWire) \in Seq(MbRows) /\ Head(mbWire) \in MbRows
        /\ Range(mbWire) = {Head(mbWire)} \union Range(Tail(mbWire))
    BY <1>4, RangeTail DEF IInv, BrokerTakes
  <2>2. /\ Append(mbHooks, Head(mbWire)) \in Seq(MbRows)
        /\ Range(Append(mbHooks, Head(mbWire))) = Range(mbHooks) \union {Head(mbWire)}
    BY <2>1, RangeAppend DEF IInv
  <2>3. /\ mbWire' = Tail(mbWire) /\ mbHooks' = Append(mbHooks, Head(mbWire))
        /\ UNCHANGED eventVars
    BY <1>4 DEF BrokerTakes
  <2> QED
    BY <2>1, <2>2, <2>3 DEF IInv, AcceptedEventSurvives, eventVars
<1>5. ASSUME NEW r \in MbRows, AcceptWebhook(r) PROVE IInv'
  <2>1. /\ mbWire' = Append(mbWire, r)
        /\ mbTold' = mbTold \union {r}
        /\ UNCHANGED <<mbHooks, mbConsumed, mbLost, mbEarly, mbCut>>
    BY <1>5 DEF AcceptWebhook
  <2>2. mbWire' \in Seq(MbRows) /\ Range(mbWire') = Range(mbWire) \union {r}
    BY <2>1, RangeAppend DEF IInv
  <2> QED
    BY <2>1, <2>2 DEF IInv, AcceptedEventSurvives
<1>6. ASSUME NEW r \in MbRows, HookApplied(r) PROVE IInv'
  BY <1>6, DequeueKeeps DEF HookApplied, ApplyEvent, Delivered, Kept
<1>7. ASSUME NEW r \in MbRows, HookFailed(r) \/ HookNotFound(r) PROVE IInv'
  BY <1>7, DequeueKeeps DEF HookFailed, HookNotFound, Delivered, Kept
<1>8. ASSUME NEW r \in MbRows, Recorded(r) \/ ProviderSettlesRow(r) PROVE IInv'
  BY <1>8, QuietKeeps DEF Recorded, ProviderSettlesRow, eventVars, Kept
<1>9. ASSUME NEW r \in MbRows,
             InlineAnswered(r) \/ InlineUseless(r) \/ PublishJob(r) \/ PublishFails(r)
      PROVE  IInv'
  BY <1>9, QuietKeeps DEF InlineAnswered, InlineUseless, PublishJob, PublishFails,
                          Visit, eventVars, Kept
<1>10. ASSUME NEW r \in MbRows, JobAnswered(r) \/ JobUnknown(r) \/ JobFailed(r)
       PROVE  IInv'
  BY <1>10, QuietKeeps DEF JobAnswered, JobUnknown, JobFailed, Consume, eventVars, Kept
<1> QED
  BY <1>1, <1>2, <1>3, <1>4, <1>5, <1>6, <1>7, <1>8, <1>9, <1>10 DEF BusNext

(* Whatever dies or closes, an event answered 200 is on the wire, in the   *)
(* queue or in webhook_events, unless the channel broke before the broker  *)
(* had it, its payment had no reference when it was processed, or the      *)
(* store failed: the order publish, 200, apply, acknowledge of amqp.rs,    *)
(* without publisher confirms.                                             *)
THEOREM NoAcceptedEventVanishes == BusSpec => []AcceptedEventSurvives
<1>1. BusInit => IInv
  BY InitIInv
<1>2. IInv /\ [BusNext]_mbVars => IInv'
  BY NextIInv
<1>3. IInv => AcceptedEventSurvives
  BY DEF IInv
<1> QED
  BY <1>1, <1>2, <1>3, PTL DEF BusSpec

==============================================================================
