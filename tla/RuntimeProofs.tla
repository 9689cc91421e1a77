----------------------------- MODULE RuntimeProofs -----------------------------
(***************************************************************************)
(* Proofs about Runtime, for any definitions, handlers, requests,          *)
(* publishers and bounds.                                                  *)
(*                                                                         *)
(* Every step of the runtime is a step of RunExecution or leaves its       *)
(* variables alone, so what RunExecutionProofs and RunLeaseProofs prove    *)
(* about a run with arbitrary deliveries holds with the deliveries of the  *)
(* outbox and of JetStream.  That the run is never forgotten is proved     *)
(* here: a queued run has the message of its newest outbox row, which      *)
(* nobody acknowledges before the run is claimed (QueuedOK); a running one *)
(* has its executor (WorkedOK) or, when that crashed, the executor's       *)
(* message, which comes back only after the lease (ReturnsOK).             *)
(***************************************************************************)
EXTENDS Runtime, RunLeaseProofs

InStream(r) == \E n \in 1..Len(stream) : stream[n] = r

\* The outbox rows are numbered, and what is marked or about to be is in the
\* stream.
RowsOK ==
  /\ inserted = 1..outbox /\ outbox # 0
  /\ \A r \in published : InStream(r)
  /\ \A p \in Publishers : \A r \in delivered[p] : InStream(r)

CountersOK ==
  /\ crashes \in Nat /\ dbErrors \in Nat
  /\ skipped \in BOOLEAN /\ overtaken \in BOOLEAN

\* The handlers that have a message of the newest row of a queued run are about
\* to claim it, or give the message back.
QueuedOK ==
  state = "queued" /\ ~skipped =>
    /\ \A n \in 1..Len(stream) : stream[n] = outbox => delivery[n] # "acked"
    /\ \A h \in Handlers :
         held[h] # 0 /\ stream[held[h]] = outbox => pc[h] \in {"claiming", "nak"}

\* Until a message overtakes its handler, it has one handler at most and is
\* not delivered again while it has one.
HeldOK ==
  ~overtaken =>
    /\ \A h \in Handlers : held[h] # 0 => delivery[held[h]] = "out"
    /\ \A g, h \in Handlers : held[g] = held[h] /\ held[g] # 0 => g = h

\* A handler at the event after fail may return; at every other pc of execute
\* it goes on until it has taken the run out of running.
AtWorkPcs == ExecutingPcs \ {"fail_event"}

Worked == \E h \in Handlers : pc[h] \in AtWorkPcs

WorkedOK == state = "running" /\ crashes = 0 /\ dbErrors = 0 => Worked

\* The message of a handler that crashed, before and after AckWait.
Left(m) == delivery[m] = "out" /\ \A h \in Handlers : held[h] # m

Returning(m) ==
  \/ delivery[m] = "ready"
  \/ delivery[m] = "out" /\ \E h \in Handlers : held[h] = m /\ pc[h] = "claiming"

ReturnsOK ==
  state = "running" /\ ~overtaken /\ dbErrors = 0 /\ ~skipped =>
    \/ Worked
    \/ \E m \in 1..Len(stream) : Left(m)
    \/ lease = "expired" /\ \E m \in 1..Len(stream) : Returning(m)

RtInv ==
  RtTypeOK /\ RowsOK /\ CountersOK /\ QueuedOK /\ HeldOK /\ WorkedOK /\ ReturnsOK

-----------------------------------------------------------------------------
(* The runtime executes the run as RunExecution does.                      *)

\* A step of the runtime is a step of the run or leaves it alone.
LEMMA RunStep == [RtNext]_rtVars => [Next]_vars
<1> SUFFICES ASSUME [RtNext]_rtVars PROVE [Next]_vars
  OBVIOUS
<1>1. ASSUME NEW p \in Publishers, Publish(p) \/ PublisherFails(p) PROVE UNCHANGED vars
  BY <1>1 DEF Publish, PublisherFails
<1>2. ASSUME NEW h \in Handlers,
             \/ Receive(h) \/ Work(h) \/ Ack(h) \/ Nak(h) \/ StatementFails(h) \/ WorkerCrashes(h)
      PROVE  Deliver(h) \/ HandlerStep(h) \/ DbError(h) \/ Settle(h) \/ Crash(h)
  BY <1>2 DEF Receive, Work, Ack, Nak, StatementFails, WorkerCrashes
<1>3. ASSUME NEW m \in Messages, AckWaitExpires(m) PROVE UNCHANGED vars
  BY <1>3 DEF AckWaitExpires
<1>4. ASSUME NEW r \in Requests,
             CheckRequest(r) \/ ApproveAndQueue(r) \/ CancelOrRefuse(r) \/ RollBack(r)
      PROVE  RequestStep(r)
  BY <1>4 DEF CheckRequest, ApproveAndQueue, CancelOrRefuse, RollBack, RequestStep
<1>5. CASE Lapse \/ LoseCredential
  BY <1>5 DEF Lapse, LoseCredential, Next
<1>6. CASE UNCHANGED rtVars
  BY <1>6 DEF rtVars
<1> QED BY <1>1, <1>2, <1>3, <1>4, <1>5, <1>6 DEF RtNext, Next

\* The composition restricts the run's deliveries to what the publishers and
\* JetStream hand over, and adds nothing: it implements RunExecution.
THEOREM RuntimeExecutesRuns == RtSpec => Spec
<1>1. RtInit => Init
  BY DEF RtInit
<1>2. [RtNext]_rtVars => [Next]_vars
  BY RunStep
<1> QED BY <1>1, <1>2, PTL DEF RtSpec, Spec

-----------------------------------------------------------------------------
(* The runtime drives the outbox as Outbox does.                           *)

\* The outbox's safety specification, with the row of the new run in it.
OutboxOfRun ==
  Box!OutboxInit({1}) /\ [][Box!OutboxNext]_boxVars

\* A step of the runtime is a step of the outbox or leaves it alone.
LEMMA OutboxStep == [RtNext]_rtVars => [Box!OutboxNext]_boxVars
<1> SUFFICES ASSUME [RtNext]_rtVars PROVE [Box!OutboxNext]_boxVars
  OBVIOUS
<1>1. ASSUME NEW p \in Publishers, Publish(p) \/ PublisherFails(p) PROVE Box!OutboxNext
  BY <1>1 DEF Publish, PublisherFails, Box!OutboxNext
<1>2. ASSUME NEW h \in Handlers,
             \/ Receive(h) \/ Work(h) \/ Ack(h) \/ Nak(h) \/ StatementFails(h) \/ WorkerCrashes(h)
      PROVE  UNCHANGED boxVars
  BY <1>2 DEF Receive, Work, Ack, Nak, StatementFails, WorkerCrashes
<1>3. ASSUME NEW m \in Messages, AckWaitExpires(m) PROVE UNCHANGED boxVars
  BY <1>3 DEF AckWaitExpires
<1>4. ASSUME NEW r \in Requests, ApproveAndQueue(r) PROVE Box!OutboxNext
  <2>1. Box!queue_run_outbox(outbox')
    BY <1>4 DEF ApproveAndQueue
  <2>2. outbox' \in 1..MaxRows
    BY <2>1 DEF Box!queue_run_outbox
  <2> QED BY <2>1, <2>2 DEF Box!OutboxNext
<1>5. ASSUME NEW r \in Requests, CheckRequest(r) \/ CancelOrRefuse(r) \/ RollBack(r)
      PROVE  UNCHANGED boxVars
  BY <1>5 DEF CheckRequest, CancelOrRefuse, RollBack
<1>6. CASE Lapse \/ LoseCredential
  BY <1>6 DEF Lapse, LoseCredential
<1>7. CASE UNCHANGED rtVars
  BY <1>7 DEF rtVars
<1> QED BY <1>1, <1>2, <1>3, <1>4, <1>5, <1>6, <1>7 DEF RtNext

\* Whatever workers, the consumer and requests do, the rows of the run are
\* queued, claimed, sent and marked by the steps of Outbox and no others, and a
\* row is inserted by an approval, in its own step.
THEOREM RuntimeDrivesOutbox == RtSpec => OutboxOfRun
<1>1. RtInit => Box!OutboxInit({1})
  BY DEF RtInit
<1>2. [RtNext]_rtVars => [Box!OutboxNext]_boxVars
  BY OutboxStep
<1> QED BY <1>1, <1>2, PTL DEF RtSpec, OutboxOfRun

-----------------------------------------------------------------------------
(* The outbox.                                                             *)

\* A row that is sent stays in the stream, behind what was sent before.
LEMMA Sent ==
  ASSUME NEW S, NEW s \in Seq(S), NEW x \in S
  PROVE  /\ Append(s, x) \in Seq(S) /\ Len(Append(s, x)) = Len(s) + 1 /\ Len(s) \in Nat
         /\ Append(s, x)[Len(s) + 1] = x
         /\ \A n \in 1..Len(s) : Append(s, x)[n] = s[n]
OBVIOUS

\* A sequence over a set is one over every larger set.
LEMMA LargerSet ==
  ASSUME NEW S, NEW T, S \subseteq T, NEW s \in Seq(S)
  PROVE  s \in Seq(T)
<1>1. Len(s) \in Nat /\ s \in [1..Len(s) -> S]
  OBVIOUS
<1>2. s \in [1..Len(s) -> T]
  BY <1>1
<1> QED BY <1>1, <1>2

\* A publisher leaves the rows alone, marks what it has sent, and adds one
\* message at most to the end of the stream.
LEMMA PublisherStep ==
  ASSUME Box!OutboxTypeOK, RowsOK, UNCHANGED outbox, NEW p \in Publishers,
         Box!publishPending(p) \/ Box!publisherFails(p)
  PROVE  /\ Box!OutboxTypeOK' /\ RowsOK' /\ inserted' = inserted
         /\ stream' = stream \/ \E x \in inserted : stream' = Append(stream, x)
<1> USE DEF Box!OutboxTypeOK
<1>1. CASE Box!claimPendingOutbox(p)
  <2>1. PICK B \in SUBSET inserted : batch' = [batch EXCEPT ![p] = B]
    BY <1>1 DEF Box!claimPendingOutbox, Box!PendingBatch, Box!Pending
  <2>2. /\ batch[p] = {} /\ delivered[p] = {}
        /\ attempts' = [r \in 1..MaxRows |-> attempts[r] + IF r \in batch'[p] THEN 1 ELSE 0]
        /\ UNCHANGED <<inserted, published, stream, delivered, failures>>
    BY <1>1 DEF Box!claimPendingOutbox
  <2>3. Box!OutboxTypeOK'
    BY <2>1, <2>2
  <2> QED BY <2>2, <2>3 DEF RowsOK, InStream
<1>2. CASE Box!publish(p)
  <2>1. PICK x \in batch[p] \ delivered[p] :
          /\ stream' = Append(stream, x)
          /\ delivered' = [delivered EXCEPT ![p] = @ \cup {x}]
          /\ UNCHANGED <<inserted, published, attempts, batch, failures>>
    BY <1>2 DEF Box!publish, Box!NextRow
  <2>2. x \in inserted /\ stream \in Seq(inserted)
    BY <2>1
  <2>3. Box!OutboxTypeOK'
    BY <2>1, <2>2
  <2>4. InStream(x)' /\ \A r : InStream(r) => InStream(r)'
    BY <2>1, <2>2, Sent DEF InStream
  <2>5. RowsOK'
    BY <2>1, <2>4 DEF RowsOK
  <2> QED BY <2>1, <2>2, <2>3, <2>5
<1>3. CASE Box!markOutboxPublished(p)
  <2>1. /\ published' = published \cup delivered[p]
        /\ batch' = [batch EXCEPT ![p] = {}]
        /\ delivered' = [delivered EXCEPT ![p] = {}]
        /\ UNCHANGED <<inserted, attempts, stream, failures>>
    BY <1>3 DEF Box!markOutboxPublished
  <2>2. Box!OutboxTypeOK'
    BY <2>1
  <2> QED BY <2>1, <2>2 DEF RowsOK, InStream
<1>4. CASE Box!publisherFails(p)
  <2>1. /\ failures' = failures + 1 /\ failures < MaxFailures
        /\ batch' = [batch EXCEPT ![p] = {}]
        /\ delivered' = [delivered EXCEPT ![p] = {}]
        /\ UNCHANGED <<inserted, published, attempts>>
    BY <1>4 DEF Box!publisherFails
  <2>2. stream' = stream \/ \E x \in inserted : stream' = Append(stream, x)
    BY <1>4 DEF Box!publisherFails, Box!NextRow
  <2>3. stream' \in Seq(inserted) /\ \A r : InStream(r) => InStream(r)'
    <3>1. CASE stream' = stream
      BY <3>1 DEF InStream
    <3>2. ASSUME NEW x \in inserted, stream' = Append(stream, x)
          PROVE  stream' \in Seq(inserted) /\ \A r : InStream(r) => InStream(r)'
      BY <3>2, Sent DEF InStream
    <3> QED BY <2>2, <3>1, <3>2
  <2>4. Box!OutboxTypeOK'
    BY <2>1, <2>3, BoundsAssumption
  <2> QED BY <2>1, <2>2, <2>3, <2>4 DEF RowsOK
<1> QED BY <1>1, <1>2, <1>3, <1>4 DEF Box!publishPending
-----------------------------------------------------------------------------
(* What a step of a handler does to the run.                               *)

\* A handler that takes a step keeps its message and the outbox.
LEMMA WorkFrame ==
  ASSUME Inv, NEW h \in Handlers, HandlerStep(h)
  PROVE  /\ pc[h] # "idle" /\ pc'[h] # "idle" /\ pc' \in [Handlers -> Pcs]
         /\ \A g \in Handlers : g # h => pc'[g] = pc[g]
         /\ outbox' = outbox
<1> USE DEF Inv, TypeOK, Goto, rowVars, evidenceVars, historyVars
<1>1. Inv'
  BY NextInv DEF Next
<1>2. pc' \in [Handlers -> Pcs]
  BY <1>1
<1>3. \A g \in Handlers : g # h => pc'[g] = pc[g]
  BY DEF HandlerStep, Claim, ClaimNoRows, recordStep, commitEffect, fetch, consumeCredential,
         callOpenAICompatible, advance, awaitApproval, fail, uncertain, complete, appendEvent
<1>4. outbox' = outbox
  BY DEF HandlerStep, Claim, ClaimNoRows, recordStep, commitEffect, fetch, consumeCredential,
         callOpenAICompatible, advance, awaitApproval, fail, uncertain, complete, appendEvent
<1>5. current_step \in 0..(StepCount + 1) /\ (pc[h] = "advance" => index[h] + 1 \in 0..(StepCount + 1))
  BY NextIndex
<1>6. pc[h] # "idle" /\ pc'[h] # "idle"
  <2>1. CASE Claim(h)
    BY <1>5, <2>1, DispatchOK DEF Claim
  <2>2. CASE advance(h)
    BY <1>5, <2>2, DispatchOK DEF advance
  <2>3. CASE appendEvent(h)
    BY <2>3 DEF appendEvent, EventOf, AfterEvent
  <2>4. CASE \/ ClaimNoRows(h) \/ recordStep(h) \/ commitEffect(h) \/ fetch(h)
             \/ consumeCredential(h) \/ callOpenAICompatible(h)
             \/ awaitApproval(h) \/ fail(h) \/ uncertain(h) \/ complete(h)
    BY <2>4 DEF ClaimNoRows, recordStep, commitEffect, fetch, consumeCredential,
         callOpenAICompatible, awaitApproval, fail, uncertain, complete
  <2> QED BY <2>1, <2>2, <2>3, <2>4 DEF HandlerStep
<1> QED BY <1>2, <1>3, <1>4, <1>6

\* The claim puts the run to work.
LEMMA ClaimWorks ==
  ASSUME Inv, NEW h \in Handlers, Claim(h)
  PROVE  pc[h] = "claiming" /\ Claimable /\ state' = "running" /\ pc'[h] \in AtWorkPcs
<1>1. Dispatch(current_step) \in {"complete", "record", "uncertain", "consume", "effect", "fetch", "fail"}
  BY NextIndex, DispatchOK DEF Inv
<1> QED BY <1>1 DEF Claim, Goto, AtWorkPcs, ExecutingPcs, FailurePcs, Inv, TypeOK

\* A handler past its claim does not queue the run; while the run stays
\* running it stays at work, and it renews the lease only to go on.
LEMMA WorkGoesOn ==
  ASSUME Inv, NEW h \in Handlers, HandlerStep(h), ~Claim(h), ~ClaimNoRows(h)
  PROVE  /\ pc[h] \notin {"claiming", "nak"}
         /\ state' = "queued" => state = "queued"
         /\ state' = "running" =>
              /\ state = "running"
              /\ pc[h] \in AtWorkPcs => pc'[h] \in AtWorkPcs
              /\ pc'[h] \in AtWorkPcs \/ lease' = lease
<1> USE DEF Inv, TypeOK, Goto, rowVars, evidenceVars, historyVars
<1> DEFINE Goal ==
  /\ pc[h] \notin {"claiming", "nak"}
  /\ state' = "queued" => state = "queued"
  /\ state' = "running" =>
       /\ state = "running"
       /\ pc[h] \in AtWorkPcs => pc'[h] \in AtWorkPcs
       /\ pc'[h] \in AtWorkPcs \/ lease' = lease
<1>1. CASE \/ recordStep(h) \/ commitEffect(h) \/ fetch(h) \/ consumeCredential(h)
           \/ callOpenAICompatible(h)
  <2>1. pc'[h] \in AtWorkPcs
    BY <1>1 DEF recordStep, commitEffect, fetch, consumeCredential, callOpenAICompatible,
         AtWorkPcs, ExecutingPcs, FailurePcs
  <2> QED BY <1>1, <2>1 DEF recordStep, commitEffect, fetch, consumeCredential, callOpenAICompatible
<1>2. CASE advance(h)
  <2>1. Dispatch(index[h] + 1) \in
          {"complete", "record", "uncertain", "consume", "effect", "fetch", "fail"}
    BY <1>2, NextIndex, DispatchOK DEF advance
  <2>2. pc'[h] \in AtWorkPcs
    BY <1>2, <2>1 DEF advance, AtWorkPcs, ExecutingPcs, FailurePcs
  <2> QED BY <1>2, <2>2 DEF advance
<1>3. CASE awaitApproval(h) \/ fail(h) \/ uncertain(h) \/ complete(h)
  BY <1>3 DEF awaitApproval, fail, uncertain, complete
<1>4. CASE appendEvent(h)
  <2>1. UNCHANGED <<state, lease>> /\ pc'[h] = AfterEvent(h)
        /\ pc[h] \in {"await_event", "fail_event", "uncertain_event", "complete_event"}
    BY <1>4 DEF appendEvent, EventOf
  <2>2. pc[h] \in AtWorkPcs => pc'[h] \in AtWorkPcs
    BY <2>1 DEF AfterEvent, AtWorkPcs, ExecutingPcs, FailurePcs
  <2> QED BY <2>1, <2>2
<1> HIDE DEF Goal
<1>5. Goal
  BY <1>1, <1>2, <1>3, <1>4 DEF HandlerStep, Goal
<1> QED BY <1>5 DEF Goal

\* A handler that does not take a step of execute moves alone and leaves the
\* run alone.
LEMMA HandlerAlone ==
  ASSUME Inv, NEW h \in Handlers, Deliver(h) \/ DbError(h) \/ Settle(h) \/ Crash(h)
  PROVE  /\ UNCHANGED <<state, lease, outbox>>
         /\ pc' \in [Handlers -> Pcs]
         /\ \A g \in Handlers : g # h => pc'[g] = pc[g]
         /\ Deliver(h) => pc[h] = "idle" /\ pc'[h] = "claiming"
         /\ DbError(h) => pc[h] # "idle" /\ pc'[h] = "nak"
         /\ Settle(h) \/ Crash(h) => pc[h] # "idle" /\ pc'[h] = "idle"
BY DEF Inv, TypeOK, Goto, rowVars, evidenceVars, Deliver, DbError, Settle, Crash, Pcs, Statements,
       FailurePcs

\* The requests but the approval, the lease and the broker leave the handlers
\* and the messages alone, and neither queue nor start the run.
LEMMA Elsewhere ==
  ASSUME Inv,
         \/ Lapse \/ LoseCredential
         \/ \E r \in Requests : CheckRequest(r) \/ CancelOrRefuse(r) \/ RollBack(r)
  PROVE  /\ UNCHANGED <<boxVars, delivery, held, pc, outbox, crashes, skipped, overtaken>>
         /\ dbErrors' = dbErrors \/ dbErrors' = dbErrors + 1
         /\ state' = "running" => state = "running" /\ lease' \in {lease, "expired"}
         /\ state' = "queued" => state = "queued"
<1> USE DEF Inv, TypeOK, rowVars, evidenceVars, handlerVars, boxVars, consumerVars, budgetVars
<1>1. CASE Lapse \/ LoseCredential
  BY <1>1 DEF Lapse, LoseCredential, LeaseExpires, CredentialLost
<1>2. ASSUME NEW r \in Requests, CheckRequest(r) \/ RollBack(r)
      PROVE  /\ UNCHANGED <<boxVars, delivery, held, pc, outbox, crashes, skipped, overtaken>>
             /\ dbErrors' = dbErrors \/ dbErrors' = dbErrors + 1
             /\ UNCHANGED <<state, lease>>
  BY <1>2 DEF CheckRequest, RollBack, CheckApprove, CheckCancel, RequestRollsBack
<1>3. ASSUME NEW r \in Requests, CancelOrRefuse(r)
      PROVE  /\ UNCHANGED <<boxVars, delivery, held, pc, outbox, crashes, dbErrors, skipped, overtaken>>
             /\ lease' = lease /\ state' \in {state, "cancelled"}
  BY <1>3 DEF CancelOrRefuse, Cancel, RequestRefused
<1> QED BY <1>1, <1>2, <1>3
-----------------------------------------------------------------------------
(* The messages.                                                           *)

Statuses == {"ready", "out", "acked"}

\* What reaches the stream is ready, and changes nothing before it.
LEMMA Entered ==
  ASSUME RtTypeOK, EnterConsumer,
         stream' = stream \/ \E x \in inserted : stream' = Append(stream, x)
  PROVE  /\ delivery' \in Seq(Statuses) /\ Len(delivery') = Len(stream')
         /\ Len(stream) \in Nat /\ Len(stream') \in {Len(stream), Len(stream) + 1}
         /\ \A n \in 1..Len(stream) : delivery'[n] = delivery[n] /\ stream'[n] = stream[n]
         /\ \A n \in 1..Len(stream') : n \in 1..Len(stream) \/ delivery'[n] = "ready"
<1>1. /\ stream \in Seq(inserted) /\ delivery \in Seq(Statuses) /\ Len(delivery) = Len(stream)
      /\ Len(stream) \in Nat
  BY DEF RtTypeOK, Box!OutboxTypeOK, Statuses
<1> DEFINE k == Len(stream') - Len(stream)
           t == [n \in 1..k |-> "ready"]
<1>2. k \in {0, 1} /\ Len(stream') = Len(stream) + k
      /\ \A n \in 1..Len(stream) : stream'[n] = stream[n]
  <2>1. CASE stream' = stream
    BY <1>1, <2>1
  <2>2. ASSUME NEW x \in inserted, stream' = Append(stream, x)
        PROVE  k = 1 /\ \A n \in 1..Len(stream) : stream'[n] = stream[n]
    BY <1>1, <2>2, Sent
  <2> QED BY <1>1, <2>1, <2>2
<1>3. delivery' = delivery \o t
  BY DEF EnterConsumer
<1> HIDE DEF k
<1>4. t \in Seq(Statuses) /\ Len(t) = k /\ \A n \in 1..k : t[n] = "ready"
  BY <1>2 DEF Statuses
<1> HIDE DEF t
<1>5. /\ delivery \o t \in Seq(Statuses)
      /\ Len(delivery \o t) = Len(stream) + k
      /\ \A n \in 1..Len(stream) : (delivery \o t)[n] = delivery[n]
      /\ \A n \in 1..(Len(stream) + k) : n \in 1..Len(stream) \/ (delivery \o t)[n] = t[n - Len(stream)]
  BY <1>1, <1>2, <1>4
<1>6. \A n \in 1..(Len(stream) + k) : n \in 1..Len(stream) \/ n - Len(stream) \in 1..k
  BY <1>1, <1>2
<1> QED BY <1>1, <1>2, <1>3, <1>4, <1>5, <1>6

\* One message that changes its status.
LEMMA StatusChanges ==
  ASSUME RtTypeOK, NEW m \in 1..Len(stream), NEW s \in Statuses,
         delivery' = [delivery EXCEPT ![m] = s]
  PROVE  /\ delivery' \in Seq(Statuses) /\ Len(delivery') = Len(delivery)
         /\ delivery'[m] = s
         /\ \A n \in 1..Len(stream) : n # m => delivery'[n] = delivery[n]
<1>1. delivery \in Seq(Statuses) /\ Len(delivery) = Len(stream) /\ DOMAIN delivery = 1..Len(stream)
  BY DEF RtTypeOK, Statuses
<1> QED BY <1>1

\* A handler that is not idle has a message of the stream.
LEMMA HoldsMessage ==
  ASSUME RtTypeOK, NEW h \in Handlers
  PROVE  /\ held[h] \in 0..Len(stream) /\ Len(stream) \in Nat
         /\ pc[h] = "idle" <=> held[h] = 0
         /\ pc[h] # "idle" => held[h] \in 1..Len(stream)
BY DEF RtTypeOK, Box!OutboxTypeOK

\* The messages and what the handlers have of them.
LEMMA TypeStep ==
  ASSUME Inv, RtTypeOK, RowsOK, [RtNext]_rtVars
  PROVE  RtTypeOK' /\ RowsOK'
<1> USE DEF boxVars, consumerVars, budgetVars
\* The steps that leave the outbox alone.
<1>1. ASSUME UNCHANGED <<boxVars, outbox>>,
             delivery' \in Seq(Statuses), Len(delivery') = Len(delivery),
             held' \in [Handlers -> 0..Len(stream)],
             \A h \in Handlers : held'[h] = 0 <=> pc'[h] = "idle"
      PROVE  RtTypeOK' /\ RowsOK'
  BY <1>1 DEF RtTypeOK, RowsOK, InStream, Box!OutboxTypeOK, Statuses
<1>2. delivery \in Seq(Statuses) /\ held \in [Handlers -> 0..Len(stream)]
      /\ Len(delivery) = Len(stream) /\ DOMAIN delivery = 1..Len(stream)
  BY DEF RtTypeOK, Statuses
<1>3. ASSUME NEW p \in Publishers, Publish(p) \/ PublisherFails(p) PROVE RtTypeOK' /\ RowsOK'
  <2>1. /\ Box!publishPending(p) \/ Box!publisherFails(p)
        /\ EnterConsumer /\ UNCHANGED <<vars, held>>
    BY <1>3 DEF Publish, PublisherFails
  <2>2. UNCHANGED <<pc, outbox>>
    BY <2>1 DEF vars, evidenceVars, handlerVars
  <2>3. /\ Box!OutboxTypeOK' /\ RowsOK' /\ inserted' = inserted
        /\ stream' = stream \/ \E x \in inserted : stream' = Append(stream, x)
    BY <2>1, <2>2, PublisherStep DEF RtTypeOK
  <2>4. /\ delivery' \in Seq(Statuses) /\ Len(delivery') = Len(stream')
        /\ Len(stream) \in Nat /\ Len(stream') \in {Len(stream), Len(stream) + 1}
    BY <2>1, <2>3, Entered
  <2>5. held' \in [Handlers -> 0..Len(stream')]
    BY <1>2, <2>1, <2>4
  <2> QED BY <2>1, <2>2, <2>3, <2>4, <2>5 DEF RtTypeOK, Statuses
<1>4. ASSUME NEW h \in Handlers, Receive(h) PROVE RtTypeOK' /\ RowsOK'
  <2>1. PICK m \in 1..Len(stream) :
          /\ delivery' = [delivery EXCEPT ![m] = "out"]
          /\ held' = [held EXCEPT ![h] = m]
    BY <1>2, <1>4 DEF Receive
  <2>2. delivery' \in Seq(Statuses) /\ Len(delivery') = Len(delivery)
    BY <2>1, StatusChanges DEF Statuses
  <2>3. held' \in [Handlers -> 0..Len(stream)] /\ held'[h] # 0
        /\ \A g \in Handlers : g # h => held'[g] = held[g]
    BY <1>2, <2>1
  <2>4. Deliver(h) /\ UNCHANGED boxVars
    BY <1>4 DEF Receive
  <2>5. \A g \in Handlers : held'[g] = 0 <=> pc'[g] = "idle"
    BY <2>3, <2>4, HandlerAlone, HoldsMessage
  <2> QED BY <1>1, <2>2, <2>3, <2>4, <2>5, HandlerAlone
<1>5. ASSUME NEW h \in Handlers, Work(h) PROVE RtTypeOK' /\ RowsOK'
  <2>1. HandlerStep(h) /\ UNCHANGED <<boxVars, delivery, held>>
    BY <1>5 DEF Work
  <2> QED BY <1>1, <1>2, <2>1, WorkFrame, HoldsMessage
<1>6. ASSUME NEW h \in Handlers, Ack(h) \/ Nak(h) PROVE RtTypeOK' /\ RowsOK'
  <2>1. /\ Settle(h) /\ UNCHANGED boxVars /\ held' = [held EXCEPT ![h] = 0]
        /\ \E s \in Statuses : delivery' = [delivery EXCEPT ![held[h]] = s]
    <3>1. delivery[held[h]] \in Statuses
      BY <1>2, <1>6, HoldsMessage DEF Ack, Nak
    <3> QED BY <1>6, <3>1 DEF Ack, Nak, Statuses
  <2>2. delivery' \in Seq(Statuses) /\ Len(delivery') = Len(delivery)
    BY <2>1, HandlerAlone, HoldsMessage, StatusChanges
  <2>3. held' \in [Handlers -> 0..Len(stream)]
    BY <1>2, <2>1, HoldsMessage
  <2>4. \A g \in Handlers : held'[g] = 0 <=> pc'[g] = "idle"
    BY <1>2, <2>1, HandlerAlone, HoldsMessage
  <2> QED BY <1>1, <2>1, <2>2, <2>3, <2>4, HandlerAlone
<1>7. ASSUME NEW h \in Handlers, StatementFails(h) PROVE RtTypeOK' /\ RowsOK'
  <2>1. DbError(h) /\ UNCHANGED <<boxVars, delivery, held>>
    BY <1>7 DEF StatementFails
  <2> QED BY <1>1, <1>2, <2>1, HandlerAlone, HoldsMessage
<1>8. ASSUME NEW h \in Handlers, WorkerCrashes(h) PROVE RtTypeOK' /\ RowsOK'
  <2>1. Crash(h) /\ UNCHANGED <<boxVars, delivery>> /\ held' = [held EXCEPT ![h] = 0]
    BY <1>8 DEF WorkerCrashes
  <2>2. held' \in [Handlers -> 0..Len(stream)]
    BY <1>2, <2>1, HoldsMessage
  <2>3. \A g \in Handlers : held'[g] = 0 <=> pc'[g] = "idle"
    BY <1>2, <2>1, HandlerAlone, HoldsMessage
  <2> QED BY <1>1, <1>2, <2>1, <2>2, <2>3, HandlerAlone
<1>9. ASSUME NEW m \in Messages, AckWaitExpires(m) PROVE RtTypeOK' /\ RowsOK'
  <2>1. /\ m \in 1..Len(stream) /\ delivery' = [delivery EXCEPT ![m] = "ready"]
        /\ UNCHANGED <<vars, boxVars, held>>
    BY <1>2, <1>9 DEF AckWaitExpires
  <2>2. UNCHANGED <<pc, outbox>>
    BY <2>1 DEF vars, evidenceVars, handlerVars
  <2>3. delivery' \in Seq(Statuses) /\ Len(delivery') = Len(delivery)
    BY <2>1, StatusChanges DEF Statuses
  <2> QED BY <1>1, <1>2, <2>1, <2>2, <2>3, HoldsMessage
<1>10. ASSUME NEW r \in Requests, ApproveAndQueue(r) PROVE RtTypeOK' /\ RowsOK'
  <2>1. /\ outbox' = outbox + 1 /\ UNCHANGED <<pc, delivery, held>>
        /\ outbox' \in (1..MaxRows) \ inserted /\ inserted' = inserted \cup {outbox'}
        /\ UNCHANGED <<published, attempts, stream, batch, delivered, failures>>
    BY <1>10 DEF ApproveAndQueue, Approve, handlerVars, Box!queue_run_outbox, Box!publisherVars
  <2>2. Box!OutboxTypeOK'
    <3>1. Box!OutboxTypeOK
      BY DEF RtTypeOK
    <3>2. inserted \subseteq inserted' /\ inserted' \subseteq 1..MaxRows
      BY <2>1, <3>1 DEF Box!OutboxTypeOK
    <3>3. stream \in Seq(inserted')
      BY <3>1, <3>2, LargerSet DEF Box!OutboxTypeOK
    <3>4. batch \in [Publishers -> SUBSET inserted'] /\ delivered \in [Publishers -> SUBSET inserted']
      BY <3>1, <3>2 DEF Box!OutboxTypeOK
    <3> QED BY <2>1, <3>1, <3>2, <3>3, <3>4 DEF Box!OutboxTypeOK
  <2>3. inserted' = 1..outbox' /\ outbox \in Nat /\ outbox' # 0
    BY <2>1 DEF RowsOK, Inv, TypeOK
  <2>4. Cardinality(inserted') = outbox'
    <3>1. 1 \in Int /\ outbox' \in Int /\ ~(1 > outbox')
      BY <2>1, <2>3
    <3>2. Cardinality(1..outbox') = outbox' - 1 + 1
      BY <3>1, FS_Interval
    <3> QED BY <2>3, <3>1, <3>2
  <2>5. RowsOK'
    BY <2>1, <2>3 DEF RowsOK, InStream
  <2> QED BY <2>1, <2>2, <2>4, <2>5 DEF RtTypeOK
<1>11. CASE \/ Lapse \/ LoseCredential
            \/ \E r \in Requests : CheckRequest(r) \/ CancelOrRefuse(r) \/ RollBack(r)
  BY <1>1, <1>2, <1>11, Elsewhere, HoldsMessage
<1>12. CASE UNCHANGED rtVars
  <2>1. UNCHANGED <<boxVars, outbox, pc, delivery, held>>
    BY <1>12 DEF rtVars, vars, evidenceVars, handlerVars
  <2> QED BY <1>1, <1>2, <2>1, HoldsMessage
<1> QED BY <1>3, <1>4, <1>5, <1>6, <1>7, <1>8, <1>9, <1>10, <1>11, <1>12 DEF RtNext
-----------------------------------------------------------------------------
(* The histories.                                                          *)

\* The counters count and the histories remember.
LEMMA CountersStep ==
  ASSUME CountersOK, [RtNext]_rtVars
  PROVE  /\ CountersOK'
         /\ crashes' = 0 => crashes = 0
         /\ dbErrors' = 0 => dbErrors = 0
         /\ skipped => skipped'
         /\ overtaken => overtaken'
<1> USE DEF CountersOK, budgetVars
<1>1. ASSUME NEW h \in Handlers, Work(h)
      PROVE  UNCHANGED <<crashes, dbErrors, overtaken>> /\ skipped' \in BOOLEAN /\ (skipped => skipped')
  BY <1>1, Zenon DEF Work
<1>2. ASSUME NEW m \in Messages, AckWaitExpires(m)
      PROVE  UNCHANGED <<crashes, dbErrors, skipped>> /\ overtaken' \in BOOLEAN /\ (overtaken => overtaken')
  BY <1>2, Zenon DEF AckWaitExpires
<1>3. ASSUME NEW p \in Publishers, Publish(p) \/ PublisherFails(p) PROVE UNCHANGED budgetVars
  BY <1>3 DEF Publish, PublisherFails
<1>4. ASSUME NEW h \in Handlers, Receive(h) \/ Ack(h) \/ Nak(h) PROVE UNCHANGED budgetVars
  BY <1>4 DEF Receive, Ack, Nak
<1>5. ASSUME NEW h \in Handlers, StatementFails(h)
      PROVE  dbErrors' = dbErrors + 1 /\ UNCHANGED <<crashes, skipped, overtaken>>
  BY <1>5 DEF StatementFails
<1>6. ASSUME NEW h \in Handlers, WorkerCrashes(h)
      PROVE  crashes' = crashes + 1 /\ UNCHANGED <<dbErrors, skipped, overtaken>>
  BY <1>6 DEF WorkerCrashes
<1>7. ASSUME NEW r \in Requests, CheckRequest(r) \/ ApproveAndQueue(r) \/ CancelOrRefuse(r)
      PROVE  UNCHANGED budgetVars
  BY <1>7 DEF CheckRequest, ApproveAndQueue, CancelOrRefuse
<1>8. ASSUME NEW r \in Requests, RollBack(r)
      PROVE  dbErrors' = dbErrors + 1 /\ UNCHANGED <<crashes, skipped, overtaken>>
  BY <1>8 DEF RollBack
<1>9. Lapse \/ LoseCredential \/ UNCHANGED rtVars => UNCHANGED budgetVars
  BY DEF Lapse, LoseCredential, rtVars
<1> QED BY <1>1, <1>2, <1>3, <1>4, <1>5, <1>6, <1>7, <1>8, <1>9 DEF RtNext

-----------------------------------------------------------------------------
(* A queued run.                                                           *)

\* Nobody acknowledges the message of a queued run before the claim.
LEMMA QueuedStep ==
  ASSUME Inv, RtTypeOK, RowsOK, CountersOK, QueuedOK, [RtNext]_rtVars
  PROVE  QueuedOK'
<1> USE DEF boxVars, consumerVars, budgetVars
<1> DEFINE Goal ==
  /\ \A n \in 1..Len(stream') : stream'[n] = outbox' => delivery'[n] # "acked"
  /\ \A h \in Handlers :
       held'[h] # 0 /\ stream'[held'[h]] = outbox' => pc'[h] \in {"claiming", "nak"}
<1> SUFFICES ASSUME state' = "queued", ~skipped' PROVE Goal
  BY DEF QueuedOK
<1>1. ~skipped
  BY CountersStep
<1>2. /\ DOMAIN delivery = 1..Len(stream) /\ held \in [Handlers -> 0..Len(stream)]
      /\ Len(stream) \in Nat /\ delivery \in Seq(Statuses)
  BY DEF RtTypeOK, Box!OutboxTypeOK, Statuses
<1>3. state = "queued" =>
        /\ \A n \in 1..Len(stream) : stream[n] = outbox => delivery[n] # "acked"
        /\ \A h \in Handlers :
             held[h] # 0 /\ stream[held[h]] = outbox => pc[h] \in {"claiming", "nak"}
  BY <1>1 DEF QueuedOK
\* The steps that leave the stream alone.
<1>4. ASSUME state = "queued", UNCHANGED <<stream, outbox>>,
             \A n \in 1..Len(stream) :
               delivery'[n] = "acked" => delivery[n] = "acked" \/ stream[n] # outbox,
             \A h \in Handlers :
               \/ held'[h] = 0
               \/ held'[h] = held[h] /\ pc'[h] = pc[h]
               \/ pc'[h] \in {"claiming", "nak"}
               \/ stream[held'[h]] # outbox
      PROVE  Goal
  BY <1>3, <1>4
<1>5. ASSUME NEW p \in Publishers, Publish(p) \/ PublisherFails(p) PROVE Goal
  <2>1. /\ Box!publishPending(p) \/ Box!publisherFails(p)
        /\ EnterConsumer /\ UNCHANGED <<vars, held>>
    BY <1>5 DEF Publish, PublisherFails
  <2>2. UNCHANGED <<pc, outbox, state>>
    BY <2>1 DEF vars, rowVars, evidenceVars, handlerVars
  <2>3. stream' = stream \/ \E x \in inserted : stream' = Append(stream, x)
    BY <2>1, <2>2, PublisherStep DEF RtTypeOK
  <2>4. /\ \A n \in 1..Len(stream) : delivery'[n] = delivery[n] /\ stream'[n] = stream[n]
        /\ \A n \in 1..Len(stream') : n \in 1..Len(stream) \/ delivery'[n] = "ready"
    BY <2>1, <2>3, Entered
  <2>5. \A h \in Handlers : held[h] # 0 => stream'[held[h]] = stream[held[h]]
    BY <2>4, HoldsMessage
  <2> QED BY <1>3, <2>1, <2>2, <2>4, <2>5
<1>6. ASSUME NEW h \in Handlers, Receive(h) PROVE Goal
  <2>1. PICK m \in 1..Len(stream) :
          /\ delivery' = [delivery EXCEPT ![m] = "out"]
          /\ held' = [held EXCEPT ![h] = m]
    BY <1>2, <1>6 DEF Receive
  <2>2. Deliver(h) /\ UNCHANGED stream
    BY <1>6 DEF Receive
  <2> QED BY <1>2, <1>4, <2>1, <2>2, HandlerAlone
<1>7. ASSUME NEW h \in Handlers, Work(h) PROVE Goal
  <2>1. HandlerStep(h) /\ UNCHANGED <<stream, delivery, held>> /\ ~(Claimable /\ ClaimNoRows(h))
    <3>1. skipped' = (skipped \/ (Claimable /\ ClaimNoRows(h)))
      BY <1>7 DEF Work
    <3>2. ~(Claimable /\ ClaimNoRows(h))
      BY <3>1, Zenon
    <3> QED BY <1>7, <3>2 DEF Work
  <2>2. ~Claim(h)
    BY ClaimWorks
  <2>3. ~ClaimNoRows(h)
    BY <2>1 DEF ClaimNoRows, Claimable, rowVars
  <2>4. pc[h] \notin {"claiming", "nak", "idle"} /\ state = "queued"
    BY <2>1, <2>2, <2>3, WorkGoesOn, WorkFrame
  <2>5. stream[held[h]] # outbox
    BY <1>3, <2>4, HoldsMessage
  <2> QED BY <1>4, <2>1, <2>4, <2>5, WorkFrame
<1>8. ASSUME NEW h \in Handlers, Ack(h) PROVE Goal
  <2>1. /\ Settle(h) /\ pc[h] = "ack" /\ UNCHANGED stream /\ held' = [held EXCEPT ![h] = 0]
        /\ delivery' = [delivery EXCEPT ![held[h]] = "acked"]
    BY <1>8 DEF Ack
  <2>2. state = "queued" /\ outbox' = outbox
    BY <2>1, HandlerAlone
  <2>3. held[h] \in 1..Len(stream) /\ stream[held[h]] # outbox
    BY <1>3, <2>1, <2>2, HoldsMessage
  <2>4. \A n \in 1..Len(stream) : n # held[h] => delivery'[n] = delivery[n]
    BY <2>1, <2>3, StatusChanges DEF Statuses
  <2> QED BY <1>2, <1>4, <2>1, <2>2, <2>3, <2>4, HandlerAlone
<1>9. ASSUME NEW h \in Handlers, Nak(h) PROVE Goal
  <2>1. /\ Settle(h) /\ UNCHANGED stream /\ held' = [held EXCEPT ![h] = 0]
        /\ delivery' = [delivery EXCEPT ![held[h]] = IF @ = "out" THEN "ready" ELSE @]
    BY <1>9 DEF Nak
  <2>2. held[h] \in 1..Len(stream)
    BY <2>1, HandlerAlone, HoldsMessage
  <2>3. \A n \in 1..Len(stream) : delivery'[n] = "acked" => delivery[n] = "acked"
    BY <1>2, <2>1, <2>2
  <2> QED BY <1>2, <1>4, <2>1, <2>3, HandlerAlone
<1>10. ASSUME NEW h \in Handlers, StatementFails(h) PROVE Goal
  <2>1. DbError(h) /\ UNCHANGED <<stream, delivery, held>>
    BY <1>10 DEF StatementFails
  <2> QED BY <1>4, <2>1, HandlerAlone
<1>11. ASSUME NEW h \in Handlers, WorkerCrashes(h) PROVE Goal
  <2>1. Crash(h) /\ UNCHANGED <<stream, delivery>> /\ held' = [held EXCEPT ![h] = 0]
    BY <1>11 DEF WorkerCrashes
  <2> QED BY <1>2, <1>4, <2>1, HandlerAlone
<1>12. ASSUME NEW m \in Messages, AckWaitExpires(m) PROVE Goal
  <2>1. /\ m \in 1..Len(stream) /\ delivery' = [delivery EXCEPT ![m] = "ready"]
        /\ UNCHANGED <<vars, stream, held>>
    BY <1>2, <1>12 DEF AckWaitExpires
  <2>2. UNCHANGED <<pc, outbox, state>>
    BY <2>1 DEF vars, rowVars, evidenceVars, handlerVars
  <2>3. delivery'[m] = "ready" /\ \A n \in 1..Len(stream) : n # m => delivery'[n] = delivery[n]
    BY <2>1, StatusChanges DEF Statuses
  <2> QED BY <1>4, <2>1, <2>2, <2>3
\* The row of an approval is in no message yet.
<1>13. ASSUME NEW r \in Requests, ApproveAndQueue(r) PROVE Goal
  <2>1. outbox' \notin inserted /\ UNCHANGED <<stream, held>>
    BY <1>13 DEF ApproveAndQueue, Box!queue_run_outbox
  <2>2. \A n \in 1..Len(stream) : stream[n] \in inserted
    BY DEF RtTypeOK, Box!OutboxTypeOK
  <2>3. \A h \in Handlers : held[h] # 0 => stream[held[h]] \in inserted
    BY <2>2, HoldsMessage
  <2> QED BY <2>1, <2>2, <2>3
<1>14. CASE \/ Lapse \/ LoseCredential
            \/ \E r \in Requests : CheckRequest(r) \/ CancelOrRefuse(r) \/ RollBack(r)
  <2>1. UNCHANGED <<stream, delivery, held, pc, outbox>> /\ state = "queued"
    BY <1>14, Elsewhere
  <2> QED BY <1>4, <2>1
<1>15. CASE UNCHANGED rtVars
  <2>1. UNCHANGED <<stream, delivery, held, pc, outbox>> /\ state = "queued"
    BY <1>15 DEF rtVars, vars, rowVars, evidenceVars, handlerVars
  <2> QED BY <1>4, <2>1
<1> HIDE DEF Goal
<1> QED BY <1>5, <1>6, <1>7, <1>8, <1>9, <1>10, <1>11, <1>12, <1>13, <1>14, <1>15 DEF RtNext
-----------------------------------------------------------------------------
(* A running run.                                                          *)

\* A message that has a handler is not given to another one.
LEMMA HeldStep ==
  ASSUME Inv, RtTypeOK, RowsOK, CountersOK, HeldOK, [RtNext]_rtVars
  PROVE  HeldOK'
<1> USE DEF boxVars, consumerVars, budgetVars
<1> DEFINE Goal ==
  /\ \A h \in Handlers : held'[h] # 0 => delivery'[held'[h]] = "out"
  /\ \A g, h \in Handlers : held'[g] = held'[h] /\ held'[g] # 0 => g = h
<1> SUFFICES ASSUME ~overtaken' PROVE Goal
  BY DEF HeldOK
<1>1. /\ \A h \in Handlers : held[h] # 0 => delivery[held[h]] = "out"
      /\ \A g, h \in Handlers : held[g] = held[h] /\ held[g] # 0 => g = h
  BY CountersStep DEF HeldOK
<1>2. /\ DOMAIN delivery = 1..Len(stream) /\ held \in [Handlers -> 0..Len(stream)]
      /\ Len(stream) \in Nat /\ delivery \in Seq(Statuses)
  BY DEF RtTypeOK, Box!OutboxTypeOK, Statuses
<1>3. ASSUME NEW p \in Publishers, Publish(p) \/ PublisherFails(p) PROVE Goal
  <2>1. /\ Box!publishPending(p) \/ Box!publisherFails(p)
        /\ EnterConsumer /\ UNCHANGED <<vars, held>>
    BY <1>3 DEF Publish, PublisherFails
  <2>2. outbox' = outbox
    BY <2>1 DEF vars, evidenceVars
  <2>3. stream' = stream \/ \E x \in inserted : stream' = Append(stream, x)
    BY <2>1, <2>2, PublisherStep DEF RtTypeOK
  <2>4. \A n \in 1..Len(stream) : delivery'[n] = delivery[n]
    BY <2>1, <2>3, Entered
  <2> QED BY <1>1, <2>1, <2>4, HoldsMessage
<1>4. ASSUME NEW h \in Handlers, Receive(h) PROVE Goal
  <2>1. PICK m \in 1..Len(stream) :
          /\ delivery[m] = "ready"
          /\ delivery' = [delivery EXCEPT ![m] = "out"]
          /\ held' = [held EXCEPT ![h] = m]
    BY <1>2, <1>4 DEF Receive
  <2>2. \A g \in Handlers : held[g] # m
    BY <1>1, <1>2, <2>1
  <2>3. delivery'[m] = "out" /\ \A n \in 1..Len(stream) : n # m => delivery'[n] = delivery[n]
    BY <2>1, StatusChanges DEF Statuses
  <2>4. held'[h] = m /\ \A g \in Handlers : g # h => held'[g] = held[g]
    BY <1>2, <2>1
  <2> QED BY <1>1, <2>2, <2>3, <2>4, HoldsMessage
<1>5. ASSUME NEW h \in Handlers, Ack(h) \/ Nak(h) PROVE Goal
  <2>1. /\ Settle(h) /\ held' = [held EXCEPT ![h] = 0]
        /\ \E s \in Statuses : delivery' = [delivery EXCEPT ![held[h]] = s]
    <3>1. delivery[held[h]] \in Statuses
      BY <1>2, <1>5, HoldsMessage DEF Ack, Nak
    <3> QED BY <1>5, <3>1 DEF Ack, Nak, Statuses
  <2>2. held[h] \in 1..Len(stream)
    BY <2>1, HandlerAlone, HoldsMessage
  <2>3. \A n \in 1..Len(stream) : n # held[h] => delivery'[n] = delivery[n]
    BY <2>1, <2>2, StatusChanges
  <2>4. held'[h] = 0 /\ \A g \in Handlers : g # h => held'[g] = held[g]
    BY <1>2, <2>1
  <2> QED BY <1>1, <2>2, <2>3, <2>4, HoldsMessage
<1>6. ASSUME NEW h \in Handlers, WorkerCrashes(h) PROVE Goal
  <2>1. UNCHANGED delivery /\ held' = [held EXCEPT ![h] = 0]
    BY <1>6 DEF WorkerCrashes
  <2> QED BY <1>1, <1>2, <2>1
<1>7. ASSUME NEW m \in Messages, AckWaitExpires(m) PROVE Goal
  <2>1. /\ m \in 1..Len(stream) /\ delivery' = [delivery EXCEPT ![m] = "ready"]
        /\ UNCHANGED held /\ overtaken' = (overtaken \/ AtWork(m))
    BY <1>2, <1>7 DEF AckWaitExpires
  <2>2. ~AtWork(m)
    BY <2>1, Zenon
  <2>3. \A h \in Handlers : held[h] # m
    BY <2>2 DEF AtWork
  <2>4. \A n \in 1..Len(stream) : n # m => delivery'[n] = delivery[n]
    BY <2>1, StatusChanges DEF Statuses
  <2> QED BY <1>1, <2>1, <2>3, <2>4, HoldsMessage
<1>8. ASSUME UNCHANGED <<delivery, held>> PROVE Goal
  BY <1>1, <1>8
<1>9. ASSUME NEW h \in Handlers, Work(h) \/ StatementFails(h) PROVE Goal
  BY <1>8, <1>9 DEF Work, StatementFails
<1>10. ASSUME NEW r \in Requests, ApproveAndQueue(r) PROVE Goal
  BY <1>8, <1>10 DEF ApproveAndQueue
<1>11. CASE \/ Lapse \/ LoseCredential
            \/ \E r \in Requests : CheckRequest(r) \/ CancelOrRefuse(r) \/ RollBack(r)
  BY <1>8, <1>11, Elsewhere
<1>12. CASE UNCHANGED rtVars
  BY <1>8, <1>12 DEF rtVars
<1> HIDE DEF Goal
<1> QED BY <1>3, <1>4, <1>5, <1>6, <1>7, <1>9, <1>10, <1>11, <1>12 DEF RtNext

\* Without a crash or an error, a run that stays running is worked on, and one
\* that starts to run is.
LEMMA WorkedStays ==
  ASSUME Inv, CountersOK, [RtNext]_rtVars, state' = "running", dbErrors' = 0,
         \A h \in Handlers : ~WorkerCrashes(h),
         state = "running" => Worked
  PROVE  Worked'
<1> USE DEF boxVars, consumerVars, budgetVars
<1>1. ASSUME UNCHANGED <<state, pc>> PROVE Worked'
  BY <1>1 DEF Worked
<1>2. ASSUME NEW p \in Publishers, Publish(p) \/ PublisherFails(p) PROVE Worked'
  <2>1. UNCHANGED vars
    BY <1>2 DEF Publish, PublisherFails
  <2> QED BY <1>1, <2>1 DEF vars, rowVars, handlerVars
<1>3. ASSUME NEW m \in Messages, AckWaitExpires(m) PROVE Worked'
  <2>1. UNCHANGED vars
    BY <1>3 DEF AckWaitExpires
  <2> QED BY <1>1, <2>1 DEF vars, rowVars, handlerVars
<1>4. ASSUME NEW h \in Handlers, Receive(h) \/ Ack(h) \/ Nak(h) PROVE Worked'
  <2>1. /\ Deliver(h) \/ Settle(h)
        /\ pc[h] \in {"idle", "ack", "nak"}
    BY <1>4 DEF Receive, Ack, Nak, Deliver
  <2>2. state = "running" /\ pc[h] \notin AtWorkPcs
    BY <2>1, HandlerAlone DEF AtWorkPcs, ExecutingPcs, FailurePcs
  <2> QED BY <2>1, <2>2, HandlerAlone DEF Worked
<1>5. ASSUME NEW h \in Handlers, Work(h) PROVE Worked'
  <2>1. HandlerStep(h)
    BY <1>5 DEF Work
  <2>2. CASE Claim(h)
    BY <2>2, ClaimWorks DEF Worked
  <2>3. CASE ClaimNoRows(h)
    <3>1. state' = state /\ pc[h] \notin AtWorkPcs
      BY <2>3 DEF ClaimNoRows, rowVars, AtWorkPcs, ExecutingPcs, FailurePcs
    <3> QED BY <2>1, <3>1, WorkFrame DEF Worked
  <2>4. CASE ~Claim(h) /\ ~ClaimNoRows(h)
    BY <2>1, <2>4, WorkGoesOn, WorkFrame DEF Worked
  <2> QED BY <2>2, <2>3, <2>4
<1>6. ASSUME NEW h \in Handlers, StatementFails(h) PROVE FALSE
  BY <1>6 DEF StatementFails, CountersOK
<1>7. ASSUME NEW r \in Requests, ApproveAndQueue(r) PROVE FALSE
  BY <1>7 DEF ApproveAndQueue, Approve
<1>8. CASE \/ Lapse \/ LoseCredential
           \/ \E r \in Requests : CheckRequest(r) \/ CancelOrRefuse(r) \/ RollBack(r)
  BY <1>8, Elsewhere DEF Worked
<1>9. CASE UNCHANGED rtVars
  BY <1>1, <1>9 DEF rtVars, vars, rowVars, handlerVars
<1> QED BY <1>2, <1>3, <1>4, <1>5, <1>6, <1>7, <1>8, <1>9 DEF RtNext

\* Without a crash or an error, a running run has its executor.
LEMMA WorkedStep ==
  ASSUME Inv, CountersOK, WorkedOK, [RtNext]_rtVars
  PROVE  WorkedOK'
<1> SUFFICES ASSUME state' = "running", crashes' = 0, dbErrors' = 0 PROVE Worked'
  BY DEF WorkedOK
<1>1. crashes = 0 /\ dbErrors = 0
  BY CountersStep
<1>2. \A h \in Handlers : ~WorkerCrashes(h)
  BY <1>1 DEF WorkerCrashes
<1> QED BY <1>1, <1>2, WorkedStays DEF WorkedOK

\* The message of a crashed executor is there until the next claim.
LEMMA ReturnsStep ==
  ASSUME Inv, RunningHasLease, RtTypeOK, RowsOK, CountersOK, HeldOK, ReturnsOK, [RtNext]_rtVars
  PROVE  ReturnsOK'
<1> USE DEF boxVars, consumerVars, budgetVars
<1> DEFINE Goal ==
  \/ Worked'
  \/ \E m \in 1..Len(stream') : Left(m)'
  \/ lease' = "expired" /\ \E m \in 1..Len(stream') : Returning(m)'
<1> SUFFICES ASSUME state' = "running", ~overtaken', dbErrors' = 0, ~skipped' PROVE Goal
  BY DEF ReturnsOK
<1>1. ~overtaken /\ dbErrors = 0 /\ ~skipped
  BY CountersStep
<1>2. /\ DOMAIN delivery = 1..Len(stream) /\ held \in [Handlers -> 0..Len(stream)]
      /\ Len(stream) \in Nat /\ delivery \in Seq(Statuses)
  BY DEF RtTypeOK, Box!OutboxTypeOK, Statuses
<1>3. /\ \A h \in Handlers : held[h] # 0 => delivery[held[h]] = "out"
      /\ \A g, h \in Handlers : held[g] = held[h] /\ held[g] # 0 => g = h
  BY <1>1 DEF HeldOK
\* The crash leaves its message behind.
<1>4. ASSUME NEW h \in Handlers, WorkerCrashes(h) PROVE Goal
  <2>1. Crash(h) /\ UNCHANGED <<stream, delivery>> /\ held' = [held EXCEPT ![h] = 0]
    BY <1>4 DEF WorkerCrashes
  <2>2. PICK m \in 1..Len(stream) : held[h] = m
    BY <2>1, HandlerAlone, HoldsMessage
  <2>3. Left(m)'
    <3>1. m # 0 /\ held'[h] = 0 /\ \A g \in Handlers : g # h => held'[g] = held[g]
      BY <1>2, <2>1
    <3> QED BY <1>3, <2>1, <2>2, <3>1 DEF Left
  <2> QED BY <2>1, <2>2, <2>3
<1>5. CASE /\ \A h \in Handlers : ~WorkerCrashes(h)
           /\ state = "running" => Worked
  BY <1>5, WorkedStays
<1>6. CASE /\ \A h \in Handlers : ~WorkerCrashes(h)
           /\ state = "running" /\ ~Worked
  <2>1. \/ \E m \in 1..Len(stream) : Left(m)
        \/ lease = "expired" /\ \E m \in 1..Len(stream) : Returning(m)
    BY <1>1, <1>6 DEF ReturnsOK
  <2>2. ASSUME UNCHANGED <<stream, delivery, held, pc>>, lease' \in {lease, "expired"} PROVE Goal
    BY <2>1, <2>2 DEF Left, Returning
  <2>3. ASSUME NEW p \in Publishers, Publish(p) \/ PublisherFails(p) PROVE Goal
    <3>1. /\ Box!publishPending(p) \/ Box!publisherFails(p)
          /\ EnterConsumer /\ UNCHANGED <<vars, held>>
      BY <2>3 DEF Publish, PublisherFails
    <3>2. UNCHANGED <<pc, outbox, lease>>
      BY <3>1 DEF vars, rowVars, evidenceVars, handlerVars
    <3>3. stream' = stream \/ \E x \in inserted : stream' = Append(stream, x)
      BY <3>1, <3>2, PublisherStep DEF RtTypeOK
    <3>4. /\ \A n \in 1..Len(stream) : delivery'[n] = delivery[n]
          /\ Len(stream') \in {Len(stream), Len(stream) + 1}
      BY <3>1, <3>3, Entered
    <3>5. \A n \in 1..Len(stream) :
            n \in 1..Len(stream') /\ (Left(n) => Left(n)') /\ (Returning(n) => Returning(n)')
      BY <1>2, <3>1, <3>2, <3>4 DEF Left, Returning
    <3> QED BY <2>1, <3>2, <3>5
  <2>4. ASSUME NEW h \in Handlers, Receive(h) PROVE Goal
    <3>1. PICK x \in 1..Len(stream) :
            /\ delivery[x] = "ready"
            /\ delivery' = [delivery EXCEPT ![x] = "out"]
            /\ held' = [held EXCEPT ![h] = x]
      BY <1>2, <2>4 DEF Receive
    <3>2. Deliver(h) /\ UNCHANGED stream
      BY <2>4 DEF Receive
    <3>3. delivery'[x] = "out" /\ \A n \in 1..Len(stream) : n # x => delivery'[n] = delivery[n]
      BY <3>1, StatusChanges DEF Statuses
    <3>4. held'[h] = x /\ \A g \in Handlers : g # h => held'[g] = held[g]
      BY <1>2, <3>1
    <3>5. pc[h] = "idle" /\ pc'[h] = "claiming" /\ lease' = lease
          /\ \A g \in Handlers : g # h => pc'[g] = pc[g]
      BY <3>2, HandlerAlone
    <3>6. \A n \in 1..Len(stream) : (Left(n) => Left(n)') /\ (Returning(n) => Returning(n)')
      BY <3>1, <3>3, <3>4, <3>5 DEF Left, Returning
    <3> QED BY <2>1, <3>2, <3>5, <3>6
  <2>5. ASSUME NEW h \in Handlers, Work(h) PROVE Goal
    <3>1. HandlerStep(h) /\ UNCHANGED <<stream, delivery, held>> /\ ~(Claimable /\ ClaimNoRows(h))
      <4>1. skipped' = (skipped \/ (Claimable /\ ClaimNoRows(h)))
        BY <2>5 DEF Work
      <4>2. ~(Claimable /\ ClaimNoRows(h))
        BY <4>1, Zenon
      <4> QED BY <2>5, <4>2 DEF Work
    <3>2. \A n : Left(n) => Left(n)'
      BY <3>1 DEF Left
    <3>3. CASE Claim(h)
      BY <3>3, ClaimWorks DEF Worked
    <3>4. CASE ClaimNoRows(h)
      <4>1. lease # "expired"
        BY <1>6, <3>1, <3>4 DEF Claimable
      <4> QED BY <2>1, <3>1, <3>2, <4>1
    <3>5. CASE ~Claim(h) /\ ~ClaimNoRows(h)
      <4>1. pc[h] # "claiming" /\ (Worked' \/ lease' = lease)
        BY <3>1, <3>5, WorkGoesOn DEF Worked
      <4>2. \A n : Returning(n) => Returning(n)'
        BY <3>1, <4>1, WorkFrame DEF Returning
      <4> QED BY <2>1, <3>1, <3>2, <4>1, <4>2
    <3> QED BY <3>3, <3>4, <3>5
  <2>6. ASSUME NEW h \in Handlers, Ack(h) \/ Nak(h) PROVE Goal
    <3>1. /\ Settle(h) /\ held' = [held EXCEPT ![h] = 0] /\ UNCHANGED stream
          /\ pc[h] \in {"ack", "nak"}
          /\ \E s \in Statuses : delivery' = [delivery EXCEPT ![held[h]] = s]
      <4>1. delivery[held[h]] \in Statuses
        BY <1>2, <2>6, HoldsMessage DEF Ack, Nak
      <4> QED BY <2>6, <4>1 DEF Ack, Nak, Statuses
    <3>2. held[h] \in 1..Len(stream) /\ held[h] # 0
      BY <3>1, HandlerAlone, HoldsMessage
    <3>3. \A n \in 1..Len(stream) : n # held[h] => delivery'[n] = delivery[n]
      BY <3>1, <3>2, StatusChanges
    <3>4. held'[h] = 0 /\ \A g \in Handlers : g # h => held'[g] = held[g]
      BY <1>2, <3>1
    <3>5. lease' = lease /\ \A g \in Handlers : g # h => pc'[g] = pc[g]
      BY <3>1, HandlerAlone
    <3>6. \A n \in 1..Len(stream) : Left(n) => Left(n)'
      BY <3>2, <3>3, <3>4 DEF Left
    <3>7. ASSUME NEW n \in 1..Len(stream), Returning(n) PROVE Returning(n)'
      <4>1. CASE delivery[n] = "ready"
        BY <1>3, <3>2, <3>3, <4>1 DEF Returning
      <4>2. ASSUME delivery[n] = "out", NEW g \in Handlers, held[g] = n, pc[g] = "claiming"
            PROVE  Returning(n)'
        <5>1. g # h /\ n # held[h]
          BY <1>3, <3>1, <3>2, <4>2
        <5> QED BY <3>3, <3>4, <3>5, <4>2, <5>1 DEF Returning
      <4> QED BY <3>7, <4>1, <4>2 DEF Returning
    <3> QED BY <2>1, <3>1, <3>5, <3>6, <3>7
  <2>7. ASSUME NEW x \in Messages, AckWaitExpires(x) PROVE Goal
    <3>1. /\ x \in 1..Len(stream) /\ delivery[x] = "out"
          /\ delivery' = [delivery EXCEPT ![x] = "ready"]
          /\ UNCHANGED <<vars, stream, held>> /\ overtaken' = (overtaken \/ AtWork(x))
      BY <1>2, <2>7 DEF AckWaitExpires
    <3>2. ~AtWork(x)
      BY <3>1, Zenon
    <3>3. lease = "expired" /\ \A h \in Handlers : held[h] # x
      BY <1>6, <3>2 DEF AtWork, RunningHasLease, Inv, TypeOK
    <3>4. UNCHANGED <<pc, lease>>
      BY <3>1 DEF vars, rowVars, handlerVars
    <3>5. delivery'[x] = "ready"
      BY <3>1, StatusChanges DEF Statuses
    <3> QED BY <3>1, <3>3, <3>4, <3>5 DEF Returning
  <2>8. ASSUME NEW h \in Handlers, StatementFails(h) PROVE FALSE
    BY <1>1, <2>8 DEF StatementFails
  <2>9. ASSUME NEW r \in Requests, ApproveAndQueue(r) PROVE FALSE
    BY <2>9 DEF ApproveAndQueue, Approve
  <2>10. CASE \/ Lapse \/ LoseCredential
              \/ \E r \in Requests : CheckRequest(r) \/ CancelOrRefuse(r) \/ RollBack(r)
    BY <2>2, <2>10, Elsewhere
  <2>11. CASE UNCHANGED rtVars
    BY <2>2, <2>11 DEF rtVars, vars, rowVars, handlerVars
  <2> HIDE DEF Goal
  <2> QED BY <1>6, <2>3, <2>4, <2>5, <2>6, <2>7, <2>8, <2>9, <2>10, <2>11 DEF RtNext
<1> HIDE DEF Goal
<1> QED BY <1>4, <1>5, <1>6
-----------------------------------------------------------------------------
(* The theorems.                                                           *)

\* The run as createRun leaves it, with the first row of its outbox.
LEMMA RtInitially == RtInit => RtInv
<1> SUFFICES ASSUME RtInit PROVE RtInv
  OBVIOUS
<1>1. /\ inserted = {1} /\ published = {} /\ attempts = [r \in 1..MaxRows |-> 0]
      /\ stream = <<>> /\ failures = 0
      /\ batch = [p \in Publishers |-> {}] /\ delivered = [p \in Publishers |-> {}]
  BY DEF RtInit, Box!OutboxInit
<1>2. /\ outbox = 1 /\ state = "queued" /\ pc = [h \in Handlers |-> "idle"]
      /\ delivery = <<>> /\ held = [h \in Handlers |-> 0]
  BY DEF RtInit, Init
<1>3. Box!OutboxTypeOK
  <2>1. 1 \in 1..MaxRows /\ 0 \in 0..MaxFailures
    BY BoundsAssumption
  <2> QED BY <1>1, <2>1 DEF Box!OutboxTypeOK
<1>4. RtTypeOK
  <2>1. Cardinality({1}) = 1
    BY FS_Singleton, Zenon
  <2>2. <<>> \in Seq({"ready", "out", "acked"}) /\ Len(<<>>) = 0
    OBVIOUS
  <2> QED BY <1>1, <1>2, <1>3, <2>1, <2>2 DEF RtTypeOK
<1>5. RowsOK
  <2>1. 1..1 = {1}
    OBVIOUS
  <2> QED BY <1>1, <1>2, <2>1 DEF RowsOK
<1>6. CountersOK
  <2>1. skipped \in BOOLEAN /\ overtaken \in BOOLEAN
    BY Zenon DEF RtInit
  <2> QED BY <2>1 DEF RtInit, CountersOK
<1>7. QueuedOK /\ HeldOK /\ WorkedOK /\ ReturnsOK
  <2>1. Len(stream) = 0 /\ \A h \in Handlers : held[h] = 0
    BY <1>1, <1>2
  <2> QED BY <1>2, <2>1 DEF QueuedOK, HeldOK, WorkedOK, ReturnsOK
<1> QED BY <1>4, <1>5, <1>6, <1>7 DEF RtInv

\* The invariant of the runtime, on top of those of the run.
LEMMA RtInvariance == RtSpec => []RtInv
<1>1. RtInit => RtInv
  BY RtInitially
<1>2. Inv /\ RunningHasLease /\ RtInv /\ [RtNext]_rtVars => RtInv'
  BY TypeStep, CountersStep, QueuedStep, HeldStep, WorkedStep, ReturnsStep DEF RtInv
<1> QED BY <1>1, <1>2, RuntimeExecutesRuns, Invariance, RunningIsLeased, PTL DEF RtSpec

\* Type correctness of the composition: every message of the stream has its
\* status at the consumer, a handler holds one exactly when it is not idle, and
\* each queueing of the run has its own outbox row.
THEOREM RtTypeCorrect == RtSpec => []RtTypeOK
<1>1. RtInv => RtTypeOK
  BY DEF RtInv
<1> QED BY RtInvariance, <1>1, PTL

\* The run is not forgotten, for any number of handlers, publishers, messages,
\* crashes and approvals: while it needs a worker it has one, or a message on
\* its way, but for the three ways the code loses the last message.
THEOREM RunIsNotForgotten == RtSpec => []NeverForgotten
<1>1. Inv /\ RtInv => NeverForgotten
  <2> SUFFICES ASSUME Inv, RtInv, Active, dbErrors = 0, ~skipped, ~(overtaken /\ crashes > 0),
                      inserted = published
               PROVE  (\E m \in DOMAIN delivery : delivery[m] # "acked") \/ Executors # {}
    BY DEF NeverForgotten
  <2>1. DOMAIN delivery = 1..Len(stream)
    BY DEF RtInv, RtTypeOK
  <2>2. CASE state = "queued"
    <3>1. outbox \in inserted
      <4>1. outbox \in Nat /\ inserted = 1..outbox /\ outbox = Cardinality(inserted)
        BY DEF Inv, TypeOK, RtInv, RowsOK, RtTypeOK
      <4>2. outbox # 0
        BY DEF RtInv, RowsOK
      <4> QED BY <4>1, <4>2
    <3>2. PICK n \in 1..Len(stream) : stream[n] = outbox
      BY <3>1 DEF RtInv, RowsOK, InStream
    <3> QED BY <2>1, <2>2, <3>2 DEF RtInv, QueuedOK
  <2>3. CASE state = "running"
    <3>1. CASE Worked
      BY <3>1 DEF Worked, AtWorkPcs, Executors
    <3>2. CASE ~Worked
      <4>1. ~overtaken
        BY <2>3, <3>2 DEF RtInv, WorkedOK, CountersOK
      <4>2. \E m \in 1..Len(stream) : Left(m) \/ Returning(m)
        BY <2>3, <3>2, <4>1 DEF RtInv, ReturnsOK
      <4> QED BY <2>1, <4>2 DEF Left, Returning
    <3> QED BY <3>1, <3>2
  <2> QED BY <2>2, <2>3 DEF Active, Inv, RowOK
<1> QED BY RtInvariance, RuntimeExecutesRuns, Invariance, <1>1, PTL
=============================================================================
