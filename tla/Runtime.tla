-------------------------------- MODULE Runtime --------------------------------
(***************************************************************************)
(* The path of one run through the whole runtime: the control plane's      *)
(* transactions fill the outbox (Outbox), a publisher copies it to         *)
(* JetStream, the durable consumer hands messages to worker handlers, and  *)
(* the handlers execute the run (RunExecution).                            *)
(*                                                                         *)
(* JetStream is external.  The consumer is configured in                   *)
(* services/worker/main.go with explicit acks, an AckWait of two minutes   *)
(* and no limit on deliveries: a message is delivered until it is acked,   *)
(* at once after a Nak, and after AckWait when the handler says nothing.   *)
(* The handlers never extend AckWait.                                      *)
(***************************************************************************)
EXTENDS RunExecution

CONSTANTS
  Publishers, limit,  \* as in Outbox
  MaxRows,            \* bound on the rows of the outbox
  MaxFailures,        \* bound on publisher failures
  MaxCrashes,         \* bound on worker crashes
  MaxDbErrors,        \* bound on errors reported by the workers' statements
  SlowHandlers        \* whether a handler may outlive AckWait, or have renewed
                      \* its lease less than 30 seconds before AckWait ends

ASSUME BoundsAssumption ==
  /\ MaxRows \in Nat \ {0}
  /\ MaxFailures \in Nat
  /\ MaxCrashes \in Nat
  /\ MaxDbErrors \in Nat
  /\ SlowHandlers \in BOOLEAN

VARIABLES
  inserted, published, attempts, stream, batch, delivered, failures,  \* Outbox
  delivery,   \* the consumer's view of each message of the stream
  held,       \* the message each handler works on, or 0
  crashes, dbErrors,
  skipped,    \* history: skip locked hid a run that could have been claimed
  overtaken   \* history: a message was delivered again while its handler was
              \* at work or the run's lease was live

Box == INSTANCE Outbox WITH Rows <- 1..MaxRows

boxVars == <<inserted, published, attempts, stream, batch, delivered, failures>>
consumerVars == <<delivery, held>>
budgetVars == <<crashes, dbErrors, skipped, overtaken>>
rtVars == <<vars, boxVars, consumerVars, budgetVars>>

Messages == 1..(MaxRows * (Cardinality(Publishers) + MaxFailures))

RtInit ==
  /\ Init
  /\ Box!OutboxInit({1})
  /\ delivery = <<>>
  /\ held = [h \in Handlers |-> 0]
  /\ crashes = 0
  /\ dbErrors = 0
  /\ skipped = FALSE
  /\ overtaken = FALSE

\* A message that reaches the stream is ready for delivery.
EnterConsumer ==
  delivery' = delivery \o [n \in 1..(Len(stream') - Len(stream)) |-> "ready"]

Publish(p) ==
  /\ Box!publishPending(p)
  /\ EnterConsumer
  /\ UNCHANGED <<vars, held, budgetVars>>

PublisherFails(p) ==
  /\ Box!publisherFails(p)
  /\ EnterConsumer
  /\ UNCHANGED <<vars, held, budgetVars>>

\* The iterator's next message reaches a goroutine through the jobs channel.
Receive(h) ==
  /\ Deliver(h)
  /\ \E m \in DOMAIN delivery :
       /\ delivery[m] = "ready"
       /\ delivery' = [delivery EXCEPT ![m] = "out"]
       /\ held' = [held EXCEPT ![h] = m]
  /\ UNCHANGED <<boxVars, budgetVars>>

Work(h) ==
  /\ HandlerStep(h)
  /\ skipped' = (skipped \/ (Claimable /\ ClaimNoRows(h)))
  /\ UNCHANGED <<boxVars, consumerVars, crashes, dbErrors, overtaken>>

Ack(h) ==
  /\ pc[h] = "ack"
  /\ Settle(h)
  /\ delivery' = [delivery EXCEPT ![held[h]] = "acked"]
  /\ held' = [held EXCEPT ![h] = 0]
  /\ UNCHANGED <<boxVars, budgetVars>>

Nak(h) ==
  /\ pc[h] = "nak"
  /\ Settle(h)
  /\ delivery' = [delivery EXCEPT ![held[h]] = IF @ = "out" THEN "ready" ELSE @]
  /\ held' = [held EXCEPT ![h] = 0]
  /\ UNCHANGED <<boxVars, budgetVars>>

StatementFails(h) ==
  /\ DbError(h)
  /\ dbErrors < MaxDbErrors
  /\ dbErrors' = dbErrors + 1
  /\ UNCHANGED <<boxVars, consumerVars, crashes, skipped, overtaken>>

\* Mutant: the message of a handler that crashed is still assigned to it.
WorkerCrashesHolding(h) ==
  /\ Crash(h)
  /\ crashes < MaxCrashes
  /\ crashes' = crashes + 1
  /\ UNCHANGED <<boxVars, consumerVars, dbErrors, skipped, overtaken>>

WorkerCrashes(h) ==
  /\ Crash(h)
  /\ crashes < MaxCrashes
  /\ crashes' = crashes + 1
  /\ held' = [held EXCEPT ![h] = 0]
  /\ UNCHANGED <<boxVars, delivery, dbErrors, skipped, overtaken>>

\* Mutant: the consumer gives up after one delivery.
AckWaitExpiresOnce(m) ==
  /\ m \in DOMAIN delivery
  /\ delivery[m] = "out"
  /\ \A h \in Handlers : held[h] # m
  /\ delivery' = [delivery EXCEPT ![m] = "acked"]
  /\ UNCHANGED <<vars, boxVars, held, budgetVars>>

AtWork(m) == lease = "live" \/ \E h \in Handlers : held[h] = m

\* Two minutes have passed since the message was delivered.
AckWaitExpires(m) ==
  /\ m \in DOMAIN delivery
  /\ delivery[m] = "out"
  /\ AtWork(m) => SlowHandlers
  /\ delivery' = [delivery EXCEPT ![m] = "ready"]
  /\ overtaken' = (overtaken \/ AtWork(m))
  /\ UNCHANGED <<vars, boxVars, held, crashes, dbErrors, skipped>>

\* The control plane; its approve transaction inserts the next outbox row.
ApproveAndQueue(r) ==
  /\ Approve(r)
  /\ Box!queue_run_outbox(outbox')
  /\ UNCHANGED <<consumerVars, budgetVars>>

CheckRequest(r) ==
  /\ CheckApprove(r) \/ CheckCancel(r)
  /\ UNCHANGED <<boxVars, consumerVars, budgetVars>>

CancelOrRefuse(r) ==
  /\ Cancel(r) \/ RequestRefused(r)
  /\ UNCHANGED <<boxVars, consumerVars, budgetVars>>

RollBack(r) ==
  /\ RequestRollsBack(r)
  /\ dbErrors < MaxDbErrors
  /\ dbErrors' = dbErrors + 1
  /\ UNCHANGED <<boxVars, consumerVars, crashes, skipped, overtaken>>

Lapse ==
  /\ LeaseExpires
  /\ UNCHANGED <<boxVars, consumerVars, budgetVars>>

LoseCredential ==
  /\ CredentialLost
  /\ UNCHANGED <<boxVars, consumerVars, budgetVars>>

RtNext ==
  \/ \E p \in Publishers : Publish(p) \/ PublisherFails(p)
  \/ \E h \in Handlers : \/ Receive(h) \/ Work(h) \/ Ack(h) \/ Nak(h)
                         \/ StatementFails(h) \/ WorkerCrashes(h)
  \/ \E m \in Messages : AckWaitExpires(m)
  \/ \E r \in Requests : \/ CheckRequest(r) \/ ApproveAndQueue(r)
                         \/ CancelOrRefuse(r) \/ RollBack(r)
  \/ Lapse
  \/ LoseCredential

\* Publishers and handlers run as long as they have something to do, the
\* consumer delivers what is ready, a request that was begun is finished, and
\* time passes.  Nothing obliges an operator to act, nor a process to fail.
RtFairness ==
  /\ \A p \in Publishers : WF_rtVars(Publish(p))
  /\ \A h \in Handlers : WF_rtVars(Receive(h)) /\ WF_rtVars(Work(h) \/ Ack(h) \/ Nak(h))
  /\ \A m \in Messages : WF_rtVars(AckWaitExpires(m))
  /\ \A r \in Requests : WF_rtVars(ApproveAndQueue(r) \/ CancelOrRefuse(r))
  /\ WF_rtVars(Lapse)

RtSpec == RtInit /\ [][RtNext]_rtVars /\ RtFairness

-----------------------------------------------------------------------------
(* Correctness.                                                            *)

Active == state \in {"queued", "leased", "running"}

\* The types of the composed state: every message of the stream has a status,
\* a handler that works holds a message, and each queued outbox row of the run
\* is one that queue_run_outbox inserted.
RtTypeOK ==
  /\ Box!OutboxTypeOK
  /\ delivery \in Seq({"ready", "out", "acked"}) /\ Len(delivery) = Len(stream)
  /\ held \in [Handlers -> 0..Len(stream)]
  /\ \A h \in Handlers : held[h] = 0 <=> pc[h] = "idle"
  /\ outbox = Cardinality(inserted)

\* A run that needs a worker has one, or has a message on its way: a row not
\* published yet or a message not acknowledged, whatever crashes, lapses,
\* approvals and cancellations do.  Nothing else ever looks for the run.  The
\* three ways the code loses the last message are excluded: a Nak after the
\* claim, a claim that meets a locked row, and the crash of a handler whose
\* message was delivered again, and acknowledged as a duplicate, meanwhile.
NeverForgotten ==
  Active /\ dbErrors = 0 /\ ~skipped /\ ~(overtaken /\ crashes > 0) =>
    \/ inserted # published
    \/ \E m \in DOMAIN delivery : delivery[m] # "acked"
    \/ Executors # {}

\* A run that needs a worker comes to rest: finished, cancelled, or waiting for
\* an approval.
RunsComeToRest == Active ~> ~Active
=============================================================================
