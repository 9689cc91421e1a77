-------------------------------- MODULE Outbox --------------------------------
(***************************************************************************)
(* The transactional outbox and its publishers                             *)
(* (services/control-plane/src/outbox-publisher.ts, publish.ts, and the    *)
(* claimPendingOutbox and markOutboxPublished of postgres-store.ts).       *)
(*                                                                         *)
(* A publisher claims a batch in one transaction, publishes its rows one   *)
(* after the other, and marks the whole batch in a second transaction.     *)
(* Nothing locks the rows in between.  Any error leaves publishPending by  *)
(* an exception that ends the process, and a new process starts over.      *)
(***************************************************************************)
EXTENDS Integers, FiniteSets, Sequences

CONSTANTS
  Rows,         \* ids of workflow_outbox, in the order of the table's sequence
  Publishers,   \* publisher processes
  limit,        \* the batch size
  MaxFailures   \* bound on the number of publisher failures explored

ASSUME RowsAssumption == Rows \subseteq Nat
ASSUME LimitAssumption == limit \in Nat \ {0}
ASSUME PublishersAssumption == IsFiniteSet(Publishers)
ASSUME MaxFailuresAssumption == MaxFailures \in Nat

VARIABLES
  inserted,   \* rows that queue_run_outbox has inserted
  published,  \* rows whose published_at is set
  attempts,   \* workflow_outbox.attempts
  stream,     \* the JetStream stream: the rows published, in order
  batch,      \* the rows each publisher has claimed
  delivered,  \* those of them whose publish was acknowledged
  failures    \* number of publisher failures so far

publisherVars == <<batch, delivered>>
outboxVars == <<inserted, published, attempts, stream, publisherVars, failures>>

OutboxInit(rows) ==
  /\ inserted = rows
  /\ published = {}
  /\ attempts = [r \in Rows |-> 0]
  /\ stream = <<>>
  /\ batch = [p \in Publishers |-> {}]
  /\ delivered = [p \in Publishers |-> {}]
  /\ failures = 0

\* queue_run_outbox, inside the transaction that queues the run.
queue_run_outbox(r) ==
  /\ r \in Rows \ inserted
  /\ inserted' = inserted \cup {r}
  /\ UNCHANGED <<published, attempts, stream, publisherVars, failures>>

\* Mutant: a row that was claimed once is not claimed again.
PendingOnce == {r \in inserted \ published : attempts[r] = 0}

Pending == inserted \ published

\* The rows that skip locked may hide from p: none, or the batch of another
\* publisher whose claim or mark overlaps p's claim.
Locked(p) ==
  {{}} \cup {batch[q] : q \in {o \in Publishers \ {p} : delivered[o] \in {{}, batch[o]}}}

\* The first limit pending rows that are not locked, by id.
PendingBatch(locked) ==
  LET free == Pending \ locked
  IN  {r \in free : Cardinality({q \in free : q < r}) < limit}

\* Mutant: the rows are marked as published when they are claimed.
claimPendingOutboxAndMark(p) ==
  /\ batch[p] = {}
  /\ \E locked \in Locked(p) :
       /\ PendingBatch(locked) # {}
       /\ batch' = [batch EXCEPT ![p] = PendingBatch(locked)]
  /\ attempts' = [r \in Rows |-> attempts[r] + IF r \in batch'[p] THEN 1 ELSE 0]
  /\ published' = published \cup batch'[p]
  /\ UNCHANGED <<inserted, stream, delivered, failures>>

\* Mutant: attempts is counted for the first row of the batch only.
claimPendingOutboxCountsOne(p) ==
  /\ batch[p] = {}
  /\ \E locked \in Locked(p) :
       /\ PendingBatch(locked) # {}
       /\ batch' = [batch EXCEPT ![p] = PendingBatch(locked)]
  /\ \E first \in batch'[p] :
       /\ \A r \in batch'[p] : first <= r
       /\ attempts' = [attempts EXCEPT ![first] = @ + 1]
  /\ UNCHANGED <<inserted, published, stream, delivered, failures>>

claimPendingOutbox(p) ==
  /\ batch[p] = {}
  /\ \E locked \in Locked(p) :
       /\ PendingBatch(locked) # {}
       /\ batch' = [batch EXCEPT ![p] = PendingBatch(locked)]
  /\ attempts' = [r \in Rows |-> attempts[r] + IF r \in batch'[p] THEN 1 ELSE 0]
  /\ UNCHANGED <<inserted, published, stream, delivered, failures>>

\* The row a publisher sends next.
NextRow(p) ==
  {r \in batch[p] \ delivered[p] : \A q \in batch[p] \ delivered[p] : r <= q}

publish(p) ==
  \E r \in NextRow(p) :
    /\ stream' = Append(stream, r)
    /\ delivered' = [delivered EXCEPT ![p] = @ \cup {r}]
    /\ UNCHANGED <<inserted, published, attempts, batch, failures>>

\* Mutant: only the last row that was delivered is marked.
markOutboxPublishedLast(p) ==
  /\ batch[p] # {} /\ delivered[p] = batch[p]
  /\ \E r \in batch[p] : published' = published \cup {r}
  /\ batch' = [batch EXCEPT ![p] = {}]
  /\ delivered' = [delivered EXCEPT ![p] = {}]
  /\ UNCHANGED <<inserted, attempts, stream, failures>>

markOutboxPublished(p) ==
  /\ batch[p] # {} /\ delivered[p] = batch[p]
  /\ published' = published \cup delivered[p]
  /\ batch' = [batch EXCEPT ![p] = {}]
  /\ delivered' = [delivered EXCEPT ![p] = {}]
  /\ UNCHANGED <<inserted, attempts, stream, failures>>

\* Mutant: the list of delivered rows survives the failure.
publisherFailsKeepsDelivered(p) ==
  /\ batch[p] # {}
  /\ failures < MaxFailures
  /\ failures' = failures + 1
  /\ batch' = [batch EXCEPT ![p] = {}]
  /\ UNCHANGED <<inserted, published, attempts, stream, delivered>>

\* The process ends with a batch in hand: it crashes, or a publish or the
\* marking throws.  A publish that throws may have reached the stream.
publisherFails(p) ==
  /\ batch[p] # {}
  /\ failures < MaxFailures
  /\ failures' = failures + 1
  /\ batch' = [batch EXCEPT ![p] = {}]
  /\ delivered' = [delivered EXCEPT ![p] = {}]
  /\ \/ UNCHANGED stream
     \/ \E r \in NextRow(p) : stream' = Append(stream, r)
  /\ UNCHANGED <<inserted, published, attempts>>

\* One iteration of runOutboxPublisher's loop, step by step.
publishPending(p) == claimPendingOutbox(p) \/ publish(p) \/ markOutboxPublished(p)

OutboxNext ==
  \/ \E r \in Rows : queue_run_outbox(r)
  \/ \E p \in Publishers : publishPending(p) \/ publisherFails(p)

\* The publishers poll until they are stopped, and Kubernetes restarts them.
OutboxSpec ==
  /\ OutboxInit({})
  /\ [][OutboxNext]_outboxVars
  /\ \A p \in Publishers : WF_outboxVars(publishPending(p))

-----------------------------------------------------------------------------
(* Correctness.                                                            *)

Copies(r) == Cardinality({n \in 1..Len(stream) : stream[n] = r})

\* Every variable has its type, and a publisher has delivered what it claimed.
OutboxTypeOK ==
  /\ inserted \subseteq Rows
  /\ published \subseteq inserted
  /\ attempts \in [Rows -> Nat]
  /\ stream \in Seq(inserted)
  /\ batch \in [Publishers -> SUBSET inserted]
  /\ delivered \in [Publishers -> SUBSET inserted]
  /\ \A p \in Publishers : delivered[p] \subseteq batch[p]
  /\ failures \in 0..MaxFailures

\* At-least-once hand-over: a row is marked only when its message is in the
\* stream, wherever a publisher fails between the claim and the mark.
MarkedIsStreamed == \A r \in published : Copies(r) >= 1

\* Every duplicate in the stream is accounted for in the row's attempts, also
\* when several publishers hold the same row.
CopiesAreCounted == \A r \in Rows : Copies(r) <= attempts[r]

\* A row has at most one message per publisher and one more per failure.  With
\* the single publisher the chart deploys, only a failure duplicates a message;
\* several publishers can hold the same row without one, because the row locks
\* of claimPendingOutbox end with its transaction.
DuplicatesBounded == \A r \in Rows : Copies(r) <= Cardinality(Publishers) + failures

\* A row that was inserted is eventually marked as published, and stays so.
EventuallyPublished == \A r \in Rows : r \in inserted ~> [](r \in published)
=============================================================================
