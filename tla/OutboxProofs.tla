----------------------------- MODULE OutboxProofs -----------------------------
(***************************************************************************)
(* Proofs about Outbox, for any rows, any finite number of publishers, any *)
(* batch size and any number of failures.                                  *)
(*                                                                         *)
(* The counting properties are carried by two sets for each row: the       *)
(* publishers that have claimed it and not sent it (Owed), each of which   *)
(* may still add a copy, and those that have sent it and not marked it     *)
(* (Unmarked).  A copy without such a publisher is paid for by a failure   *)
(* or ends the claims of the row, because the row is marked.               *)
(***************************************************************************)
EXTENDS Outbox, FiniteSetTheorems, TLAPS

InStream(r) == \E n \in 1..Len(stream) : stream[n] = r

Owed(r) == {p \in Publishers : r \in batch[p] \ delivered[p]}

Unmarked(r) == {p \in Publishers : r \in delivered[p]}

\* What is marked, or is about to be, is in the stream.
StreamedOK ==
  /\ \A r \in published : InStream(r)
  /\ \A p \in Publishers : \A r \in delivered[p] : InStream(r)

\* Every copy sent, or still to be sent, has its attempt.
CountedOK == \A r \in Rows : Copies(r) + Cardinality(Owed(r)) <= attempts[r]

\* Until a row is marked, a copy is a publisher's that will mark it or a
\* failure's; afterwards only those that had claimed it before add copies.
BoundedOK ==
  \A r \in Rows :
    /\ r \notin published => Copies(r) <= Cardinality(Unmarked(r)) + failures
    /\ r \in published =>
         Copies(r) + Cardinality(Owed(r)) <= Cardinality(Publishers) + failures

OutboxInv == OutboxTypeOK /\ StreamedOK /\ CountedOK /\ BoundedOK

-----------------------------------------------------------------------------
(* Counting.                                                               *)

\* The number of copies of a row in a sequence.
Count(q, r) == Cardinality({n \in 1..Len(q) : q[n] = r})

\* What a publish adds to the copies.
LEMMA CountAppended ==
  ASSUME NEW S, NEW s \in Seq(S), NEW x \in S, NEW r
  PROVE  /\ x = r => Count(Append(s, x), r) = Count(s, r) + 1
         /\ x # r => Count(Append(s, x), r) = Count(s, r)
<1> DEFINE Places(q) == {n \in 1..Len(q) : q[n] = r}
           t == Append(s, x)
<1>1. /\ Len(s) \in Nat /\ Len(t) = Len(s) + 1
      /\ t[Len(s) + 1] = x /\ \A n \in 1..Len(s) : t[n] = s[n]
  OBVIOUS
<1>2. IsFiniteSet(1..Len(s))
  BY <1>1, FS_Interval
<1>3. IsFiniteSet(Places(s))
  <2>1. Places(s) \in SUBSET (1..Len(s))
    OBVIOUS
  <2> QED BY <1>2, <2>1, FS_Subset
<1>5. CASE x = r
  <2> HIDE DEF t
  <2>1. Places(t) = Places(s) \cup {Len(s) + 1}
    BY <1>1, <1>5
  <2>2. Len(s) + 1 \notin Places(s)
    BY <1>1
  <2>3. Cardinality(Places(t)) = Cardinality(Places(s)) + 1
    <3> HIDE DEF Places
    <3> QED BY <1>3, <2>1, <2>2, FS_AddElement
  <2> QED BY <1>5, <2>3 DEF t, Count
<1>6. CASE x # r
  <2>1. Places(t) = Places(s)
    <3> HIDE DEF t
    <3> QED BY <1>1, <1>6
  <2> QED BY <1>6, <2>1 DEF Count
<1> QED BY <1>5, <1>6

\* The copies of a row before and after a publish.
LEMMA CopiesAppended ==
  ASSUME OutboxTypeOK, NEW x \in inserted, stream' = Append(stream, x), NEW r
  PROVE  /\ x = r => Copies(r)' = Copies(r) + 1
         /\ x # r => Copies(r)' = Copies(r)
<1>1. Copies(r) = Count(stream, r) /\ Copies(r)' = Count(stream', r)
  BY DEF Copies, Count
<1> QED BY <1>1, CountAppended DEF OutboxTypeOK

\* The numbers are natural, and a publisher either owes a row or has sent it.
LEMMA Numbers ==
  ASSUME OutboxTypeOK, NEW r
  PROVE  /\ Copies(r) \in Nat
         /\ IsFiniteSet(Owed(r)) /\ Cardinality(Owed(r)) \in Nat
         /\ IsFiniteSet(Unmarked(r)) /\ Cardinality(Unmarked(r)) \in Nat
         /\ Cardinality(Publishers) \in Nat
         /\ Cardinality(Owed(r)) + Cardinality(Unmarked(r)) <= Cardinality(Publishers)
<1>1. Copies(r) \in Nat
  <2>1. Len(stream) \in Nat /\ {n \in 1..Len(stream) : stream[n] = r} \in SUBSET (1..Len(stream))
    BY DEF OutboxTypeOK
  <2>2. IsFiniteSet(1..Len(stream))
    BY <2>1, FS_Interval
  <2>3. IsFiniteSet({n \in 1..Len(stream) : stream[n] = r})
    BY <2>1, <2>2, FS_Subset
  <2> QED BY <2>3, FS_CardinalityType DEF Copies
<1>2. Owed(r) \in SUBSET Publishers /\ Unmarked(r) \in SUBSET Publishers
      /\ Owed(r) \cap Unmarked(r) = {}
  BY DEF Owed, Unmarked
<1>3. IsFiniteSet(Owed(r)) /\ IsFiniteSet(Unmarked(r))
  BY <1>2, FS_Subset, PublishersAssumption
<1>4. /\ Cardinality(Owed(r)) \in Nat /\ Cardinality(Unmarked(r)) \in Nat
      /\ Cardinality(Publishers) \in Nat
  BY <1>3, FS_CardinalityType, PublishersAssumption
<1>5. Cardinality(Owed(r)) + Cardinality(Unmarked(r)) = Cardinality(Owed(r) \cup Unmarked(r))
  <2>1. Cardinality(Owed(r) \cap Unmarked(r)) = 0
    BY <1>2, FS_EmptySet
  <2> QED BY <1>3, <1>4, <2>1, FS_Union
<1>6. Cardinality(Owed(r) \cup Unmarked(r)) <= Cardinality(Publishers)
  <2>1. Owed(r) \cup Unmarked(r) \in SUBSET Publishers
    BY <1>2
  <2> QED BY <2>1, FS_Subset, PublishersAssumption
<1> QED BY <1>1, <1>3, <1>4, <1>5, <1>6

\* A set loses one element at most.
LEMMA Removed ==
  ASSUME NEW S, NEW x, IsFiniteSet(S)
  PROVE  /\ x \in S => Cardinality(S \ {x}) = Cardinality(S) - 1
         /\ x \notin S => Cardinality(S \ {x}) = Cardinality(S)
BY FS_RemoveElement

\* What is in the stream stays there.
LEMMA StreamStays ==
  ASSUME OutboxTypeOK, NEW x \in inserted,
         stream' = stream \/ stream' = Append(stream, x), NEW r, InStream(r)
  PROVE  InStream(r)'
<1>1. PICK n \in 1..Len(stream) : stream[n] = r
  BY DEF InStream
<1>2. Len(stream) \in Nat /\ n \in 1..Len(stream') /\ stream'[n] = stream[n]
  <2>1. Len(stream) \in Nat /\ n \in 1..(Len(stream) + 1)
    BY <1>1 DEF OutboxTypeOK
  <2>2. CASE stream' = stream
    BY <2>1, <2>2
  <2>3. CASE stream' = Append(stream, x)
    BY <2>1, <2>3 DEF OutboxTypeOK
  <2> QED BY <2>2, <2>3
<1> QED BY <1>1, <1>2 DEF InStream

\* The row that was sent is in the stream.
LEMMA SentIsStreamed ==
  ASSUME OutboxTypeOK, NEW x \in inserted, stream' = Append(stream, x)
  PROVE  InStream(x)'
<1>1. Len(stream') = Len(stream) + 1 /\ stream'[Len(stream) + 1] = x /\ Len(stream) \in Nat
  BY DEF OutboxTypeOK
<1> QED BY <1>1 DEF InStream

-----------------------------------------------------------------------------
(* The steps.                                                              *)

\* An outbox with new rows only satisfies the invariant.
LEMMA OutboxInitially == ASSUME NEW rows \in SUBSET Rows, OutboxInit(rows) PROVE OutboxInv
<1>1. OutboxTypeOK
  BY MaxFailuresAssumption DEF OutboxInit, OutboxTypeOK
<1>2. StreamedOK
  BY DEF OutboxInit, StreamedOK
<1>3. ASSUME NEW r \in Rows
      PROVE  Copies(r) = 0 /\ Cardinality(Owed(r)) = 0
  <2>1. {n \in 1..Len(stream) : stream[n] = r} = {} /\ Owed(r) = {}
    BY DEF OutboxInit, Owed
  <2> QED BY <2>1, FS_EmptySet DEF Copies
<1>4. CountedOK
  BY <1>3 DEF CountedOK, OutboxInit
<1>5. BoundedOK
  BY <1>1, <1>3, Numbers DEF BoundedOK, OutboxInit
<1> QED BY <1>1, <1>2, <1>4, <1>5 DEF OutboxInv

\* A new row is in no batch.
LEMMA QueueStep ==
  ASSUME OutboxInv, NEW x \in Rows, queue_run_outbox(x)
  PROVE  OutboxInv'
<1> USE DEF OutboxInv, publisherVars
<1>1. /\ UNCHANGED <<published, attempts, stream, batch, delivered, failures>>
      /\ inserted' = inserted \cup {x}
  BY DEF queue_run_outbox
<1>2. OutboxTypeOK'
  BY <1>1 DEF OutboxTypeOK
<1>3. StreamedOK' /\ CountedOK' /\ BoundedOK'
  BY <1>1 DEF StreamedOK, CountedOK, BoundedOK, InStream, Copies, Owed, Unmarked
<1> QED BY <1>2, <1>3

\* A claim owes the rows of its batch, and counts an attempt for each.
LEMMA ClaimStep ==
  ASSUME OutboxInv, NEW p \in Publishers, claimPendingOutbox(p)
  PROVE  OutboxInv'
<1> USE DEF OutboxInv
<1>1. PICK B \in SUBSET (inserted \ published) : batch' = [batch EXCEPT ![p] = B]
  BY DEF claimPendingOutbox, PendingBatch, Pending
<1>2. /\ batch[p] = {} /\ delivered[p] = {}
      /\ batch'[p] = B
      /\ attempts' = [r \in Rows |-> attempts[r] + IF r \in B THEN 1 ELSE 0]
      /\ UNCHANGED <<inserted, published, stream, delivered, failures>>
  BY <1>1 DEF claimPendingOutbox, OutboxTypeOK
<1>3. OutboxTypeOK'
  BY <1>1, <1>2 DEF OutboxTypeOK
<1>4. StreamedOK'
  BY <1>2 DEF StreamedOK, InStream
<1>5. ASSUME NEW r \in Rows
      PROVE  /\ Copies(r)' = Copies(r)
             /\ Unmarked(r)' = Unmarked(r)
             /\ r \in B => Cardinality(Owed(r)') = Cardinality(Owed(r)) + 1
             /\ r \notin B => Owed(r)' = Owed(r)
  <2>1. Copies(r)' = Copies(r) /\ Unmarked(r)' = Unmarked(r)
    BY <1>2 DEF Copies, Unmarked
  <2>2. p \notin Owed(r) /\ IsFiniteSet(Owed(r))
    BY <1>2, Numbers DEF Owed
  <2>3. CASE r \in B
    <3>1. Owed(r)' = Owed(r) \cup {p}
      BY <1>1, <1>2, <2>3 DEF Owed, OutboxTypeOK
    <3> QED BY <2>1, <2>2, <2>3, <3>1, FS_AddElement
  <2>4. CASE r \notin B
    BY <1>1, <1>2, <2>1, <2>4 DEF Owed, OutboxTypeOK
  <2> QED BY <2>3, <2>4
<1>6. ASSUME NEW r \in Rows
      PROVE  Copies(r)' + Cardinality(Owed(r)') <= attempts'[r]
  <2>1. attempts[r] \in Nat /\ Copies(r) \in Nat /\ Cardinality(Owed(r)) \in Nat
    BY Numbers DEF OutboxTypeOK
  <2>2. Copies(r) + Cardinality(Owed(r)) <= attempts[r]
    BY DEF CountedOK
  <2> QED BY <1>2, <1>5, <2>1, <2>2
<1>7. BoundedOK'
  BY <1>1, <1>2, <1>5 DEF BoundedOK
<1> QED BY <1>3, <1>4, <1>6, <1>7 DEF CountedOK

\* A row that p sends moves from what p owes to what p has sent.
LEMMA PublishStep ==
  ASSUME OutboxInv, NEW p \in Publishers, publish(p)
  PROVE  OutboxInv'
<1> USE DEF OutboxInv
<1>1. PICK x \in batch[p] \ delivered[p] :
        /\ stream' = Append(stream, x)
        /\ delivered' = [delivered EXCEPT ![p] = @ \cup {x}]
        /\ UNCHANGED <<inserted, published, attempts, batch, failures>>
  BY DEF publish, NextRow
<1>2. x \in inserted /\ x \in Rows
  BY <1>1 DEF OutboxTypeOK
<1>3. OutboxTypeOK'
  BY <1>1, <1>2 DEF OutboxTypeOK
<1>4. StreamedOK'
  <2>1. \A r : InStream(r) => InStream(r)'
    BY <1>1, <1>2, StreamStays
  <2>2. InStream(x)'
    BY <1>1, <1>2, SentIsStreamed
  <2> QED BY <1>1, <2>1, <2>2 DEF StreamedOK, OutboxTypeOK
<1>5. ASSUME NEW r \in Rows
      PROVE  /\ r = x => /\ Copies(r)' = Copies(r) + 1
                         /\ Cardinality(Owed(r)') = Cardinality(Owed(r)) - 1
                         /\ Cardinality(Unmarked(r)') = Cardinality(Unmarked(r)) + 1
             /\ r # x => /\ Copies(r)' = Copies(r)
                         /\ Owed(r)' = Owed(r)
                         /\ Unmarked(r)' = Unmarked(r)
  <2>1. CASE r = x
    <3>1. p \in Owed(r) /\ p \notin Unmarked(r)
      BY <1>1, <2>1 DEF Owed, Unmarked
    <3>2. Owed(r)' = Owed(r) \ {p} /\ Unmarked(r)' = Unmarked(r) \cup {p}
      BY <1>1, <2>1 DEF Owed, Unmarked, OutboxTypeOK
    <3>3. IsFiniteSet(Owed(r)) /\ IsFiniteSet(Unmarked(r))
      BY Numbers
    <3>4. Cardinality(Owed(r)') = Cardinality(Owed(r)) - 1
      BY <3>1, <3>2, <3>3, FS_RemoveElement
    <3>5. Cardinality(Unmarked(r)') = Cardinality(Unmarked(r)) + 1
      BY <3>1, <3>2, <3>3, FS_AddElement
    <3> QED BY <1>1, <1>2, <2>1, <3>4, <3>5, CopiesAppended
  <2>2. CASE r # x
    <3>1. Owed(r)' = Owed(r) /\ Unmarked(r)' = Unmarked(r)
      BY <1>1, <2>2 DEF Owed, Unmarked, OutboxTypeOK
    <3> QED BY <1>1, <1>2, <2>2, <3>1, CopiesAppended
  <2> QED BY <2>1, <2>2
<1>6. ASSUME NEW r \in Rows
      PROVE  /\ Copies(r)' + Cardinality(Owed(r)') <= attempts'[r]
             /\ r \notin published' => Copies(r)' <= Cardinality(Unmarked(r)') + failures'
             /\ r \in published' =>
                  Copies(r)' + Cardinality(Owed(r)') <= Cardinality(Publishers) + failures'
  <2>1. attempts[r] \in Nat /\ failures \in Nat
    BY MaxFailuresAssumption DEF OutboxTypeOK
  <2>2. /\ Copies(r) + Cardinality(Owed(r)) <= attempts[r]
        /\ r \notin published => Copies(r) <= Cardinality(Unmarked(r)) + failures
        /\ r \in published =>
             Copies(r) + Cardinality(Owed(r)) <= Cardinality(Publishers) + failures
    BY DEF CountedOK, BoundedOK
  <2>3. /\ Copies(r) \in Nat /\ Cardinality(Publishers) \in Nat
        /\ Cardinality(Owed(r)) \in Nat /\ Cardinality(Unmarked(r)) \in Nat
    BY Numbers
  <2>4. CASE r = x
    BY <1>1, <1>5, <2>1, <2>2, <2>3, <2>4
  <2>5. CASE r # x
    BY <1>1, <1>5, <2>1, <2>2, <2>3, <2>5
  <2> QED BY <2>4, <2>5
<1> QED BY <1>3, <1>4, <1>6 DEF CountedOK, BoundedOK

\* A publisher that marks a row owes nothing; whoever else has claimed the row
\* still owes it or has sent it.
LEMMA MarkStep ==
  ASSUME OutboxInv, NEW p \in Publishers, markOutboxPublished(p)
  PROVE  OutboxInv'
<1> USE DEF OutboxInv
<1>1. /\ delivered[p] = batch[p]
      /\ published' = published \cup delivered[p]
      /\ batch' = [batch EXCEPT ![p] = {}]
      /\ delivered' = [delivered EXCEPT ![p] = {}]
      /\ UNCHANGED <<inserted, attempts, stream, failures>>
  BY DEF markOutboxPublished
<1>2. OutboxTypeOK'
  BY <1>1 DEF OutboxTypeOK
<1>3. StreamedOK'
  BY <1>1 DEF StreamedOK, InStream, OutboxTypeOK
<1>4. ASSUME NEW r \in Rows
      PROVE  /\ Copies(r)' = Copies(r)
             /\ Owed(r)' = Owed(r)
             /\ r \notin delivered[p] => Unmarked(r)' = Unmarked(r)
  BY <1>1 DEF Copies, Owed, Unmarked, OutboxTypeOK
<1>5. CountedOK'
  BY <1>1, <1>4 DEF CountedOK
<1>6. ASSUME NEW r \in Rows
      PROVE  /\ r \notin published' => Copies(r)' <= Cardinality(Unmarked(r)') + failures'
             /\ r \in published' =>
                  Copies(r)' + Cardinality(Owed(r)') <= Cardinality(Publishers) + failures'
  <2>1. failures \in Nat
    BY MaxFailuresAssumption DEF OutboxTypeOK
  <2>2. /\ r \notin published => Copies(r) <= Cardinality(Unmarked(r)) + failures
        /\ r \in published =>
             Copies(r) + Cardinality(Owed(r)) <= Cardinality(Publishers) + failures
    BY DEF BoundedOK
  <2> QED BY <1>1, <1>4, <2>1, <2>2, Numbers
<1> QED BY <1>2, <1>3, <1>5, <1>6 DEF BoundedOK

\* A failure forgets what the publisher owed and sent, and may add one copy of
\* a row that it owed.
LEMMA FailureStep ==
  ASSUME OutboxInv, NEW p \in Publishers, publisherFails(p)
  PROVE  OutboxInv'
<1> USE DEF OutboxInv
<1>1. /\ failures' = failures + 1 /\ failures < MaxFailures
      /\ batch' = [batch EXCEPT ![p] = {}]
      /\ delivered' = [delivered EXCEPT ![p] = {}]
      /\ UNCHANGED <<inserted, published, attempts>>
      /\ \/ stream' = stream
         \/ \E x \in batch[p] \ delivered[p] : stream' = Append(stream, x)
  BY DEF publisherFails, NextRow
<1>2. OutboxTypeOK'
  <2>1. stream' \in Seq(inserted)
    <3>1. stream \in Seq(inserted) /\ \A x \in batch[p] : x \in inserted
      BY DEF OutboxTypeOK
    <3>2. \A x \in inserted : Append(stream, x) \in Seq(inserted)
      BY <3>1
    <3> QED BY <1>1, <3>1, <3>2
  <2> QED BY <1>1, <2>1, MaxFailuresAssumption DEF OutboxTypeOK
<1>3. StreamedOK'
  <2>1. \A r : InStream(r) => InStream(r)'
    <3>1. CASE stream' = stream
      BY <3>1 DEF InStream
    <3>2. ASSUME NEW x \in batch[p] \ delivered[p], stream' = Append(stream, x)
          PROVE  \A r : InStream(r) => InStream(r)'
      <4>1. x \in inserted
        BY DEF OutboxTypeOK
      <4> QED BY <3>2, <4>1, StreamStays
    <3> QED BY <1>1, <3>1, <3>2
  <2> QED BY <1>1, <2>1 DEF StreamedOK, OutboxTypeOK
<1>4. ASSUME NEW r \in Rows
      PROVE  /\ Copies(r)' \in {Copies(r), Copies(r) + 1}
             /\ Copies(r)' = Copies(r) + 1 => p \in Owed(r) /\ p \notin Unmarked(r)
             /\ p \in Owed(r) => Cardinality(Owed(r)') = Cardinality(Owed(r)) - 1
             /\ p \notin Owed(r) => Cardinality(Owed(r)') = Cardinality(Owed(r))
             /\ p \in Unmarked(r) => Cardinality(Unmarked(r)') = Cardinality(Unmarked(r)) - 1
             /\ p \notin Unmarked(r) => Cardinality(Unmarked(r)') = Cardinality(Unmarked(r))
  <2>1. Owed(r)' = Owed(r) \ {p} /\ Unmarked(r)' = Unmarked(r) \ {p}
    BY <1>1 DEF Owed, Unmarked, OutboxTypeOK
  <2>2. /\ IsFiniteSet(Owed(r)) /\ Cardinality(Owed(r)) \in Nat
        /\ IsFiniteSet(Unmarked(r)) /\ Cardinality(Unmarked(r)) \in Nat
        /\ Copies(r) \in Nat
    BY Numbers
  <2>3. /\ p \in Owed(r) => Cardinality(Owed(r)') = Cardinality(Owed(r)) - 1
        /\ p \notin Owed(r) => Cardinality(Owed(r)') = Cardinality(Owed(r))
    BY <2>1, <2>2, Removed
  <2>4. /\ p \in Unmarked(r) => Cardinality(Unmarked(r)') = Cardinality(Unmarked(r)) - 1
        /\ p \notin Unmarked(r) => Cardinality(Unmarked(r)') = Cardinality(Unmarked(r))
    BY <2>1, <2>2, Removed
  <2>5. \/ Copies(r)' = Copies(r)
        \/ Copies(r)' = Copies(r) + 1 /\ p \in Owed(r) /\ p \notin Unmarked(r)
    <3>1. CASE stream' = stream
      BY <3>1 DEF Copies
    <3>2. ASSUME NEW x \in batch[p] \ delivered[p], stream' = Append(stream, x)
          PROVE  \/ Copies(r)' = Copies(r)
                 \/ Copies(r)' = Copies(r) + 1 /\ p \in Owed(r) /\ p \notin Unmarked(r)
      <4>1. x \in inserted
        BY DEF OutboxTypeOK
      <4>2. x = r => p \in Owed(r) /\ p \notin Unmarked(r)
        BY DEF Owed, Unmarked
      <4> QED BY <3>2, <4>1, <4>2, CopiesAppended
    <3> QED BY <1>1, <3>1, <3>2
  <2> QED BY <2>2, <2>3, <2>4, <2>5
<1>5. ASSUME NEW r \in Rows
      PROVE  /\ Copies(r)' + Cardinality(Owed(r)') <= attempts'[r]
             /\ r \notin published' => Copies(r)' <= Cardinality(Unmarked(r)') + failures'
             /\ r \in published' =>
                  Copies(r)' + Cardinality(Owed(r)') <= Cardinality(Publishers) + failures'
  <2>1. attempts[r] \in Nat /\ failures \in Nat
    BY MaxFailuresAssumption DEF OutboxTypeOK
  <2>2. /\ Copies(r) + Cardinality(Owed(r)) <= attempts[r]
        /\ r \notin published => Copies(r) <= Cardinality(Unmarked(r)) + failures
        /\ r \in published =>
             Copies(r) + Cardinality(Owed(r)) <= Cardinality(Publishers) + failures
    BY DEF CountedOK, BoundedOK
  <2>3. /\ Copies(r) \in Nat /\ Cardinality(Publishers) \in Nat
        /\ Cardinality(Owed(r)) \in Nat /\ Cardinality(Unmarked(r)) \in Nat
    BY Numbers
  <2>4. CASE Copies(r)' = Copies(r) + 1
    BY <1>1, <1>4, <2>1, <2>2, <2>3, <2>4
  <2>5. CASE Copies(r)' = Copies(r)
    BY <1>1, <1>4, <2>1, <2>2, <2>3, <2>5
  <2> QED BY <1>4, <2>4, <2>5
<1> QED BY <1>2, <1>3, <1>5 DEF CountedOK, BoundedOK

-----------------------------------------------------------------------------
\* Every step of a publisher, and every insert, preserves the invariant.
LEMMA OutboxStep == OutboxInv /\ [OutboxNext]_outboxVars => OutboxInv'
<1> SUFFICES ASSUME OutboxInv, [OutboxNext]_outboxVars PROVE OutboxInv'
  OBVIOUS
<1>1. CASE UNCHANGED outboxVars
  BY <1>1 DEF outboxVars, publisherVars, OutboxInv, OutboxTypeOK, StreamedOK, CountedOK,
     BoundedOK, InStream, Copies, Owed, Unmarked
<1> QED
  BY <1>1, QueueStep, ClaimStep, PublishStep, MarkStep, FailureStep
  DEF OutboxNext, publishPending

\* The invariant holds whatever rows createRun has inserted before the
\* publishers start, and without any fairness.  The composed runtime starts
\* with the row of its run.
THEOREM OutboxFromAnyRows ==
  ASSUME NEW CONSTANT rows \in SUBSET Rows
  PROVE  OutboxInit(rows) /\ [][OutboxNext]_outboxVars => []OutboxInv
<1>1. OutboxInit(rows) => OutboxInv
  BY OutboxInitially
<1> QED BY <1>1, OutboxStep, PTL

\* The invariant holds of every behaviour of the publishers.
LEMMA OutboxInvariance == OutboxSpec => []OutboxInv
<1>1. OutboxInit({}) => OutboxInv
  BY OutboxInitially
<1> QED BY <1>1, OutboxStep, PTL DEF OutboxSpec

\* Type correctness: a publisher never holds or sends a row that no transaction
\* inserted, nor marks one it did not claim.
THEOREM OutboxTypeCorrect == OutboxSpec => []OutboxTypeOK
<1>1. OutboxInv => OutboxTypeOK
  BY DEF OutboxInv
<1> QED BY OutboxInvariance, <1>1, PTL

\* At-least-once hand-over: wherever publishers fail between claim, publish and
\* mark, a marked row has a message in the stream.
THEOREM MarksAreStreamed == OutboxSpec => []MarkedIsStreamed
<1>1. OutboxInv => MarkedIsStreamed
  <2> SUFFICES ASSUME OutboxInv, NEW r \in published PROVE Copies(r) >= 1
    BY DEF MarkedIsStreamed
  <2>1. PICK n \in 1..Len(stream) : stream[n] = r
    BY DEF OutboxInv, StreamedOK, InStream
  <2> DEFINE places == {k \in 1..Len(stream) : stream[k] = r}
  <2>2. places # {}
    BY <2>1
  <2>3. IsFiniteSet(places)
    <3>1. Len(stream) \in Nat /\ places \in SUBSET (1..Len(stream))
      BY DEF OutboxInv, OutboxTypeOK
    <3>2. IsFiniteSet(1..Len(stream))
      BY <3>1, FS_Interval
    <3> QED BY <3>1, <3>2, FS_Subset
  <2>4. Copies(r) = Cardinality(places) /\ Copies(r) \in Nat
    BY Numbers DEF Copies, OutboxInv
  <2> HIDE DEF places
  <2> QED BY <2>2, <2>3, <2>4, FS_EmptySet
<1> QED BY OutboxInvariance, <1>1, PTL

\* A row has at most as many messages in the stream as it has attempts, also
\* when several publishers hold it.
THEOREM AttemptsCoverCopies == OutboxSpec => []CopiesAreCounted
<1>1. OutboxInv => CopiesAreCounted
  <2> SUFFICES ASSUME OutboxInv, NEW r \in Rows PROVE Copies(r) <= attempts[r]
    BY DEF CopiesAreCounted
  <2>1. Copies(r) + Cardinality(Owed(r)) <= attempts[r] /\ attempts[r] \in Nat
    BY DEF OutboxInv, CountedOK, OutboxTypeOK
  <2> QED BY <2>1, Numbers DEF OutboxInv
<1> QED BY OutboxInvariance, <1>1, PTL

\* A row has at most one message for each publisher and one for each failure,
\* although no lock outlives the claim: the mark ends the claims of the row,
\* and nobody sends a row twice without a failure in between.
THEOREM DuplicatesAreBounded == OutboxSpec => []DuplicatesBounded
<1>1. OutboxInv => DuplicatesBounded
  <2> SUFFICES ASSUME OutboxInv, NEW r \in Rows
               PROVE  Copies(r) <= Cardinality(Publishers) + failures
    BY DEF DuplicatesBounded
  <2>1. /\ r \notin published => Copies(r) <= Cardinality(Unmarked(r)) + failures
        /\ r \in published =>
             Copies(r) + Cardinality(Owed(r)) <= Cardinality(Publishers) + failures
        /\ failures \in Nat
    BY MaxFailuresAssumption DEF OutboxInv, BoundedOK, OutboxTypeOK
  <2> QED BY <2>1, Numbers DEF OutboxInv
<1> QED BY OutboxInvariance, <1>1, PTL
=============================================================================
