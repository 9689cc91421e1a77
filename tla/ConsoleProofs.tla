---------------------------- MODULE ConsoleProofs ----------------------------
(***************************************************************************)
(* Proofs about Console, for any number of requests in flight, creates,    *)
(* clicks, lost answers and claims.                                        *)
(*                                                                         *)
(* The page may send an approval for whatever it shows, and handlers write *)
(* rows by their ids.  An approval counts only for a run that is parked,   *)
(* and takes it out of that state, so that a park not answered yet is what *)
(* an approval uses up (ParksLeft).  That the page names runs that exist   *)
(* rests on the order of the requests that create them (RequestOK).        *)
(***************************************************************************)
EXTENDS Console, TLAPS

\* What holds of the request in slot s and of the run it names.
RequestOK(s) ==
  /\ req[s].kind = "none" => req[s] = Free
  /\ req[s].kind # "none" => req[s].id \in 1..creates
  /\ req[s].kind \in {"read", "approve", "cancel"} => state[req[s].id] \in RunStates
  /\ req[s].answer = "ok" /\ req[s].kind # "define" =>
       req[s].state \in RunStates /\ state[req[s].id] \in RunStates

\* A run whose create was not clicked does not exist, and one that has a
\* handler does.
Rows ==
  \A r \in Runs :
    /\ r > creates => state[r] = "none"
    /\ working[r] > 0 => state[r] \in RunStates

\* The run shown exists.
ShownExists == shown # NoRun => state[shown.id] \in RunStates

\* A run that is parked was parked once more than it was approved.
ParksLeft ==
  \A r \in Runs :
    /\ granted[r] <= parked[r]
    /\ state[r] = "awaiting_approval" => granted[r] < parked[r]

ConsoleInv ==
  /\ ConsoleTypeOK
  /\ \A s \in Slots : RequestOK(s)
  /\ Rows
  /\ ShownExists
  /\ ParksLeft
  /\ NeverStuckBusy

\* A row is never deleted.
Persist == \A r \in Runs : state[r] \in RunStates => state'[r] \in RunStates

-----------------------------------------------------------------------------
\* A slot without a request is a request record.
LEMMA FreeRequest == Free \in Request /\ Free.kind = "none" /\ Free.answer = "none"
BY ConsoleBounds DEF Free, Sent, Request, RowStates

\* A run that is not there has none of the states of a run.
LEMMA NoneIsNoState == "none" \notin RunStates
BY DEF RunStates

\* What an accepted request leaves in the row.
LEMMA ServedState ==
  ASSUME NEW kind \in {"define", "create", "read", "approve", "cancel"},
         NEW st \in RowStates,
         kind \in {"read", "approve", "cancel"} => st \in RunStates
  PROVE  /\ Served(kind, st) \in RowStates
         /\ kind = "define" => Served(kind, st) = st
         /\ kind # "define" => Served(kind, st) \in RunStates
         /\ Served(kind, st) = "awaiting_approval" => st = "awaiting_approval"
         /\ kind = "approve" => Served(kind, st) # "awaiting_approval"
BY DEF Served, RowStates, RunStates

\* The empty page satisfies the invariant.
LEMMA ConsoleInitially == ConsoleInit => ConsoleInv
<1> SUFFICES ASSUME ConsoleInit PROVE ConsoleInv OBVIOUS
<1>1. ConsoleTypeOK
  <2>1. busy \in BOOLEAN
    BY Zenon DEF ConsoleInit
  <2>2. req \in [Slots -> Request]
    BY FreeRequest DEF ConsoleInit
  <2> QED BY <2>1, <2>2, ConsoleBounds DEF ConsoleInit, ConsoleTypeOK, RowStates
<1>2. \A s \in Slots : RequestOK(s)
  BY FreeRequest DEF ConsoleInit, RequestOK
<1>3. Rows /\ ShownExists /\ ParksLeft /\ NeverStuckBusy
  BY DEF ConsoleInit, Rows, ShownExists, ParksLeft, NeverStuckBusy
<1> QED BY <1>1, <1>2, <1>3 DEF ConsoleInv

-----------------------------------------------------------------------------
(* Frames.                                                                 *)

\* A request that is not touched stays as good as it was.
LEMMA RequestFrame ==
  ASSUME ConsoleTypeOK, NEW s \in Slots, RequestOK(s), req'[s] = req[s],
         creates' \in Nat, creates <= creates', Persist
  PROVE  RequestOK(s)'
<1>1. req[s].kind # "none" => req[s].id \in Runs
  BY ConsoleBounds DEF RequestOK, ConsoleTypeOK, Runs
<1>2. CASE req[s].kind = "none"
  BY <1>2, FreeRequest DEF RequestOK
<1>3. CASE req[s].kind # "none"
  <2>1. creates \in Nat
    BY DEF ConsoleTypeOK
  <2> QED BY <1>1, <1>3, <2>1 DEF RequestOK, Persist
<1> QED BY <1>2, <1>3

\* The run shown goes on to exist.
LEMMA ShownFrame ==
  ASSUME ConsoleTypeOK, ShownExists, shown' = shown, Persist
  PROVE  ShownExists'
<1>1. shown # NoRun => shown.id \in Runs
  BY DEF ConsoleTypeOK
<1> QED BY <1>1 DEF ShownExists, Persist

\* A new request names a run that exists, or starts to create one.
LEMMA SendStep ==
  ASSUME ConsoleInv, NEW s \in Slots, NEW kind \in {"read", "approve", "cancel", "define"},
         NEW id \in Runs, Send(s, kind, id),
         UNCHANGED <<state, working, claims, parked, granted, shown>>,
         creates' \in 0..MaxCreates, creates <= creates', id <= creates',
         clicks' \in 0..MaxClicks, errors' = errors,
         kind # "define" => state[id] \in RunStates
  PROVE  ConsoleInv'
<1> USE DEF ConsoleInv
<1> DEFINE new == Sent(kind, id)
<1>1. /\ new = [kind |-> kind, id |-> id, answer |-> "none", state |-> "none"]
      /\ new \in Request
  <2>1. new = [kind |-> kind, id |-> id, answer |-> "none", state |-> "none"]
    BY DEF Sent
  <2>2. id \in 0..MaxCreates
    BY ConsoleBounds DEF Runs
  <2> HIDE DEF new
  <2> QED BY <2>1, <2>2 DEF Request, RowStates
<1>2. /\ req' = [req EXCEPT ![s] = new]
      /\ req'[s] = new
      /\ \A t \in Slots : t # s => req'[t] = req[t]
      /\ busy' = TRUE
  BY DEF Send, ConsoleTypeOK
<1> HIDE DEF new
<1>3. ConsoleTypeOK'
  <2>1. busy' \in BOOLEAN
    BY <1>2, Zenon
  <2>2. req' \in [Slots -> Request]
    BY <1>1, <1>2 DEF ConsoleTypeOK
  <2> QED BY <2>1, <2>2 DEF ConsoleTypeOK
<1>4. ASSUME NEW t \in Slots PROVE RequestOK(t)'
  <2>1. CASE t = s
    <3>1. id \in 1..creates'
      BY ConsoleBounds DEF Runs
    <3> QED BY <1>1, <1>2, <2>1, <3>1 DEF RequestOK
  <2>2. CASE t # s
    <3>1. Persist /\ creates' \in Nat
      BY ConsoleBounds DEF Persist
    <3> QED BY <1>2, <2>2, <3>1, RequestFrame
  <2> QED BY <2>1, <2>2
<1>5. Rows'
  BY ConsoleBounds DEF Rows, Runs, ConsoleTypeOK
<1>6. ShownExists' /\ ParksLeft'
  BY DEF ShownExists, ParksLeft
<1>7. NeverStuckBusy'
  BY <1>1, <1>2, FreeRequest DEF NeverStuckBusy
<1> QED BY <1>3, <1>4, <1>5, <1>6, <1>7

\* Polls and clicks are for the run shown.
LEMMA PageStep ==
  ASSUME ConsoleInv, NEW s \in Slots,
         poll(s) \/ createDemoRun(s) \/ refresh(s) \/ approve(s) \/ cancel(s)
  PROVE  ConsoleInv'
<1>1. CASE createDemoRun(s)
  <2>1. /\ Send(s, "define", creates + 1)
        /\ creates < MaxCreates /\ creates' = creates + 1
        /\ UNCHANGED <<state, working, claims, parked, granted, shown, clicks, errors>>
    BY <1>1 DEF createDemoRun, workerVars
  <2>2. creates \in 0..MaxCreates /\ clicks \in 0..MaxClicks
    BY DEF ConsoleInv, ConsoleTypeOK
  <2>3. /\ creates + 1 \in Runs /\ creates' \in 0..MaxCreates /\ clicks' \in 0..MaxClicks
        /\ creates <= creates' /\ creates + 1 <= creates'
    BY <2>1, <2>2, ConsoleBounds DEF Runs
  <2> QED BY <2>1, <2>3, SendStep
<1>2. CASE poll(s) \/ refresh(s) \/ approve(s) \/ cancel(s)
  <2>1. PICK kind \in {"read", "approve", "cancel"} :
          /\ Send(s, kind, shown.id)
          /\ shown # NoRun
          /\ UNCHANGED <<state, working, claims, parked, granted, shown, creates, errors>>
          /\ clicks' \in 0..MaxClicks
    BY <1>2, ConsoleBounds DEF poll, refresh, approve, cancel, Click, Polling, workerVars,
       ConsoleInv, ConsoleTypeOK
  <2>2. shown.id \in Runs /\ state[shown.id] \in RunStates
    BY <2>1 DEF ConsoleInv, ConsoleTypeOK, ShownExists
  <2>3. shown.id <= creates
    BY <2>2, NoneIsNoState, ConsoleBounds DEF ConsoleInv, ConsoleTypeOK, Rows, Runs
  <2>4. creates' \in 0..MaxCreates /\ creates <= creates' /\ shown.id <= creates'
    BY <2>1, <2>3 DEF ConsoleInv, ConsoleTypeOK
  <2> QED BY <2>1, <2>2, <2>4, SendStep
<1> QED BY <1>1, <1>2

-----------------------------------------------------------------------------
(* The other steps of the page and of the control plane.                   *)

\* An answer that is shown names a run that exists.
LEMMA ReceiveStep ==
  ASSUME ConsoleInv, NEW s \in Slots, receive(s)
  PROVE  ConsoleInv'
<1> USE DEF ConsoleInv
<1>1. /\ req' = [req EXCEPT ![s] = Free]
      /\ req'[s] = Free
      /\ \A t \in Slots : t # s => req'[t] = req[t]
      /\ busy' = FALSE
      /\ UNCHANGED <<state, working, claims, parked, granted, creates, clicks, errors>>
  BY DEF receive, workerVars, ConsoleTypeOK
<1>2. \/ shown' = shown
      \/ /\ shown' = [id |-> req[s].id, state |-> req[s].state]
         /\ req[s].answer = "ok" /\ req[s].kind # "define"
  BY DEF receive, Answered, Answer
<1>3. ConsoleTypeOK'
  <2>1. busy' \in BOOLEAN
    BY <1>1, Zenon
  <2>2. req' \in [Slots -> Request]
    BY <1>1, FreeRequest DEF ConsoleTypeOK
  <2>3. shown' = NoRun \/ shown' \in [id : Runs, state : RunStates]
    <3>1. CASE shown' = shown
      BY <3>1 DEF ConsoleTypeOK
    <3>2. CASE shown' # shown
      <4>1. req[s].kind # "none"
        BY <1>2, <3>2, FreeRequest DEF RequestOK
      <4>2. req[s].id \in Runs /\ req[s].state \in RunStates
        BY <1>2, <3>2, <4>1, ConsoleBounds DEF RequestOK, ConsoleTypeOK, Runs
      <4> QED BY <1>2, <3>2, <4>2
    <3> QED BY <3>1, <3>2
  <2> QED BY <1>1, <2>1, <2>2, <2>3 DEF ConsoleTypeOK
<1>4. ASSUME NEW t \in Slots PROVE RequestOK(t)'
  BY <1>1, FreeRequest DEF RequestOK
<1>5. Rows' /\ ParksLeft'
  BY <1>1 DEF Rows, ParksLeft
<1>6. ShownExists'
  BY <1>1, <1>2 DEF ShownExists, RequestOK
<1>7. NeverStuckBusy'
  BY <1>1 DEF NeverStuckBusy
<1> QED BY <1>3, <1>4, <1>5, <1>6, <1>7

\* The second request of createDemoRun is for the run that the first was for.
LEMMA DefinedStep ==
  ASSUME ConsoleInv, NEW s \in Slots, defined(s)
  PROVE  ConsoleInv'
<1> USE DEF ConsoleInv
<1>1. /\ req'[s] = [kind |-> "create", id |-> req[s].id, answer |-> "none", state |-> "none"]
      /\ req' = [req EXCEPT ![s] = req'[s]]
      /\ \A t \in Slots : t # s => req'[t] = req[t]
      /\ req[s].kind = "define"
      /\ UNCHANGED <<state, working, claims, parked, granted, shown, busy, creates, clicks, errors>>
  BY DEF defined, Sent, workerVars, ConsoleTypeOK
<1>2. req[s].id \in 0..MaxCreates
  BY DEF ConsoleTypeOK, Request
<1>3. ConsoleTypeOK'
  <2>1. req'[s] \in Request
    BY <1>1, <1>2 DEF Request, RowStates
  <2>2. req' \in [Slots -> Request]
    BY <1>1, <2>1 DEF ConsoleTypeOK
  <2> QED BY <1>1, <2>2 DEF ConsoleTypeOK
<1>4. ASSUME NEW t \in Slots PROVE RequestOK(t)'
  <2>1. CASE t = s
    BY <1>1, <2>1 DEF RequestOK
  <2>2. CASE t # s
    BY <1>1, <2>2 DEF RequestOK
  <2> QED BY <2>1, <2>2
<1>5. Rows' /\ ShownExists' /\ ParksLeft'
  BY <1>1 DEF Rows, ShownExists, ParksLeft
<1>6. NeverStuckBusy'
  BY <1>1, FreeRequest DEF NeverStuckBusy
<1> QED BY <1>3, <1>4, <1>5, <1>6

\* A lost request shows nothing.
LEMMA LoseStep ==
  ASSUME ConsoleInv, NEW s \in Slots, lose(s)
  PROVE  ConsoleInv'
<1> USE DEF ConsoleInv
<1>1. /\ req' = [req EXCEPT ![s].answer = "error", ![s].state = "none"]
      /\ req[s].kind # "none"
      /\ UNCHANGED <<state, working, claims, parked, granted, shown, busy, creates, clicks>>
      /\ errors' = errors + 1 /\ errors < MaxErrors
  BY DEF lose, workerVars
<1>2. /\ req'[s].kind = req[s].kind /\ req'[s].id = req[s].id /\ req'[s].answer = "error"
      /\ \A t \in Slots : t # s => req'[t] = req[t]
      /\ req' \in [Slots -> Request]
  <2>1. "none" \in RowStates
    BY DEF RowStates
  <2> QED BY <1>1, <2>1 DEF ConsoleTypeOK, Request
<1>3. ConsoleTypeOK'
  BY <1>1, <1>2, ConsoleBounds DEF ConsoleTypeOK
<1>4. ASSUME NEW t \in Slots PROVE RequestOK(t)'
  <2>1. CASE t = s
    BY <1>1, <1>2, <2>1 DEF RequestOK
  <2>2. CASE t # s
    BY <1>1, <1>2, <2>2 DEF RequestOK
  <2> QED BY <2>1, <2>2
<1>5. Rows' /\ ShownExists' /\ ParksLeft'
  BY <1>1 DEF Rows, ShownExists, ParksLeft
<1>6. NeverStuckBusy'
  BY <1>1, <1>2, FreeRequest DEF NeverStuckBusy
<1> QED BY <1>3, <1>4, <1>5, <1>6

\* An approval that is accepted uses up a park, and no other request does.
LEMMA ServeStep ==
  ASSUME ConsoleInv, NEW s \in Slots, serve(s)
  PROVE  ConsoleInv'
<1> USE DEF ConsoleInv
<1> DEFINE r == req[s].id
           kind == req[s].kind
           to == Served(kind, state[r])
<1>1. /\ kind \in {"define", "create", "read", "approve", "cancel"}
      /\ UNCHANGED <<working, claims, parked, shown, busy, creates, clicks, errors>>
  BY DEF serve, workerVars, ConsoleTypeOK, Request
<1>2. r \in 1..creates /\ r \in Runs /\ state[r] \in RowStates
  <2>1. r \in 1..creates
    BY <1>1 DEF RequestOK
  <2> QED BY <2>1, ConsoleBounds DEF Runs, ConsoleTypeOK
<1>3. CASE /\ Refused(kind, state[r])
           /\ req' = [req EXCEPT ![s].answer = "error"]
           /\ UNCHANGED <<state, granted>>
  <2>1. /\ req'[s].kind = kind /\ req'[s].id = r /\ req'[s].answer = "error"
        /\ \A t \in Slots : t # s => req'[t] = req[t]
        /\ req' \in [Slots -> Request]
    BY <1>3 DEF ConsoleTypeOK, Request
  <2>2. ConsoleTypeOK'
    BY <1>1, <1>3, <2>1 DEF ConsoleTypeOK
  <2>3. ASSUME NEW t \in Slots PROVE RequestOK(t)'
    BY <1>1, <1>3, <2>1 DEF RequestOK
  <2>4. Rows' /\ ShownExists' /\ ParksLeft'
    BY <1>1, <1>3 DEF Rows, ShownExists, ParksLeft
  <2>5. NeverStuckBusy'
    BY <1>1, <2>1, FreeRequest DEF NeverStuckBusy
  <2> QED BY <2>2, <2>3, <2>4, <2>5
<1>4. CASE /\ ~Refused(kind, state[r])
           /\ req' = [req EXCEPT ![s].answer = "ok", ![s].state = to]
           /\ state' = [state EXCEPT ![r] = to]
           /\ granted' = [granted EXCEPT ![r] = IF kind = "approve" THEN @ + 1 ELSE @]
  <2>1. kind \in {"read", "approve", "cancel"} => state[r] \in RunStates
    BY DEF RequestOK
  <2>2. /\ to \in RowStates
        /\ kind = "define" => to = state[r]
        /\ kind # "define" => to \in RunStates
        /\ to = "awaiting_approval" => state[r] = "awaiting_approval"
        /\ kind = "approve" => to # "awaiting_approval"
    BY <1>1, <1>2, <2>1, ServedState
  <2>3. kind = "approve" => state[r] = "awaiting_approval"
    BY <1>4 DEF Refused
  <2> HIDE DEF to, kind, r
  <2>4. /\ req'[s].kind = kind /\ req'[s].id = r /\ req'[s].answer = "ok" /\ req'[s].state = to
        /\ \A t \in Slots : t # s => req'[t] = req[t]
        /\ req' \in [Slots -> Request]
    BY <1>4, <2>2 DEF ConsoleTypeOK, Request, kind, r
  <2>5. /\ state' \in [Runs -> RowStates]
        /\ state'[r] = to
        /\ \A q \in Runs : q # r => state'[q] = state[q]
    BY <1>2, <1>4, <2>2 DEF ConsoleTypeOK
  <2>6. /\ granted' \in [Runs -> Nat]
        /\ granted'[r] = IF kind = "approve" THEN granted[r] + 1 ELSE granted[r]
        /\ \A q \in Runs : q # r => granted'[q] = granted[q]
    BY <1>2, <1>4 DEF ConsoleTypeOK
  <2>7. Persist
    BY <2>2, <2>5 DEF Persist
  <2>8. ConsoleTypeOK'
    BY <1>1, <2>4, <2>5, <2>6 DEF ConsoleTypeOK
  <2>9. ASSUME NEW t \in Slots PROVE RequestOK(t)'
    <3>1. CASE t = s
      BY <1>1, <1>2, <2>1, <2>2, <2>4, <2>5, <3>1 DEF RequestOK
    <3>2. CASE t # s
      <4>1. creates' \in Nat /\ creates <= creates'
        BY <1>1 DEF ConsoleTypeOK
      <4> QED BY <2>4, <2>7, <3>2, <4>1, RequestFrame
    <3> QED BY <3>1, <3>2
  <2>10. Rows'
    <3>1. creates \in Nat /\ r <= creates
      BY <1>2 DEF ConsoleTypeOK
    <3> QED BY <1>1, <1>2, <2>5, <2>7, <3>1 DEF Rows, Persist, Runs
  <2>11. ShownExists'
    BY <1>1, <2>7, ShownFrame
  <2>12. ParksLeft'
    <3> SUFFICES ASSUME NEW q \in Runs
                 PROVE  /\ granted'[q] <= parked[q]
                        /\ state'[q] = "awaiting_approval" => granted'[q] < parked[q]
      BY <1>1 DEF ParksLeft
    <3>1. granted[q] \in Nat /\ parked[q] \in Nat
      BY DEF ConsoleTypeOK
    <3>2. CASE q # r
      BY <2>5, <2>6, <3>2 DEF ParksLeft
    <3>3. CASE q = r
      BY <1>2, <2>2, <2>3, <2>5, <2>6, <3>1, <3>3 DEF ParksLeft
    <3> QED BY <3>2, <3>3
  <2>13. NeverStuckBusy'
    BY <1>1, <2>4, FreeRequest DEF NeverStuckBusy
  <2> QED BY <2>8, <2>9, <2>10, <2>11, <2>12, <2>13
<1> QED BY <1>3, <1>4 DEF serve

-----------------------------------------------------------------------------
(* The workers.                                                            *)

\* A handler writes the row of a run that exists, and only a park of its may
\* leave the run parked.
LEMMA WorkerStep ==
  ASSUME ConsoleInv, NEW r \in Runs, workerMoves(r)
  PROVE  ConsoleInv'
<1> USE DEF ConsoleInv
<1>1. PICK to \in RunStates :
        /\ state' = [state EXCEPT ![r] = to]
        /\ state[r] \in RunStates
        /\ to = "awaiting_approval" => parked' = [parked EXCEPT ![r] = @ + 1]
        /\ to # "awaiting_approval" => parked' = parked
        /\ working' \in [Runs -> Nat]
        /\ \A q \in Runs : q # r => working'[q] = working[q]
        /\ claims' \in 0..MaxClaims
  <2>1. CASE claim(r)
    <3>1. /\ state[r] \in RunStates /\ "running" \in RunStates
          /\ state' = [state EXCEPT ![r] = "running"]
          /\ parked' = parked
      BY <2>1 DEF claim, RunStates
    <3>2. /\ working' \in [Runs -> Nat]
          /\ \A q \in Runs : q # r => working'[q] = working[q]
          /\ claims' \in 0..MaxClaims
      BY <2>1, ConsoleBounds DEF claim, ConsoleTypeOK
    <3> QED BY <3>1, <3>2
  <2>2. ASSUME Returns(r)
        PROVE  /\ working' \in [Runs -> Nat] /\ state[r] \in RunStates
               /\ \A q \in Runs : q # r => working'[q] = working[q]
    BY <2>2 DEF Returns, ConsoleTypeOK, Rows
  <2>3. CASE awaitApproval(r)
    <3>1. "awaiting_approval" \in RunStates
      BY DEF RunStates
    <3> QED BY <2>2, <2>3, <3>1 DEF awaitApproval, ConsoleTypeOK
  <2>4. CASE complete(r)
    <3>1. "succeeded" \in RunStates
      BY DEF RunStates
    <3> QED BY <2>2, <2>4, <3>1 DEF complete, ConsoleTypeOK
  <2>5. ASSUME NEW to \in {"failed", "uncertain"}, giveUp(r, to)
        PROVE  /\ to \in RunStates /\ state[r] \in RunStates
               /\ state' = [state EXCEPT ![r] = to]
               /\ UNCHANGED <<working, claims, parked>>
    BY <2>5 DEF giveUp, workerVars, Rows, RunStates
  <2>6. CASE giveUp(r, "failed")
    BY <2>5, <2>6 DEF ConsoleTypeOK
  <2>7. CASE giveUp(r, "uncertain")
    BY <2>5, <2>7 DEF ConsoleTypeOK
  <2> QED BY <2>1, <2>3, <2>4, <2>6, <2>7 DEF workerMoves
<1>2. UNCHANGED <<granted, shown, busy, req, creates, clicks, errors>>
  BY DEF workerMoves, claim, awaitApproval, complete, giveUp, pageVars
<1>3. /\ state' \in [Runs -> RowStates] /\ state'[r] = to
      /\ \A q \in Runs : q # r => state'[q] = state[q]
      /\ Persist
  BY <1>1 DEF ConsoleTypeOK, RowStates, Persist
<1>4. /\ parked' \in [Runs -> Nat]
      /\ parked'[r] = IF to = "awaiting_approval" THEN parked[r] + 1 ELSE parked[r]
      /\ \A q \in Runs : q # r => parked'[q] = parked[q]
  BY <1>1 DEF ConsoleTypeOK
<1>5. ConsoleTypeOK'
  BY <1>1, <1>2, <1>3, <1>4 DEF ConsoleTypeOK
<1>6. ASSUME NEW t \in Slots PROVE RequestOK(t)'
  <2>1. creates' \in Nat /\ creates <= creates'
    BY <1>2 DEF ConsoleTypeOK
  <2> QED BY <1>2, <1>3, <2>1, RequestFrame
<1>7. Rows'
  BY <1>1, <1>2, <1>3, NoneIsNoState DEF Rows
<1>8. ShownExists'
  BY <1>2, <1>3, ShownFrame
<1>9. ParksLeft'
  <2> SUFFICES ASSUME NEW q \in Runs
               PROVE  /\ granted[q] <= parked'[q]
                      /\ state'[q] = "awaiting_approval" => granted[q] < parked'[q]
    BY <1>2 DEF ParksLeft
  <2>1. granted[q] \in Nat /\ parked[q] \in Nat
    BY DEF ConsoleTypeOK
  <2> QED BY <1>3, <1>4, <2>1 DEF ParksLeft
<1>10. NeverStuckBusy'
  BY <1>2 DEF NeverStuckBusy
<1> QED BY <1>5, <1>6, <1>7, <1>8, <1>9, <1>10

-----------------------------------------------------------------------------
\* The invariant is inductive.
LEMMA ConsoleStep == ConsoleInv /\ [ConsoleNext]_consoleVars => ConsoleInv'
<1> SUFFICES ASSUME ConsoleInv, [ConsoleNext]_consoleVars PROVE ConsoleInv' OBVIOUS
<1>1. CASE UNCHANGED consoleVars
  BY <1>1 DEF consoleVars, workerVars, pageVars, ConsoleInv, ConsoleTypeOK, RequestOK, Rows,
     ShownExists, ParksLeft, NeverStuckBusy
<1> QED
  BY <1>1, PageStep, ReceiveStep, DefinedStep, LoseStep, ServeStep, WorkerStep DEF ConsoleNext

\* The invariant holds of every behaviour of the page and its environment.
LEMMA ConsoleInvariance == ConsoleSpec => []ConsoleInv
<1>1. ConsoleInv /\ [ConsoleNext]_consoleVars => ConsoleInv'
  BY ConsoleStep
<1> QED BY ConsoleInitially, <1>1, PTL DEF ConsoleSpec

\* Type correctness: whatever the order of the answers, the page shows no run
\* or one that was created, in a state that a run can have.
THEOREM ConsoleTypeCorrect == ConsoleSpec => []ConsoleTypeOK
<1>1. ConsoleInv => ConsoleTypeOK
  BY DEF ConsoleInv
<1> QED BY ConsoleInvariance, <1>1, PTL

\* A run is approved at most as often as a worker parked it, however old the
\* page is on which approve is clicked, and although handlers write rows that
\* were cancelled, failed or requeued meanwhile.
THEOREM ParksAreApprovedOnce == ConsoleSpec => []ApprovedOnce
<1>1. ConsoleInv => ApprovedOnce
  BY DEF ConsoleInv, ParksLeft, ApprovedOnce
<1> QED BY ConsoleInvariance, <1>1, PTL

\* The buttons are disabled only while a request is in flight, although all
\* requests share one busy flag.
THEOREM BusyHasRequest == ConsoleSpec => []NeverStuckBusy
<1>1. ConsoleInv => NeverStuckBusy
  BY DEF ConsoleInv
<1> QED BY ConsoleInvariance, <1>1, PTL
=============================================================================
