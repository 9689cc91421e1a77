-------------------------------- MODULE Console --------------------------------
(***************************************************************************)
(* The operator console (apps/console/src/App.tsx): one page that creates  *)
(* runs of the demo workflow, shows one of them, polls it every 1.5        *)
(* seconds while it is active, and has buttons to refresh, approve and     *)
(* cancel it.                                                              *)
(*                                                                         *)
(* Polls are sent whether or not earlier requests were answered, and an    *)
(* answer is shown when it arrives, in whatever order.  All requests share *)
(* one busy flag.  The control plane and the workers are the environment:  *)
(* a request sees the run's row at the moment it is served, and a handler  *)
(* that has claimed the run writes the row by its id alone, also when the  *)
(* row is cancelled or failed by then.  Which steps a handler has behind   *)
(* it is left out, so any of its writes may come next.                     *)
(***************************************************************************)
EXTENDS Contracts

CONSTANTS
  Slots,       \* requests that can be in flight at the same time
  MaxCreates,  \* bound on the clicks on create
  MaxClicks,   \* bound on the clicks on refresh, approve and cancel
  MaxErrors,   \* bound on the requests that get lost
  MaxClaims    \* bound on the claims of runs

ASSUME ConsoleBounds ==
  MaxCreates \in Nat /\ MaxClicks \in Nat /\ MaxErrors \in Nat /\ MaxClaims \in Nat

VARIABLES
  state,     \* the state of each run's row, "none" if it is not created
  working,   \* the number of handlers at work on each run
  claims,    \* the number of claims
  parked,    \* history: how often each run was parked for an approval
  granted,   \* history: how often it was approved
  shown,     \* the run the page shows, as a record [id, state]
  busy,      \* the busy flag
  req,       \* the request in each slot
  creates, clicks, errors

workerVars == <<working, claims, parked>>
pageVars == <<shown, busy, req, creates, clicks, errors>>
consoleVars == <<state, workerVars, granted, pageVars>>

Runs == 1..MaxCreates

\* The states in which the page offers no cancel button.
Final(st) == st \in {"succeeded", "failed", "cancelled", "uncertain"}

NoRun == [id |-> 0, state |-> "none"]

\* A request that waits to be served, and a slot without one.
Sent(kind, id) == [kind |-> kind, id |-> id, answer |-> "none", state |-> "none"]
Free == Sent("none", 0)

ConsoleInit ==
  /\ state = [r \in Runs |-> "none"]
  /\ working = [r \in Runs |-> 0]
  /\ claims = 0
  /\ parked = [r \in Runs |-> 0]
  /\ granted = [r \in Runs |-> 0]
  /\ shown = NoRun
  /\ busy = FALSE
  /\ req = [s \in Slots |-> Free]
  /\ creates = 0
  /\ clicks = 0
  /\ errors = 0

-----------------------------------------------------------------------------
(* The page.                                                               *)

\* A handler that sets busy and starts a request for a run.
Send(s, kind, id) ==
  /\ req[s] = Free
  /\ req' = [req EXCEPT ![s] = Sent(kind, id)]
  /\ busy' = TRUE

\* Mutant: only a run that is shown as running is polled.
PollingRunningOnly == shown # NoRun /\ shown.state = "running"

\* The interval exists unless the run shown is finished or awaits approval.
Polling == shown # NoRun /\ ~Final(shown.state) /\ shown.state # "awaiting_approval"

poll(s) ==
  /\ Polling
  /\ Send(s, "read", shown.id)
  /\ UNCHANGED <<state, workerVars, granted, shown, creates, clicks, errors>>

\* A workflow is defined first, and its run created when that is answered.
createDemoRun(s) ==
  /\ ~busy
  /\ creates < MaxCreates
  /\ creates' = creates + 1
  /\ Send(s, "define", creates + 1)
  /\ UNCHANGED <<state, workerVars, granted, shown, clicks, errors>>

\* A click on a button that the page offers for the run shown.
Click(s, kind) ==
  /\ ~busy /\ shown # NoRun
  /\ clicks < MaxClicks
  /\ clicks' = clicks + 1
  /\ Send(s, kind, shown.id)
  /\ UNCHANGED <<state, workerVars, granted, shown, creates, errors>>

refresh(s) == Click(s, "read")

approve(s) == shown.state = "awaiting_approval" /\ Click(s, "approve")

cancel(s) == ~Final(shown.state) /\ Click(s, "cancel")

\* An answer that ends its handler: all but that to the first request of
\* createDemoRun.
Answered(s) == req[s].answer # "none" /\ ~(req[s].kind = "define" /\ req[s].answer = "ok")

Answer(s) == [id |-> req[s].id, state |-> req[s].state]

\* Mutant: the busy flag is not reset when a request fails.
receiveKeepsBusy(s) ==
  /\ Answered(s)
  /\ shown' = IF req[s].answer = "ok" THEN Answer(s) ELSE shown
  /\ busy' = (busy /\ req[s].answer # "ok")
  /\ req' = [req EXCEPT ![s] = Free]
  /\ UNCHANGED <<state, workerVars, granted, creates, clicks, errors>>

\* Mutant: response.ok is not consulted.
receiveUnchecked(s) ==
  /\ Answered(s)
  /\ shown' = Answer(s)
  /\ busy' = FALSE
  /\ req' = [req EXCEPT ![s] = Free]
  /\ UNCHANGED <<state, workerVars, granted, creates, clicks, errors>>

\* The end of a handler: the run in the answer is shown, an error leaves the
\* page as it is, and both reset the busy flag.
receive(s) ==
  /\ Answered(s)
  /\ shown' = IF req[s].answer = "ok" THEN Answer(s) ELSE shown
  /\ busy' = FALSE
  /\ req' = [req EXCEPT ![s] = Free]
  /\ UNCHANGED <<state, workerVars, granted, creates, clicks, errors>>

\* createDemoRun goes on with its second request.
defined(s) ==
  /\ req[s].kind = "define" /\ req[s].answer = "ok"
  /\ req' = [req EXCEPT ![s] = Sent("create", req[s].id)]
  /\ UNCHANGED <<state, workerVars, granted, shown, busy, creates, clicks, errors>>

-----------------------------------------------------------------------------
(* The control plane.                                                      *)

\* The state after a request that is accepted.
Served(kind, st) ==
  CASE kind \in {"define", "read"}   -> st
    [] kind \in {"create", "approve"} -> "queued"
    [] kind = "cancel"               -> "cancelled"

\* Mutant: an approval is accepted in any state that is not final.
RefusedFinalOnly(kind, st) == kind \in {"approve", "cancel"} /\ st \in TerminalStates

\* The checks of the approve and cancel routes.
Refused(kind, st) ==
  \/ kind = "approve" /\ st # "awaiting_approval"
  \/ kind = "cancel" /\ st \in TerminalStates

\* A request is answered with the run as it leaves it, or with an error.
serve(s) ==
  LET r == req[s].id
      kind == req[s].kind
      to == Served(kind, state[r]) IN
  /\ kind # "none" /\ req[s].answer = "none"
  /\ \/ /\ Refused(kind, state[r])
        /\ req' = [req EXCEPT ![s].answer = "error"]
        /\ UNCHANGED <<state, granted>>
     \/ /\ ~Refused(kind, state[r])
        /\ req' = [req EXCEPT ![s].answer = "ok", ![s].state = to]
        /\ state' = [state EXCEPT ![r] = to]
        /\ granted' = [granted EXCEPT ![r] = IF kind = "approve" THEN @ + 1 ELSE @]
  /\ UNCHANGED <<workerVars, shown, busy, creates, clicks, errors>>

\* The connection breaks, before or after the request was served.
lose(s) ==
  /\ req[s].kind # "none" /\ req[s].answer # "error"
  /\ errors < MaxErrors
  /\ errors' = errors + 1
  /\ req' = [req EXCEPT ![s].answer = "error", ![s].state = "none"]
  /\ UNCHANGED <<state, workerVars, granted, shown, busy, creates, clicks>>

-----------------------------------------------------------------------------
(* The workers.                                                            *)

\* A handler claims a run that is queued, or one whose lease has run out.
claim(r) ==
  /\ state[r] \in {"queued", "leased", "running"}
  /\ claims < MaxClaims
  /\ claims' = claims + 1
  /\ state' = [state EXCEPT ![r] = "running"]
  /\ working' = [working EXCEPT ![r] = @ + 1]
  /\ UNCHANGED <<parked, granted, pageVars>>

\* A handler returns after its last write of the row.  One that crashes before
\* takes no more steps: no step of a handler is sure to happen.
Returns(r) == working[r] > 0 /\ working' = [working EXCEPT ![r] = @ - 1]

awaitApproval(r) ==
  /\ Returns(r)
  /\ state' = [state EXCEPT ![r] = "awaiting_approval"]
  /\ parked' = [parked EXCEPT ![r] = @ + 1]
  /\ UNCHANGED <<claims, granted, pageVars>>

complete(r) ==
  /\ Returns(r)
  /\ state' = [state EXCEPT ![r] = "succeeded"]
  /\ UNCHANGED <<claims, parked, granted, pageVars>>

\* fail and uncertain, after which the handler may go on with the next step.
giveUp(r, to) ==
  /\ working[r] > 0
  /\ state' = [state EXCEPT ![r] = to]
  /\ UNCHANGED <<workerVars, granted, pageVars>>

workerMoves(r) ==
  \/ claim(r) \/ awaitApproval(r) \/ complete(r)
  \/ giveUp(r, "failed") \/ giveUp(r, "uncertain")

-----------------------------------------------------------------------------
ConsoleNext ==
  \/ \E s \in Slots :
       \/ poll(s) \/ createDemoRun(s) \/ refresh(s) \/ approve(s) \/ cancel(s)
       \/ receive(s) \/ defined(s) \/ serve(s) \/ lose(s)
  \/ \E r \in Runs : workerMoves(r)

\* The interval fires while it exists, and requests are served and answered.
ConsoleSpec ==
  /\ ConsoleInit
  /\ [][ConsoleNext]_consoleVars
  /\ WF_consoleVars(\E s \in Slots : poll(s))
  /\ \A s \in Slots : WF_consoleVars(serve(s)) /\ WF_consoleVars(receive(s) \/ defined(s))

-----------------------------------------------------------------------------
(* Correctness.                                                            *)

RowStates == RunStates \cup {"none"}

Request ==
  [kind : {"none", "define", "create", "read", "approve", "cancel"},
   id : 0..MaxCreates, answer : {"none", "ok", "error"}, state : RowStates]

\* Every variable has its type; in particular the page shows no run or one
\* that was created, with a state a run can have.
ConsoleTypeOK ==
  /\ state \in [Runs -> RowStates]
  /\ working \in [Runs -> Nat] /\ claims \in 0..MaxClaims
  /\ parked \in [Runs -> Nat] /\ granted \in [Runs -> Nat]
  /\ shown = NoRun \/ shown \in [id : Runs, state : RunStates]
  /\ busy \in BOOLEAN
  /\ req \in [Slots -> Request]
  /\ creates \in 0..MaxCreates /\ clicks \in 0..MaxClicks /\ errors \in 0..MaxErrors

\* However stale the page is, however often approve is clicked on it, and
\* whatever handlers write meanwhile, a run is queued again once at most for
\* each time it was parked.
ApprovedOnce == \A r \in Runs : granted[r] <= parked[r]

\* The buttons are never disabled for good: busy is reset by the last of any
\* overlapping requests, answered, refused or lost.
NeverStuckBusy == busy => \E s \in Slots : req[s] # Free

\* A run that only an operator moves on, if anybody.
AtRest(st) == Final(st) \/ st = "awaiting_approval"

\* The page shows a run as active that has come to rest, so that it does not
\* offer what the operator can do.
Behind == shown # NoRun /\ AtRest(state[shown.id]) /\ ~AtRest(shown.state)

\* The page does not stay behind, although answers of older polls, of this run
\* or of another, may put it behind again.  Only two things but its catching up
\* end this: a request still in flight moves the run on, or the page turns to a
\* run of which it knows the state.
CatchesUp == Behind ~> ~Behind
=============================================================================
