----------------------------- MODULE WorkerPool -----------------------------
(***************************************************************************)
(* The worker process around the handlers: main of services/worker/main.go *)
(* with its message iterator, the jobs channel, the goroutines that take   *)
(* from it, SIGTERM, the drain and its timeout.                            *)
(*                                                                         *)
(* Several processes share one durable consumer.  Each message names a run *)
(* of its own; of the run only what decides about its delivery is kept:    *)
(* whether it waits for a worker, is running under a lease, or needs no    *)
(* worker any more.  What a handler does in between is RunExecution, and   *)
(* one run with several messages is Runtime.                               *)
(***************************************************************************)
EXTENDS Integers, Sequences, FiniteSets

CONSTANTS
  Workers,      \* worker processes
  Messages,     \* queue messages, one run each
  None,         \* no message
  concurrency,  \* goroutines of a process
  prefetch,     \* messages per goroutine; 4 in the code
  MaxSlow,      \* bound on the AckWaits explored that end during the work
  MaxFaults     \* bound on the signals, kills and errors explored

ASSUME PoolAssumption ==
  /\ concurrency \in Nat \ {0} /\ prefetch \in Nat \ {0}
  /\ MaxSlow \in Nat /\ MaxFaults \in Nat /\ None \notin Messages

VARIABLES
  status,     \* the consumer's view of each message
  buffer,     \* messages in the iterator of each process
  main,       \* where the main goroutine of each process is
  picked,     \* the message it has from Next and not yet sent to jobs
  sig,        \* SIGTERM has been received: receiveCtx is done
  faults,     \* the number of signals, kills and errors
  jobs,       \* the channel
  job, at,    \* the message each goroutine has, and what it does with it
  run,        \* what the run of a message needs: queued, running or done
  lease,      \* none, live or lapsed
  slow,       \* the number of AckWaits that ended during the work
  dropped,    \* history: deliveries that the receive loop or a kill threw away
  overtaken,  \* history: messages whose AckWait ended during the work
  cut,        \* history: runs whose handler failed after the claim
  killed      \* history: runs whose handler was killed

serverVars == <<status, slow, overtaken>>
loopVars == <<buffer, main, picked, sig>>
runVars == <<run, lease>>
historyVars == <<dropped, cut, killed>>
poolVars == <<serverVars, loopVars, jobs, job, at, runVars, historyVars, faults>>

Goroutines == 1..concurrency

Fault == faults < MaxFaults /\ faults' = faults + 1

\* Mutant: a window for the messages of every process together.
MaxAckPendingPerFleet == concurrency * prefetch * Cardinality(Workers)

\* The capacities that main derives from the concurrency.
Capacity == concurrency * prefetch
PullMaxMessages == concurrency * prefetch
MaxAckPending == concurrency * prefetch

PoolInit ==
  /\ status = [m \in Messages |-> "new"]
  /\ buffer = [w \in Workers |-> <<>>]
  /\ main = [w \in Workers |-> "next"]
  /\ picked = [w \in Workers |-> None]
  /\ sig = [w \in Workers |-> FALSE]
  /\ jobs = [w \in Workers |-> <<>>]
  /\ job = [w \in Workers |-> [g \in Goroutines |-> None]]
  /\ at = [w \in Workers |-> [g \in Goroutines |-> "idle"]]
  /\ run = [m \in Messages |-> "queued"]
  /\ lease = [m \in Messages |-> "none"]
  /\ slow = 0 /\ faults = 0
  /\ dropped = {} /\ overtaken = {} /\ cut = {} /\ killed = {}

-----------------------------------------------------------------------------
(* The JetStream consumer.                                                 *)

\* Delivered and not acknowledged.
Pending == {m \in Messages : status[m] \in {"out", "again"}}

\* A message goes to the iterator of some process that asks for messages.
\* A first delivery respects MaxAckPending.
Deliver(w, m) ==
  /\ main[w] \in {"next", "select"}
  /\ Len(buffer[w]) < PullMaxMessages
  /\ \/ status[m] = "again"
     \/ status[m] = "new" /\ Cardinality(Pending) < MaxAckPending
  /\ status' = [status EXCEPT ![m] = "out"]
  /\ buffer' = [buffer EXCEPT ![w] = Append(@, m)]
  /\ dropped' = dropped \ {m}
  /\ UNCHANGED <<slow, overtaken, main, picked, sig, jobs, job, at, runVars, cut, killed, faults>>

Ack(m) == status' = [status EXCEPT ![m] = "acked"] /\ UNCHANGED <<slow, overtaken>>

Nak(m) ==
  /\ status' = [status EXCEPT ![m] = IF @ = "out" THEN "again" ELSE @]
  /\ UNCHANGED <<slow, overtaken>>

InSeq(m, s) == \E n \in DOMAIN s : s[n] = m

Holds(w, m) ==
  \/ InSeq(m, buffer[w]) \/ picked[w] = m \/ InSeq(m, jobs[w])
  \/ \E g \in Goroutines : job[w][g] = m

Executes(w, g, m) == job[w][g] = m /\ at[w][g] = "work"

\* Two minutes after its delivery a message that nobody has settled is
\* delivered again.  That is late for a message nobody has, whose lease ran
\* out after thirty seconds, and early for one that is still at work.
AckWaitExpires(m) ==
  /\ status[m] = "out"
  /\ status' = [status EXCEPT ![m] = "again"]
  /\ IF lease[m] = "live" \/ \E w \in Workers : Holds(w, m)
       THEN slow < MaxSlow /\ slow' = slow + 1 /\ overtaken' = overtaken \cup {m}
       ELSE UNCHANGED <<slow, overtaken>>
  /\ UNCHANGED <<loopVars, jobs, job, at, runVars, historyVars, faults>>

-----------------------------------------------------------------------------
(* The main goroutine.                                                     *)

Goto(w, next) == main' = [main EXCEPT ![w] = next]

\* The head of the loop, receiveCtx.Err() == nil.
LoopHead(w) == IF sig[w] THEN "leave" ELSE "next"

\* iterator.Next returns a message, or the error of a context that is done.
Next(w) ==
  /\ main[w] = "next"
  /\ \/ /\ buffer[w] # <<>>
        /\ picked' = [picked EXCEPT ![w] = Head(buffer[w])]
        /\ buffer' = [buffer EXCEPT ![w] = Tail(@)]
        /\ Goto(w, "select")
     \/ sig[w] /\ Goto(w, "leave") /\ UNCHANGED <<buffer, picked>>
  /\ UNCHANGED <<serverVars, sig, jobs, job, at, runVars, historyVars, faults>>

\* Mutant: a queue without bound.
SelectUnbounded(w) ==
  /\ main[w] = "select"
  /\ jobs' = [jobs EXCEPT ![w] = Append(@, picked[w])]
  /\ picked' = [picked EXCEPT ![w] = None]
  /\ Goto(w, LoopHead(w))
  /\ UNCHANGED <<serverVars, buffer, sig, job, at, runVars, historyVars, faults>>

\* The message is sent to jobs, or SIGTERM wins and it is thrown away.
Select(w) ==
  /\ main[w] = "select"
  /\ \/ /\ Len(jobs[w]) < Capacity
        /\ jobs' = [jobs EXCEPT ![w] = Append(@, picked[w])]
        /\ UNCHANGED dropped
     \/ sig[w] /\ dropped' = dropped \cup {picked[w]} /\ UNCHANGED jobs
  /\ picked' = [picked EXCEPT ![w] = None]
  /\ Goto(w, LoopHead(w))
  /\ UNCHANGED <<serverVars, buffer, sig, job, at, runVars, cut, killed, faults>>

SIGTERM(w) ==
  /\ main[w] # "stopped" /\ ~sig[w]
  /\ Fault
  /\ sig' = [sig EXCEPT ![w] = TRUE]
  /\ UNCHANGED <<serverVars, buffer, main, picked, jobs, job, at, runVars, historyVars>>

\* iterator.Stop, which forgets what it holds, and close(jobs).
Leave(w) ==
  /\ main[w] = "leave"
  /\ Goto(w, "drain")
  /\ buffer' = [buffer EXCEPT ![w] = <<>>]
  /\ dropped' = dropped \cup {m \in Messages : InSeq(m, buffer[w])}
  /\ UNCHANGED <<serverVars, picked, sig, jobs, job, at, runVars, cut, killed, faults>>

\* Mutant: the timeout is reported, and the handlers keep their context.
DrainTimeoutReports(w) == main[w] = "drain" /\ UNCHANGED poolVars

\* The drain timeout: cancelWork.
DrainTimeout(w) ==
  /\ main[w] = "drain"
  /\ Goto(w, "cancelled")
  /\ UNCHANGED <<serverVars, buffer, picked, sig, jobs, job, at, runVars, historyVars, faults>>

\* Mutant: the goroutines return at their next message.
DrainedIdle(w) == \A g \in Goroutines : at[w][g] = "idle"

\* inFlight.Wait: every goroutine has seen the end of the closed channel.
Drained(w) == jobs[w] = <<>> /\ \A g \in Goroutines : at[w][g] = "idle"

\* The process ends, and with it everything it has in memory.
Ends(w) ==
  /\ Goto(w, "stopped")
  /\ buffer' = [buffer EXCEPT ![w] = <<>>]
  /\ picked' = [picked EXCEPT ![w] = None]
  /\ jobs' = [jobs EXCEPT ![w] = <<>>]
  /\ job' = [job EXCEPT ![w] = [g \in Goroutines |-> None]]
  /\ at' = [at EXCEPT ![w] = [g \in Goroutines |-> "idle"]]
  /\ UNCHANGED <<serverVars, sig, runVars, cut>>

Stop(w) ==
  /\ main[w] \in {"drain", "cancelled"}
  /\ Drained(w)
  /\ Ends(w)
  /\ UNCHANGED <<dropped, killed, faults>>

\* SIGKILL, or the end of the node, at any moment.
Kill(w) ==
  /\ main[w] # "stopped"
  /\ Fault
  /\ Ends(w)
  /\ dropped' = dropped \cup {m \in Messages : Holds(w, m)}
  /\ killed' = killed \cup {m \in Messages : \E g \in Goroutines : Executes(w, g, m)}

\* The deployment starts a new process in its place.
Restart(w) ==
  /\ main[w] = "stopped"
  /\ Goto(w, "next")
  /\ sig' = [sig EXCEPT ![w] = FALSE]
  /\ UNCHANGED <<serverVars, buffer, picked, jobs, job, at, runVars, historyVars, faults>>

-----------------------------------------------------------------------------
(* The goroutines.                                                         *)

\* for message := range jobs
TakeJob(w, g) ==
  /\ at[w][g] = "idle" /\ jobs[w] # <<>>
  /\ jobs' = [jobs EXCEPT ![w] = Tail(@)]
  /\ job' = [job EXCEPT ![w][g] = Head(jobs[w])]
  /\ at' = [at EXCEPT ![w][g] = "claim"]
  /\ UNCHANGED <<serverVars, loopVars, runVars, historyVars, faults>>

\* The goroutine is done with its message.
Free(w, g) ==
  /\ job' = [job EXCEPT ![w][g] = None]
  /\ at' = [at EXCEPT ![w][g] = "idle"]

Claimable(m) ==
  \/ run[m] = "queued"
  \/ run[m] = "running" /\ lease[m] = "lapsed"

Leased(m) ==
  /\ run' = [run EXCEPT ![m] = "running"]
  /\ lease' = [lease EXCEPT ![m] = "live"]

\* The claim takes the run, or finds no row and process returns nil.
Claim(w, g, m) ==
  /\ job[w][g] = m /\ at[w][g] = "claim" /\ main[w] # "cancelled"
  /\ \/ /\ Claimable(m)
        /\ Leased(m)
        /\ at' = [at EXCEPT ![w][g] = "work"]
        /\ UNCHANGED <<serverVars, job>>
     \/ ~Claimable(m) /\ Ack(m) /\ Free(w, g) /\ UNCHANGED runVars
  /\ UNCHANGED <<loopVars, jobs, historyVars, faults>>

\* An error of the database, or of a context that cancelWork has ended.
StatementFails(w) == IF main[w] = "cancelled" THEN UNCHANGED faults ELSE Fault

\* A step of execute renews the lease.
Renew(w, g, m) ==
  /\ Executes(w, g, m) /\ run[m] = "running"
  /\ lease' = [lease EXCEPT ![m] = "live"]
  /\ UNCHANGED <<serverVars, loopVars, jobs, job, at, run, historyVars, faults>>

\* The run becomes terminal or waits for an approval.  execute returns nil,
\* or fails at the event it appends afterwards.
Finish(w, g, m) ==
  /\ Executes(w, g, m)
  /\ run' = [run EXCEPT ![m] = "done"]
  /\ lease' = [lease EXCEPT ![m] = "none"]
  /\ \/ Ack(m) /\ UNCHANGED faults
     \/ Nak(m) /\ StatementFails(w)
  /\ Free(w, g)
  /\ UNCHANGED <<loopVars, jobs, historyVars>>

\* Mutant: every message is acknowledged, also after an error.
FailAcks(w, g, m) ==
  /\ job[w][g] = m
  /\ \/ at[w][g] = "claim" /\ UNCHANGED <<runVars, cut>>
     \/ at[w][g] = "work" /\ cut' = cut \cup {m} /\ UNCHANGED runVars
  /\ StatementFails(w)
  /\ Ack(m)
  /\ Free(w, g)
  /\ UNCHANGED <<loopVars, jobs, dropped, killed>>

\* process returns an error: a statement failed, which after cancelWork every
\* statement does.  The claim may have been committed all the same.
Fail(w, g, m) ==
  /\ job[w][g] = m
  /\ \/ at[w][g] = "claim" /\ UNCHANGED <<runVars, cut>>
     \/ /\ at[w][g] = "claim" /\ Claimable(m)
        /\ Leased(m)
        /\ cut' = cut \cup {m}
     \/ at[w][g] = "work" /\ cut' = cut \cup {m} /\ UNCHANGED runVars
  /\ StatementFails(w)
  /\ Nak(m)
  /\ Free(w, g)
  /\ UNCHANGED <<loopVars, jobs, dropped, killed>>

LeaseExpires(m) ==
  /\ lease[m] = "live"
  /\ lease' = [lease EXCEPT ![m] = "lapsed"]
  /\ UNCHANGED <<serverVars, loopVars, jobs, job, at, run, historyVars, faults>>

-----------------------------------------------------------------------------
MainStep(w) == Next(w) \/ Select(w) \/ Leave(w) \/ DrainTimeout(w) \/ Stop(w)

HandlerStep(w, g) ==
  \/ TakeJob(w, g)
  \/ \E m \in Messages : Claim(w, g, m) \/ Renew(w, g, m) \/ Finish(w, g, m) \/ Fail(w, g, m)

PoolNext ==
  \/ \E w \in Workers :
       \/ MainStep(w) \/ SIGTERM(w) \/ Kill(w) \/ Restart(w)
       \/ \E g \in Goroutines : HandlerStep(w, g)
       \/ \E m \in Messages : Deliver(w, m)
  \/ \E m \in Messages : AckWaitExpires(m) \/ LeaseExpires(m)

\* Once SIGTERM has been received the main goroutine goes on; before it, it
\* may wait.  A handler may take as long as it likes, until its context is
\* cancelled: then its statements fail.
PoolFairness ==
  \A w \in Workers :
    /\ WF_poolVars(sig[w] /\ MainStep(w))
    /\ \A g \in Goroutines :
         WF_poolVars(main[w] = "cancelled" /\ (TakeJob(w, g) \/ \E m \in Messages : Fail(w, g, m)))

PoolSpec == PoolInit /\ [][PoolNext]_poolVars /\ PoolFairness

-----------------------------------------------------------------------------
(* Correctness.                                                            *)

MainStates == {"next", "select", "leave", "drain", "cancelled", "stopped"}

\* Every variable has its type, and no queue exceeds its capacity.
PoolTypeOK ==
  /\ status \in [Messages -> {"new", "out", "again", "acked"}]
  /\ main \in [Workers -> MainStates]
  /\ sig \in [Workers -> BOOLEAN]
  /\ picked \in [Workers -> Messages \cup {None}]
  /\ \A w \in Workers :
       /\ buffer[w] \in Seq(Messages) /\ Len(buffer[w]) <= PullMaxMessages
       /\ jobs[w] \in Seq(Messages) /\ Len(jobs[w]) <= Capacity
       /\ picked[w] # None <=> main[w] = "select"
       /\ \A g \in Goroutines :
            /\ job[w][g] \in Messages \cup {None}
            /\ at[w][g] \in {"idle", "claim", "work"}
            /\ job[w][g] = None <=> at[w][g] = "idle"
  /\ run \in [Messages -> {"queued", "running", "done"}]
  /\ lease \in [Messages -> {"none", "live", "lapsed"}]
  /\ slow \in 0..MaxSlow /\ faults \in 0..MaxFaults
  /\ Cardinality(Pending) <= MaxAckPending

\* A message the consumer waits for is in some process, or was thrown away by
\* a receive loop that was told to stop or by a kill: a drain settles
\* everything that it accepted, also when it times out.
OutIsAccounted ==
  \A m \in Messages :
    status[m] = "out" => m \in dropped \/ \E w \in Workers : Holds(w, m)

\* MaxAckPending and the capacity of jobs fit: the receive loop never waits
\* for the handlers unless AckWait ended during the work.
SendNeverBlocks ==
  overtaken = {} => \A w \in Workers : main[w] = "select" => Len(jobs[w]) < Capacity

\* Restarts, drains and kills lose no run: one that needs a worker has a
\* message to come or a handler.  The exceptions are a handler that failed
\* after its claim, in particular one that the drain timeout cancelled, whose
\* message comes back under its own live lease; and a handler that was killed
\* after its message had been delivered again.
NoneLost ==
  \A m \in Messages :
    run[m] # "done" =>
      \/ status[m] # "acked"
      \/ \E w \in Workers, g \in Goroutines : Executes(w, g, m)
      \/ m \in cut
      \/ m \in overtaken \cap killed

\* A process that receives SIGTERM stops, whatever its handlers do and however
\* full its channel is.
SignalEnds == \A w \in Workers : sig[w] ~> main[w] = "stopped"
=============================================================================
