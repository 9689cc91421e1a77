--------------------------- MODULE WorkerPoolProofs ---------------------------
(***************************************************************************)
(* Proofs about WorkerPool, for any processes, messages, concurrency,      *)
(* prefetch and number of faults.                                          *)
(*                                                                         *)
(* As long as AckWait does not end during the work on a message, the       *)
(* message is in one place of one process (Single).  From there follow     *)
(* that the channel has room for what the consumer delivers, and that a    *)
(* claim that finds nothing to do acknowledges no run that still needs its *)
(* message (Kept).                                                         *)
(***************************************************************************)
EXTENDS WorkerPool, FiniteSetTheorems, TLAPS

\* The types, with the shapes of the functions, and an iterator that is empty
\* once the process drains.
Shape ==
  /\ status \in [Messages -> {"new", "out", "again", "acked"}]
  /\ main \in [Workers -> MainStates]
  /\ sig \in [Workers -> BOOLEAN]
  /\ picked \in [Workers -> Messages \cup {None}]
  /\ buffer \in [Workers -> Seq(Messages)]
  /\ jobs \in [Workers -> Seq(Messages)]
  /\ job \in [Workers -> [Goroutines -> Messages \cup {None}]]
  /\ at \in [Workers -> [Goroutines -> {"idle", "claim", "work"}]]
  /\ run \in [Messages -> {"queued", "running", "done"}]
  /\ lease \in [Messages -> {"none", "live", "lapsed"}]
  /\ slow \in 0..MaxSlow /\ faults \in 0..MaxFaults
  /\ \A w \in Workers :
       /\ picked[w] # None <=> main[w] = "select"
       /\ main[w] \in {"drain", "cancelled"} => buffer[w] = <<>>
       /\ \A g \in Goroutines : job[w][g] = None <=> at[w][g] = "idle"

\* The queues and the consumer's window keep to their limits.
Limits ==
  /\ \A w \in Workers : Len(buffer[w]) <= PullMaxMessages /\ Len(jobs[w]) <= Capacity
  /\ IsFiniteSet(Pending)
  /\ Cardinality(Pending) <= MaxAckPending

\* m occurs in s once at most.
Once(m, s) == \A i, j \in DOMAIN s : s[i] = m /\ s[j] = m => i = j

HasJob(w, m) == \E g \in Goroutines : job[w][g] = m

\* m is in one place of process w at most.
OnePlace(w, m) ==
  /\ Once(m, buffer[w]) /\ Once(m, jobs[w])
  /\ InSeq(m, buffer[w]) => picked[w] # m /\ ~InSeq(m, jobs[w]) /\ ~HasJob(w, m)
  /\ picked[w] = m => ~InSeq(m, jobs[w]) /\ ~HasJob(w, m)
  /\ InSeq(m, jobs[w]) => ~HasJob(w, m)
  /\ \A g, h \in Goroutines : job[w][g] = m /\ job[w][h] = m => g = h

\* m is in one place at most, and the consumer waits for it while it is.
Single(m) ==
  /\ \A w \in Workers : OnePlace(w, m) /\ (Holds(w, m) => status[m] = "out")
  /\ \A v, w \in Workers : Holds(v, m) /\ Holds(w, m) => v = w

SingleOK == \A m \in Messages : m \notin overtaken => Single(m)

Executed(m) == \E w \in Workers, g \in Goroutines : Executes(w, g, m)

\* A running run has a lease and a handler, unless its handler failed or was
\* killed; and unless AckWait ended early, a message comes back to a killed
\* handler's run only once the lease has run out.
Kept(m) ==
  run[m] = "running" =>
    /\ lease[m] # "none"
    /\ Executed(m) \/ m \in cut \/ m \in killed
    /\ m \notin overtaken =>
         \/ Executed(m) \/ m \in cut \/ lease[m] = "lapsed"
         \/ status[m] = "out" /\ \A w \in Workers : ~Holds(w, m)

KeptOK == \A m \in Messages : Kept(m)

PoolInv == Shape /\ Limits /\ OutIsAccounted /\ SingleOK /\ KeptOK /\ NoneLost

-----------------------------------------------------------------------------
(* Sequences and sets.                                                     *)

\* A message that is appended.
LEMMA Appended ==
  ASSUME NEW M, NEW s \in Seq(M), NEW x \in M, NEW m
  PROVE  /\ Append(s, x) \in Seq(M) /\ Len(Append(s, x)) = Len(s) + 1
         /\ InSeq(m, Append(s, x)) <=> InSeq(m, s) \/ m = x
         /\ Once(m, s) /\ (m = x => ~InSeq(m, s)) => Once(m, Append(s, x))
<1> DEFINE t == Append(s, x)
<1>1. /\ t \in Seq(M) /\ Len(t) = Len(s) + 1 /\ Len(s) \in Nat
      /\ DOMAIN t = 1..(Len(s) + 1) /\ DOMAIN s = 1..Len(s)
      /\ t[Len(s) + 1] = x /\ \A n \in 1..Len(s) : t[n] = s[n]
  OBVIOUS
<1> HIDE DEF t
<1>2. InSeq(m, t) <=> InSeq(m, s) \/ m = x
  <2>1. ASSUME InSeq(m, s) PROVE InSeq(m, t)
    BY <1>1, <2>1 DEF InSeq
  <2>2. ASSUME m = x PROVE InSeq(m, t)
    BY <1>1, <2>2 DEF InSeq
  <2>3. ASSUME InSeq(m, t), m # x PROVE InSeq(m, s)
    <3>1. PICK n \in 1..(Len(s) + 1) : t[n] = m
      BY <1>1, <2>3 DEF InSeq
    <3>2. n \in 1..Len(s)
      BY <1>1, <2>3, <3>1
    <3> QED BY <1>1, <3>1, <3>2 DEF InSeq
  <2> QED BY <2>1, <2>2, <2>3
<1>3. ASSUME Once(m, s), m = x => ~InSeq(m, s), NEW i \in DOMAIN t, NEW j \in DOMAIN t,
             t[i] = m, t[j] = m
      PROVE  i = j
  <2>1. CASE m = x
    <3>1. \A n \in 1..Len(s) : t[n] # m
      BY <1>1, <1>3, <2>1 DEF InSeq
    <3> QED BY <1>1, <1>3, <3>1
  <2>2. CASE m # x
    <3>1. i \in 1..Len(s) /\ j \in 1..Len(s)
      BY <1>1, <1>3, <2>2
    <3> QED BY <1>1, <1>3, <3>1 DEF Once
  <2> QED BY <2>1, <2>2
<1>4. Once(m, s) /\ (m = x => ~InSeq(m, s)) => Once(m, t)
  BY <1>3 DEF Once
<1> QED BY <1>1, <1>2, <1>4 DEF t

\* A message that is taken from the head.
LEMMA Taken ==
  ASSUME NEW M, NEW s \in Seq(M), s # <<>>, NEW m
  PROVE  /\ Tail(s) \in Seq(M) /\ Head(s) \in M /\ Len(Tail(s)) = Len(s) - 1
         /\ InSeq(m, s) <=> m = Head(s) \/ InSeq(m, Tail(s))
         /\ Once(m, s) => Once(m, Tail(s)) /\ (m = Head(s) => ~InSeq(m, Tail(s)))
<1> DEFINE t == Tail(s)
<1>1. /\ t \in Seq(M) /\ Head(s) \in M /\ Head(s) = s[1] /\ Len(s) \in Nat \ {0}
      /\ Len(t) = Len(s) - 1
      /\ DOMAIN t = 1..(Len(s) - 1) /\ DOMAIN s = 1..Len(s)
      /\ \A n \in 1..(Len(s) - 1) : t[n] = s[n + 1]
  OBVIOUS
<1> HIDE DEF t
<1>2. InSeq(m, s) <=> m = Head(s) \/ InSeq(m, t)
  <2>1. ASSUME InSeq(m, s), m # Head(s) PROVE InSeq(m, t)
    <3>1. PICK n \in 1..Len(s) : s[n] = m
      BY <1>1, <2>1 DEF InSeq
    <3>2. n - 1 \in 1..(Len(s) - 1) /\ t[n - 1] = s[n]
      <4>1. n # 1
        BY <1>1, <2>1, <3>1
      <4>2. n - 1 \in 1..(Len(s) - 1) /\ (n - 1) + 1 = n
        BY <1>1, <4>1
      <4> QED BY <1>1, <4>2
    <3> QED BY <1>1, <3>1, <3>2 DEF InSeq
  <2>2. ASSUME m = Head(s) PROVE InSeq(m, s)
    BY <1>1, <2>2 DEF InSeq
  <2>3. ASSUME InSeq(m, t) PROVE InSeq(m, s)
    <3>1. PICK n \in 1..(Len(s) - 1) : t[n] = m
      BY <1>1, <2>3 DEF InSeq
    <3>2. n + 1 \in 1..Len(s) /\ s[n + 1] = m
      BY <1>1, <3>1
    <3> QED BY <1>1, <3>2 DEF InSeq
  <2> QED BY <2>1, <2>2, <2>3
<1>3. ASSUME Once(m, s) PROVE Once(m, t)
  <2> SUFFICES ASSUME NEW i \in DOMAIN t, NEW j \in DOMAIN t, t[i] = m, t[j] = m
               PROVE  i = j
    BY DEF Once
  <2>1. /\ i \in Int /\ j \in Int /\ i + 1 \in DOMAIN s /\ j + 1 \in DOMAIN s
        /\ s[i + 1] = m /\ s[j + 1] = m
    BY <1>1
  <2>2. i + 1 = j + 1
    BY <1>3, <2>1 DEF Once
  <2> QED BY <2>1, <2>2
<1>4. ASSUME Once(m, s), m = Head(s) PROVE ~InSeq(m, t)
  <2> SUFFICES ASSUME NEW n \in DOMAIN t, t[n] = m PROVE FALSE
    BY DEF InSeq
  <2>1. n \in Int /\ n + 1 \in DOMAIN s /\ s[n + 1] = m /\ 1 \in DOMAIN s /\ s[1] = m /\ n # 0
    BY <1>1, <1>4
  <2>2. n + 1 = 1
    BY <1>4, <2>1 DEF Once
  <2> QED BY <2>1, <2>2
<1> QED BY <1>1, <1>2, <1>3, <1>4 DEF t

\* The empty sequence.
LEMMA Empty == ASSUME NEW m PROVE ~InSeq(m, <<>>) /\ Once(m, <<>>)
BY DEF InSeq, Once

\* The limits are one natural number.
LEMMA Capacities ==
  Capacity \in Nat /\ PullMaxMessages = Capacity /\ MaxAckPending = Capacity
<1>1. concurrency \in Nat /\ prefetch \in Nat
  BY PoolAssumption
<1>2. concurrency * prefetch \in Nat
  BY <1>1
<1> QED BY <1>2 DEF Capacity, PullMaxMessages, MaxAckPending

-----------------------------------------------------------------------------
(* Shapes.                                                                 *)

\* The steps of the consumer, of time and of the signal.
LEMMA ShapeOutside ==
  ASSUME Shape,
         \/ \E w \in Workers : SIGTERM(w) \/ (\E m \in Messages : Deliver(w, m))
         \/ \E m \in Messages : AckWaitExpires(m) \/ LeaseExpires(m)
  PROVE  Shape'
<1> USE DEF loopVars, runVars, serverVars, historyVars
<1>1. ASSUME NEW w \in Workers, NEW m \in Messages, Deliver(w, m) PROVE Shape'
  <2>1. main[w] \in {"next", "select"} /\ buffer' = [buffer EXCEPT ![w] = Append(@, m)]
    BY <1>1 DEF Deliver
  <2>2. buffer' \in [Workers -> Seq(Messages)]
    BY <2>1 DEF Shape
  <2> QED BY <1>1, <2>1, <2>2 DEF Deliver, Shape
<1>2. ASSUME NEW w \in Workers, SIGTERM(w) PROVE Shape'
  <2>1. sig' \in [Workers -> BOOLEAN]
    BY <1>2, Zenon DEF SIGTERM, Shape
  <2>2. faults' \in 0..MaxFaults
    BY <1>2, PoolAssumption DEF SIGTERM, Fault, Shape
  <2> QED BY <1>2, <2>1, <2>2 DEF SIGTERM, Shape
<1>3. ASSUME NEW m \in Messages, AckWaitExpires(m) PROVE Shape'
  <2>1. slow' \in 0..MaxSlow
    BY <1>3, PoolAssumption DEF AckWaitExpires, Shape
  <2> QED BY <1>3, <2>1 DEF AckWaitExpires, Shape
<1>4. ASSUME NEW m \in Messages, LeaseExpires(m) PROVE Shape'
  BY <1>4 DEF LeaseExpires, Shape
<1> QED BY <1>1, <1>2, <1>3, <1>4

\* The steps of the main goroutine.
LEMMA ShapeMain ==
  ASSUME Shape, NEW w \in Workers, MainStep(w) \/ Kill(w) \/ Restart(w)
  PROVE  Shape'
<1> USE DEF loopVars, runVars, serverVars, historyVars, Goto, MainStates
<1>1. CASE Next(w)
  <2>1. ASSUME buffer[w] # <<>>
        PROVE  Head(buffer[w]) \in Messages /\ Tail(buffer[w]) \in Seq(Messages)
    BY <2>1, Taken DEF Shape
  <2>2. None \notin Messages
    BY PoolAssumption
  <2>3. CASE /\ buffer[w] # <<>>
             /\ picked' = [picked EXCEPT ![w] = Head(buffer[w])]
             /\ buffer' = [buffer EXCEPT ![w] = Tail(@)]
             /\ Goto(w, "select")
    <3>1. /\ picked' \in [Workers -> Messages \cup {None}]
          /\ buffer' \in [Workers -> Seq(Messages)]
          /\ main' \in [Workers -> MainStates]
      BY <2>1, <2>3 DEF Shape
    <3>2. \A v \in Workers :
            /\ picked'[v] # None <=> main'[v] = "select"
            /\ main'[v] \in {"drain", "cancelled"} => buffer'[v] = <<>>
      BY <2>1, <2>2, <2>3 DEF Shape
    <3> QED BY <1>1, <3>1, <3>2 DEF Next, Shape
  <2>4. CASE sig[w] /\ Goto(w, "leave") /\ UNCHANGED <<buffer, picked>>
    BY <1>1, <2>4 DEF Next, Shape
  <2> QED BY <1>1, <2>3, <2>4 DEF Next
<1>2. CASE Select(w)
  <2>1. picked[w] \in Messages /\ LoopHead(w) \in {"leave", "next"}
    BY <1>2 DEF Select, Shape, LoopHead
  <2>2. Append(jobs[w], picked[w]) \in Seq(Messages)
    BY <2>1 DEF Shape
  <2>3. jobs' \in [Workers -> Seq(Messages)]
    <3>1. CASE jobs' = [jobs EXCEPT ![w] = Append(@, picked[w])]
      BY <2>2, <3>1 DEF Shape
    <3>2. CASE jobs' = jobs
      BY <3>2 DEF Shape
    <3> QED BY <1>2, <3>1, <3>2 DEF Select
  <2>4. /\ main' \in [Workers -> MainStates] /\ picked' \in [Workers -> Messages \cup {None}]
        /\ \A v \in Workers : /\ picked'[v] # None <=> main'[v] = "select"
                              /\ main'[v] \in {"drain", "cancelled"} => buffer[v] = <<>>
    BY <1>2, <2>1 DEF Select, Shape
  <2> QED BY <1>2, <2>3, <2>4 DEF Select, Shape
<1>3. CASE Leave(w)
  <2>1. <<>> \in Seq(Messages)
    OBVIOUS
  <2> QED BY <1>3, <2>1 DEF Leave, Shape
<1>4. CASE DrainTimeout(w)
  BY <1>4 DEF DrainTimeout, Shape
<1>5. CASE Stop(w) \/ Kill(w)
  <2>1. <<>> \in Seq(Messages)
    OBVIOUS
  <2>2. Ends(w)
    BY <1>5 DEF Stop, Kill
  <2>3. faults' \in 0..MaxFaults
    BY <1>5, PoolAssumption DEF Stop, Kill, Fault, Shape
  <2>4. /\ [g \in Goroutines |-> None] \in [Goroutines -> Messages \cup {None}]
        /\ [g \in Goroutines |-> "idle"] \in [Goroutines -> {"idle", "claim", "work"}]
    OBVIOUS
  <2>5. /\ job' \in [Workers -> [Goroutines -> Messages \cup {None}]]
        /\ at' \in [Workers -> [Goroutines -> {"idle", "claim", "work"}]]
    BY <2>2, <2>4 DEF Ends, Shape
  <2>6. \A v \in Workers : \A g \in Goroutines : job'[v][g] = None <=> at'[v][g] = "idle"
    BY <2>2 DEF Ends, Shape
  <2>7. /\ status' = status /\ slow' = slow /\ sig' = sig /\ run' = run /\ lease' = lease
        /\ main' = [main EXCEPT ![w] = "stopped"]
        /\ picked' = [picked EXCEPT ![w] = None]
        /\ buffer' = [buffer EXCEPT ![w] = <<>>] /\ jobs' = [jobs EXCEPT ![w] = <<>>]
    BY <2>2 DEF Ends
  <2> QED BY <2>1, <2>3, <2>5, <2>6, <2>7 DEF Shape
<1>6. CASE Restart(w)
  <2>1. sig' \in [Workers -> BOOLEAN]
    BY <1>6, Zenon DEF Restart, Shape
  <2> QED BY <1>6, <2>1 DEF Restart, Shape
<1> QED BY <1>1, <1>2, <1>3, <1>4, <1>5, <1>6 DEF MainStep

\* A goroutine that is done with its message.
LEMMA FreeShape ==
  ASSUME Shape, NEW w \in Workers, NEW g \in Goroutines, Free(w, g)
  PROVE  /\ job' \in [Workers -> [Goroutines -> Messages \cup {None}]]
         /\ at' \in [Workers -> [Goroutines -> {"idle", "claim", "work"}]]
         /\ job'[w][g] = None /\ at'[w][g] = "idle"
         /\ \A v \in Workers, h \in Goroutines :
              \/ v = w /\ h = g
              \/ job'[v][h] = job[v][h] /\ at'[v][h] = at[v][h]
         /\ \A v \in Workers, h \in Goroutines : job'[v][h] = None <=> at'[v][h] = "idle"
<1>1. /\ job' \in [Workers -> [Goroutines -> Messages \cup {None}]]
      /\ at' \in [Workers -> [Goroutines -> {"idle", "claim", "work"}]]
  BY DEF Free, Shape
<1>2. job'[w][g] = None /\ at'[w][g] = "idle"
  BY DEF Free, Shape
<1>3. \A v \in Workers, h \in Goroutines :
              \/ v = w /\ h = g
              \/ job'[v][h] = job[v][h] /\ at'[v][h] = at[v][h]
  BY DEF Free, Shape
<1>4. ASSUME NEW v \in Workers, NEW h \in Goroutines
      PROVE  job'[v][h] = None <=> at'[v][h] = "idle"
  <2>1. job[v][h] = None <=> at[v][h] = "idle"
    BY DEF Shape
  <2> QED BY <1>2, <1>3, <2>1
<1> QED BY <1>1, <1>2, <1>3, <1>4

\* The steps of the goroutines.
LEMMA ShapeHandler ==
  ASSUME Shape, NEW w \in Workers, NEW g \in Goroutines, HandlerStep(w, g)
  PROVE  Shape'
<1> USE DEF loopVars, runVars, serverVars, historyVars
<1>1. CASE TakeJob(w, g)
  <2>1. Head(jobs[w]) \in Messages /\ Tail(jobs[w]) \in Seq(Messages) /\ None \notin Messages
    BY <1>1, Taken, PoolAssumption DEF TakeJob, Shape
  <2> QED BY <1>1, <2>1 DEF TakeJob, Shape
<1>2. ASSUME NEW m \in Messages, Claim(w, g, m) PROVE Shape'
  <2>1. CASE Leased(m) /\ at' = [at EXCEPT ![w][g] = "work"] /\ UNCHANGED <<serverVars, job>>
    <3>1. /\ run' \in [Messages -> {"queued", "running", "done"}]
          /\ lease' \in [Messages -> {"none", "live", "lapsed"}]
          /\ at' \in [Workers -> [Goroutines -> {"idle", "claim", "work"}]]
      BY <2>1 DEF Leased, Shape
    <3>2. \A v \in Workers, h \in Goroutines : at'[v][h] = "idle" <=> at[v][h] = "idle"
      BY <1>2, <2>1 DEF Claim, Shape
    <3> QED BY <1>2, <2>1, <3>1, <3>2 DEF Claim, Shape
  <2>2. CASE Ack(m) /\ Free(w, g) /\ UNCHANGED runVars
    <3>1. status' \in [Messages -> {"new", "out", "again", "acked"}]
      BY <2>2 DEF Ack, Shape
    <3> QED BY <1>2, <2>2, <3>1, FreeShape DEF Claim, Ack, Shape
  <2> QED BY <1>2, <2>1, <2>2 DEF Claim
<1>3. ASSUME NEW m \in Messages, Renew(w, g, m) PROVE Shape'
  BY <1>3 DEF Renew, Shape
<1>4. ASSUME NEW m \in Messages, Finish(w, g, m) \/ Fail(w, g, m) PROVE Shape'
  <2>1. Free(w, g) /\ slow' = slow /\ UNCHANGED <<main, sig, picked, buffer, jobs>>
    BY <1>4 DEF Finish, Fail, Ack, Nak
  <2>2. faults' \in 0..MaxFaults
    <3>1. StatementFails(w) \/ UNCHANGED faults
      BY <1>4 DEF Finish, Fail
    <3> QED BY <3>1, PoolAssumption DEF StatementFails, Fault, Shape
  <2>3. status' \in [Messages -> {"new", "out", "again", "acked"}]
    <3>1. Ack(m) \/ Nak(m)
      BY <1>4 DEF Finish, Fail
    <3>2. CASE Ack(m)
      BY <3>2 DEF Ack, Shape
    <3>3. CASE Nak(m)
      BY <3>3 DEF Nak, Shape
    <3> QED BY <3>1, <3>2, <3>3
  <2>4. /\ run' \in [Messages -> {"queued", "running", "done"}]
        /\ lease' \in [Messages -> {"none", "live", "lapsed"}]
    <3>1. CASE Finish(w, g, m)
      BY <3>1 DEF Finish, Shape
    <3>2. CASE Fail(w, g, m)
      <4>1. Leased(m) \/ UNCHANGED runVars
        BY <3>2 DEF Fail
      <4>2. CASE Leased(m)
        BY <4>2 DEF Leased, Shape
      <4>3. CASE UNCHANGED runVars
        BY <4>3 DEF Shape
      <4> QED BY <4>1, <4>2, <4>3
    <3> QED BY <1>4, <3>1, <3>2
  <2> QED BY <2>1, <2>2, <2>3, <2>4, FreeShape DEF Shape
<1> QED BY <1>1, <1>2, <1>3, <1>4 DEF HandlerStep

\* Every step keeps the shapes.
LEMMA ShapeStep == ASSUME Shape, [PoolNext]_poolVars PROVE Shape'
<1>1. CASE UNCHANGED poolVars
  BY <1>1 DEF poolVars, serverVars, loopVars, runVars, historyVars, Shape
<1> QED BY <1>1, ShapeOutside, ShapeMain, ShapeHandler DEF PoolNext

-----------------------------------------------------------------------------
(* Limits.                                                                 *)

\* Only a delivery makes a message pending, and only the holder of a message
\* and AckWait settle it.
LEMMA StatusSteps ==
  ASSUME Shape, [PoolNext]_poolVars,
         \A w \in Workers, m \in Messages : ~Deliver(w, m)
  PROVE  Pending' \subseteq Pending
<1> USE DEF loopVars, runVars, serverVars, historyVars
<1>1. ASSUME NEW w \in Workers, MainStep(w) \/ Kill(w) \/ Restart(w) \/ SIGTERM(w)
      PROVE  status' = status
  BY <1>1 DEF MainStep, Next, Select, Leave, DrainTimeout, Stop, Kill, Ends, Restart, SIGTERM
<1>2. ASSUME NEW w \in Workers, NEW g \in Goroutines, HandlerStep(w, g)
      PROVE  status' = status \/ \E m \in Messages : Ack(m) \/ Nak(m)
  BY <1>2 DEF HandlerStep, TakeJob, Claim, Renew, Finish, Fail
<1>3. ASSUME NEW m \in Messages, Ack(m) \/ Nak(m) PROVE Pending' \subseteq Pending
  <2>1. CASE Ack(m)
    BY <2>1 DEF Ack, Pending, Shape
  <2>2. CASE Nak(m)
    BY <2>2 DEF Nak, Pending, Shape
  <2> QED BY <1>3, <2>1, <2>2
<1>4. ASSUME NEW m \in Messages, AckWaitExpires(m) PROVE Pending' \subseteq Pending
  BY <1>4 DEF AckWaitExpires, Pending, Shape
<1>5. ASSUME status' = status PROVE Pending' \subseteq Pending
  BY <1>5 DEF Pending
<1>6. ASSUME NEW m \in Messages, LeaseExpires(m) PROVE status' = status
  BY <1>6 DEF LeaseExpires
<1>7. UNCHANGED poolVars => status' = status
  BY DEF poolVars
<1> QED BY <1>1, <1>2, <1>3, <1>4, <1>5, <1>6, <1>7 DEF PoolNext

\* The queues and the window keep to their limits.
LEMMA LimitsStep ==
  ASSUME Shape, Limits, [PoolNext]_poolVars
  PROVE  Limits'
<1> USE DEF loopVars, runVars, serverVars, historyVars
<1>1. IsFiniteSet(Pending') /\ Cardinality(Pending') <= MaxAckPending
  <2>1. CASE \A w \in Workers, m \in Messages : ~Deliver(w, m)
    <3>1. Pending' \in SUBSET Pending
      BY <2>1, StatusSteps
    <3>2. IsFiniteSet(Pending') /\ Cardinality(Pending') <= Cardinality(Pending)
      BY <3>1, FS_Subset DEF Limits
    <3>3. Cardinality(Pending) \in Nat /\ Cardinality(Pending') \in Nat
      BY <3>2, FS_CardinalityType DEF Limits
    <3> QED BY <3>2, <3>3, Capacities DEF Limits
  <2>2. ASSUME NEW w \in Workers, NEW m \in Messages, Deliver(w, m)
        PROVE  IsFiniteSet(Pending') /\ Cardinality(Pending') <= MaxAckPending
    <3>1. Pending' = Pending \cup {m}
      BY <2>2 DEF Deliver, Pending, Shape
    <3>2. Cardinality(Pending) \in Nat /\ IsFiniteSet(Pending)
      BY FS_CardinalityType DEF Limits
    <3>3. m \in Pending \/ Cardinality(Pending) < MaxAckPending
      BY <2>2 DEF Deliver, Pending
    <3>4. IsFiniteSet(Pending \cup {m}) /\ Cardinality(Pending \cup {m}) <= MaxAckPending
      <4>1. /\ IsFiniteSet(Pending \cup {m})
            /\ m \in Pending => Cardinality(Pending \cup {m}) = Cardinality(Pending)
            /\ m \notin Pending => Cardinality(Pending \cup {m}) = Cardinality(Pending) + 1
        BY <3>2, FS_AddElement
      <4>2. Cardinality(Pending) <= MaxAckPending /\ MaxAckPending \in Nat
        BY Capacities DEF Limits
      <4> QED BY <3>2, <3>3, <4>1, <4>2
    <3> QED BY <3>1, <3>4
  <2> QED BY <2>1, <2>2
<1>2. ASSUME NEW v \in Workers
      PROVE  Len(buffer'[v]) <= PullMaxMessages /\ Len(jobs'[v]) <= Capacity
  <2> DEFINE Goal == Len(buffer'[v]) <= PullMaxMessages /\ Len(jobs'[v]) <= Capacity
  <2>1. /\ buffer[v] \in Seq(Messages) /\ jobs[v] \in Seq(Messages)
        /\ Len(buffer[v]) <= PullMaxMessages /\ Len(jobs[v]) <= Capacity
        /\ PullMaxMessages \in Nat /\ Capacity \in Nat
        /\ Len(buffer[v]) \in Nat /\ Len(jobs[v]) \in Nat
    BY Capacities DEF Shape, Limits
  <2>2. ASSUME NEW w \in Workers, NEW m \in Messages, Deliver(w, m) PROVE Goal
    <3>1. jobs' = jobs /\ buffer' = [buffer EXCEPT ![w] = Append(@, m)]
          /\ Len(buffer[w]) < PullMaxMessages
      BY <2>2 DEF Deliver
    <3>2. CASE v = w
      <4>1. buffer'[v] = Append(buffer[v], m)
        BY <3>1, <3>2 DEF Shape
      <4>2. Len(Append(buffer[v], m)) = Len(buffer[v]) + 1
        BY <2>1, Appended
      <4> QED BY <2>1, <3>1, <3>2, <4>1, <4>2
    <3>3. CASE v # w
      BY <2>1, <3>1, <3>3 DEF Shape
    <3> QED BY <3>2, <3>3
  <2>3. ASSUME NEW w \in Workers, Next(w) PROVE Goal
    <3>1. CASE buffer' = buffer
      BY <2>1, <2>3, <3>1 DEF Next
    <3>2. CASE buffer[w] # <<>> /\ buffer' = [buffer EXCEPT ![w] = Tail(@)]
      <4>1. CASE v = w
        <5>1. buffer'[v] = Tail(buffer[v]) /\ jobs' = jobs
          BY <2>3, <3>2, <4>1 DEF Next, Shape
        <5>2. Len(Tail(buffer[v])) = Len(buffer[v]) - 1
          BY <2>1, <3>2, <4>1, Taken
        <5> QED BY <2>1, <5>1, <5>2
      <4>2. CASE v # w
        BY <2>1, <2>3, <3>2, <4>2 DEF Next, Shape
      <4> QED BY <4>1, <4>2
    <3> QED BY <2>3, <3>1, <3>2 DEF Next
  <2>4. ASSUME NEW w \in Workers, Select(w) PROVE Goal
    <3>1. CASE jobs' = jobs
      BY <2>1, <2>4, <3>1 DEF Select
    <3>2. CASE Len(jobs[w]) < Capacity /\ jobs' = [jobs EXCEPT ![w] = Append(@, picked[w])]
      <4>1. CASE v = w
        <5>1. jobs'[v] = Append(jobs[v], picked[w]) /\ buffer' = buffer /\ picked[w] \in Messages
          BY <2>4, <3>2, <4>1 DEF Select, Shape
        <5>2. Len(Append(jobs[v], picked[w])) = Len(jobs[v]) + 1
          BY <2>1, <5>1, Appended
        <5> QED BY <2>1, <3>2, <4>1, <5>1, <5>2
      <4>2. CASE v # w
        BY <2>1, <2>4, <3>2, <4>2 DEF Select, Shape
      <4> QED BY <4>1, <4>2
    <3> QED BY <2>4, <3>1, <3>2 DEF Select
  <2>5. ASSUME NEW w \in Workers, Leave(w) \/ Stop(w) \/ Kill(w) PROVE Goal
    <3>1. /\ buffer' = [buffer EXCEPT ![w] = <<>>]
          /\ jobs' = jobs \/ jobs' = [jobs EXCEPT ![w] = <<>>]
      BY <2>5 DEF Leave, Stop, Kill, Ends
    <3>2. buffer'[v] \in {buffer[v], <<>>} /\ jobs'[v] \in {jobs[v], <<>>}
      BY <3>1 DEF Shape
    <3> QED BY <2>1, <3>2
  <2>6. ASSUME NEW w \in Workers, NEW g \in Goroutines, TakeJob(w, g) PROVE Goal
    <3>1. jobs[w] # <<>> /\ jobs' = [jobs EXCEPT ![w] = Tail(@)] /\ buffer' = buffer
      BY <2>6 DEF TakeJob
    <3>2. CASE v = w
      <4>1. jobs'[v] = Tail(jobs[v])
        BY <3>1, <3>2 DEF Shape
      <4>2. Len(Tail(jobs[v])) = Len(jobs[v]) - 1
        BY <2>1, <3>1, <3>2, Taken
      <4> QED BY <2>1, <3>1, <4>1, <4>2
    <3>3. CASE v # w
      BY <2>1, <3>1, <3>3 DEF Shape
    <3> QED BY <3>2, <3>3
  <2>7. ASSUME NEW w \in Workers, NEW g \in Goroutines, HandlerStep(w, g), ~TakeJob(w, g) PROVE Goal
    BY <2>1, <2>7 DEF HandlerStep, Claim, Renew, Finish, Fail
  <2>8. ASSUME NEW w \in Workers, DrainTimeout(w) \/ Restart(w) \/ SIGTERM(w) PROVE Goal
    BY <2>1, <2>8 DEF DrainTimeout, Restart, SIGTERM
  <2>9. ASSUME NEW m \in Messages, AckWaitExpires(m) \/ LeaseExpires(m) PROVE Goal
    BY <2>1, <2>9 DEF AckWaitExpires, LeaseExpires
  <2>10. UNCHANGED poolVars => Goal
    BY <2>1 DEF poolVars
  <2> HIDE DEF Goal
  <2>11. Goal
    BY <2>2, <2>3, <2>4, <2>5, <2>6, <2>7, <2>8, <2>9, <2>10 DEF PoolNext, MainStep
  <2> QED BY <2>11 DEF Goal
<1> QED BY <1>1, <1>2 DEF Limits

-----------------------------------------------------------------------------
(* Where the messages are.                                                 *)

\* A process that does not move keeps its messages where they are.
LEMMA PlaceFrame ==
  ASSUME NEW v, NEW m, buffer'[v] = buffer[v], picked'[v] = picked[v],
         jobs'[v] = jobs[v], job'[v] = job[v]
  PROVE  (Holds(v, m)' <=> Holds(v, m)) /\ (OnePlace(v, m)' <=> OnePlace(v, m))
BY DEF Holds, OnePlace, HasJob, InSeq, Once

\* What an empty process holds.
LEMMA EmptyPlaces ==
  ASSUME NEW v, NEW m \in Messages, buffer[v] = <<>>, picked[v] = None, jobs[v] = <<>>,
         \A g \in Goroutines : job[v][g] = None
  PROVE  ~Holds(v, m) /\ OnePlace(v, m)
<1>1. m # None /\ ~InSeq(m, <<>>) /\ Once(m, <<>>)
  BY Empty, PoolAssumption
<1> QED BY <1>1 DEF Holds, OnePlace, HasJob

\* A delivery adds the message to the iterator.
LEMMA DeliverPlaces ==
  ASSUME Shape, NEW w \in Workers, NEW x \in Messages, Deliver(w, x),
         NEW v \in Workers, NEW m \in Messages
  PROVE  /\ Holds(v, m)' <=> Holds(v, m) \/ (v = w /\ m = x)
         /\ OnePlace(v, m) /\ (v = w /\ m = x => ~Holds(v, m)) => OnePlace(v, m)'
<1>1. /\ buffer' = [buffer EXCEPT ![w] = Append(@, x)]
      /\ UNCHANGED <<picked, jobs, job>>
  BY DEF Deliver
<1>2. CASE v # w
  <2>1. buffer'[v] = buffer[v]
    BY <1>1, <1>2 DEF Shape
  <2> QED BY <1>1, <1>2, <2>1, PlaceFrame
<1>3. CASE v = w
  <2>1. buffer'[v] = Append(buffer[v], x) /\ buffer[v] \in Seq(Messages)
    BY <1>1, <1>3 DEF Shape
  <2>2. /\ InSeq(m, buffer'[v]) <=> InSeq(m, buffer[v]) \/ m = x
        /\ Once(m, buffer[v]) /\ (m = x => ~InSeq(m, buffer[v])) => Once(m, buffer'[v])
    BY <2>1, Appended
  <2>3. Holds(v, m)' <=> Holds(v, m) \/ m = x
    BY <1>1, <2>2 DEF Holds
  <2>4. ASSUME OnePlace(v, m), m = x => ~Holds(v, m) PROVE OnePlace(v, m)'
    BY <1>1, <2>2, <2>4 DEF OnePlace, Holds, HasJob
  <2> QED BY <1>3, <2>3, <2>4
<1> QED BY <1>2, <1>3

\* The receive loop takes a message from the iterator.
LEMMA NextPlaces ==
  ASSUME Shape, NEW w \in Workers, Next(w), NEW v \in Workers, NEW m \in Messages
  PROVE  (Holds(v, m)' <=> Holds(v, m)) /\ (OnePlace(v, m) => OnePlace(v, m)')
<1>1. UNCHANGED <<jobs, job>>
  BY DEF Next
<1>2. CASE UNCHANGED <<buffer, picked>>
  BY <1>1, <1>2, PlaceFrame
<1>3. CASE /\ buffer[w] # <<>>
           /\ picked' = [picked EXCEPT ![w] = Head(buffer[w])]
           /\ buffer' = [buffer EXCEPT ![w] = Tail(@)]
  <2>1. CASE v # w
    <3>1. buffer'[v] = buffer[v] /\ picked'[v] = picked[v]
      BY <1>3, <2>1 DEF Shape
    <3> QED BY <1>1, <3>1, PlaceFrame
  <2>2. CASE v = w
    <3>1. /\ buffer'[v] = Tail(buffer[v]) /\ picked'[v] = Head(buffer[v])
          /\ buffer[v] \in Seq(Messages) /\ buffer[v] # <<>>
      BY <1>3, <2>2 DEF Shape
    <3>2. /\ InSeq(m, buffer[v]) <=> m = Head(buffer[v]) \/ InSeq(m, Tail(buffer[v]))
          /\ Once(m, buffer[v]) =>
               Once(m, Tail(buffer[v])) /\ (m = Head(buffer[v]) => ~InSeq(m, Tail(buffer[v])))
      BY <3>1, Taken
    <3>3. picked[v] # m
      <4>1. picked[v] = None
        BY <2>2 DEF Next, Shape
      <4> QED BY <4>1, PoolAssumption
    <3>4. Holds(v, m)' <=> Holds(v, m)
      BY <1>1, <3>1, <3>2, <3>3 DEF Holds
    <3>5. ASSUME OnePlace(v, m) PROVE OnePlace(v, m)'
      BY <1>1, <3>1, <3>2, <3>3, <3>5 DEF OnePlace, HasJob
    <3> QED BY <3>4, <3>5
  <2> QED BY <2>1, <2>2
<1> QED BY <1>2, <1>3 DEF Next

\* The receive loop sends its message to the channel or throws it away.
LEMMA SelectPlaces ==
  ASSUME Shape, NEW w \in Workers, Select(w), NEW v \in Workers, NEW m \in Messages
  PROVE  /\ Holds(v, m)' => Holds(v, m)
         /\ Holds(v, m) => Holds(v, m)' \/ (m = picked[w] /\ m \in dropped')
         /\ OnePlace(v, m) => OnePlace(v, m)'
<1>1. UNCHANGED <<buffer, job>> /\ picked' = [picked EXCEPT ![w] = None]
  BY DEF Select
<1>2. CASE v # w
  <2>1. picked'[v] = picked[v] /\ jobs'[v] = jobs[v]
    BY <1>2 DEF Select, Shape
  <2> QED BY <1>1, <2>1, PlaceFrame
<1>3. CASE v = w
  <2>1. picked'[v] = None /\ m # None /\ picked[v] \in Messages /\ jobs[v] \in Seq(Messages)
    BY <1>1, <1>3, PoolAssumption DEF Shape, Select
  <2>2. CASE jobs'[v] = Append(jobs[v], picked[v])
    <3>1. /\ InSeq(m, jobs'[v]) <=> InSeq(m, jobs[v]) \/ m = picked[v]
          /\ Once(m, jobs[v]) /\ (m = picked[v] => ~InSeq(m, jobs[v])) => Once(m, jobs'[v])
      BY <2>1, <2>2, Appended
    <3>2. Holds(v, m)' <=> Holds(v, m)
      BY <1>1, <2>1, <3>1 DEF Holds
    <3>3. ASSUME OnePlace(v, m) PROVE OnePlace(v, m)'
      BY <1>1, <2>1, <3>1, <3>3 DEF OnePlace, HasJob
    <3> QED BY <3>2, <3>3
  <2>3. CASE jobs' = jobs /\ dropped' = dropped \cup {picked[w]}
    <3>1. /\ Holds(v, m)' => Holds(v, m)
          /\ Holds(v, m) => Holds(v, m)' \/ (m = picked[w] /\ m \in dropped')
      BY <1>1, <1>3, <2>1, <2>3 DEF Holds
    <3>2. ASSUME OnePlace(v, m) PROVE OnePlace(v, m)'
      BY <1>1, <2>1, <2>3, <3>2 DEF OnePlace, HasJob
    <3> QED BY <3>1, <3>2
  <2> QED BY <1>3, <2>2, <2>3 DEF Select, Shape
<1> QED BY <1>2, <1>3

\* A goroutine takes a message from the channel.
LEMMA TakePlaces ==
  ASSUME Shape, NEW w \in Workers, NEW g \in Goroutines, TakeJob(w, g),
         NEW v \in Workers, NEW m \in Messages
  PROVE  (Holds(v, m)' <=> Holds(v, m)) /\ (OnePlace(v, m) => OnePlace(v, m)')
<1>1. /\ UNCHANGED <<buffer, picked>> /\ jobs[w] # <<>>
      /\ jobs' = [jobs EXCEPT ![w] = Tail(@)]
      /\ job' = [job EXCEPT ![w][g] = Head(jobs[w])]
  BY DEF TakeJob, loopVars
<1>2. CASE v # w
  <2>1. job'[v] = job[v] /\ jobs'[v] = jobs[v]
    BY <1>1, <1>2 DEF Shape
  <2> QED BY <1>1, <2>1, PlaceFrame
<1>3. CASE v = w
  <2>1. /\ jobs'[v] = Tail(jobs[v]) /\ jobs[v] \in Seq(Messages) /\ jobs[v] # <<>>
        /\ job'[v][g] = Head(jobs[v])
        /\ \A h \in Goroutines : h # g => job'[v][h] = job[v][h]
    BY <1>1, <1>3 DEF Shape
  <2>2. /\ InSeq(m, jobs[v]) <=> m = Head(jobs[v]) \/ InSeq(m, Tail(jobs[v]))
        /\ Once(m, jobs[v]) =>
             Once(m, Tail(jobs[v])) /\ (m = Head(jobs[v]) => ~InSeq(m, Tail(jobs[v])))
    BY <2>1, Taken
  <2>3. job[v][g] # m
    <3>1. job[v][g] = None
      BY <1>3 DEF TakeJob, Shape
    <3> QED BY <3>1, PoolAssumption
  <2>4. HasJob(v, m)' <=> HasJob(v, m) \/ m = Head(jobs[v])
    BY <2>1, <2>3 DEF HasJob
  <2>5. Holds(v, m)' <=> Holds(v, m)
    BY <1>1, <2>1, <2>2, <2>4 DEF Holds, HasJob
  <2>6. ASSUME OnePlace(v, m) PROVE OnePlace(v, m)'
    <3>1. \A h, i \in Goroutines : job'[v][h] = m /\ job'[v][i] = m => h = i
      BY <2>1, <2>2, <2>3, <2>6 DEF OnePlace, HasJob
    <3> QED BY <1>1, <2>1, <2>2, <2>4, <2>6, <3>1 DEF OnePlace
  <2> QED BY <2>5, <2>6
<1> QED BY <1>2, <1>3

\* A goroutine is done with its message.
LEMMA FreePlaces ==
  ASSUME Shape, NEW w \in Workers, NEW g \in Goroutines, Free(w, g),
         UNCHANGED <<buffer, picked, jobs>>, NEW v \in Workers, NEW m \in Messages
  PROVE  /\ Holds(v, m)' => Holds(v, m)
         /\ Holds(v, m) => Holds(v, m)' \/ m = job[w][g]
         /\ OnePlace(v, m) => OnePlace(v, m)'
         /\ OnePlace(w, m) /\ m = job[w][g] => ~Holds(w, m)'
<1>1. /\ job'[w][g] = None /\ m # None
      /\ \A u \in Workers, h \in Goroutines :
              \/ u = w /\ h = g
              \/ job'[u][h] = job[u][h]
  BY FreeShape, PoolAssumption
<1>2. /\ Holds(v, m)' => Holds(v, m)
      /\ Holds(v, m) => Holds(v, m)' \/ m = job[w][g]
  BY <1>1 DEF Holds
<1>3. ASSUME OnePlace(v, m) PROVE OnePlace(v, m)'
  BY <1>1, <1>3 DEF OnePlace, HasJob
<1>4. ASSUME OnePlace(w, m), m = job[w][g] PROVE ~Holds(w, m)'
  BY <1>1, <1>4 DEF OnePlace, HasJob, Holds
<1> QED BY <1>2, <1>3, <1>4

\* The iterator forgets what it holds.
LEMMA LeavePlaces ==
  ASSUME Shape, NEW w \in Workers, Leave(w), NEW v \in Workers, NEW m \in Messages
  PROVE  /\ Holds(v, m)' => Holds(v, m)
         /\ Holds(v, m) => Holds(v, m)' \/ m \in dropped'
         /\ OnePlace(v, m) => OnePlace(v, m)'
<1>1. /\ buffer' = [buffer EXCEPT ![w] = <<>>] /\ UNCHANGED <<picked, jobs, job>>
      /\ dropped' = dropped \cup {x \in Messages : InSeq(x, buffer[w])}
  BY DEF Leave
<1>2. CASE v # w
  <2>1. buffer'[v] = buffer[v]
    BY <1>1, <1>2 DEF Shape
  <2> QED BY <1>1, <2>1, PlaceFrame
<1>3. CASE v = w
  <2>1. buffer'[v] = <<>> /\ ~InSeq(m, <<>>) /\ Once(m, <<>>)
    BY <1>1, <1>3, Empty DEF Shape
  <2>2. /\ Holds(v, m)' => Holds(v, m)
        /\ Holds(v, m) => Holds(v, m)' \/ m \in dropped'
    BY <1>1, <1>3, <2>1 DEF Holds
  <2>3. ASSUME OnePlace(v, m) PROVE OnePlace(v, m)'
    BY <1>1, <2>1, <2>3 DEF OnePlace, HasJob
  <2> QED BY <2>2, <2>3
<1> QED BY <1>2, <1>3

\* A process that ends holds nothing.
LEMMA EndsPlaces ==
  ASSUME Shape, NEW w \in Workers, Ends(w), NEW v \in Workers, NEW m \in Messages
  PROVE  /\ ~Holds(w, m)'
         /\ v # w => (Holds(v, m)' <=> Holds(v, m))
         /\ OnePlace(v, m) => OnePlace(v, m)'
<1>1. /\ buffer'[w] = <<>> /\ picked'[w] = None /\ jobs'[w] = <<>>
      /\ \A g \in Goroutines : job'[w][g] = None
  BY DEF Ends, Shape
<1>2. ~Holds(w, m)' /\ OnePlace(w, m)'
  <2>1. m # None /\ ~InSeq(m, <<>>) /\ Once(m, <<>>)
    BY Empty, PoolAssumption
  <2> QED BY <1>1, <2>1 DEF Holds, OnePlace, HasJob
<1>3. ASSUME v # w PROVE (Holds(v, m)' <=> Holds(v, m)) /\ (OnePlace(v, m)' <=> OnePlace(v, m))
  <2>1. buffer'[v] = buffer[v] /\ picked'[v] = picked[v] /\ jobs'[v] = jobs[v] /\ job'[v] = job[v]
    BY <1>3 DEF Ends, Shape
  <2> QED BY <2>1, PlaceFrame
<1> QED BY <1>2, <1>3
-----------------------------------------------------------------------------
(* What the consumer waits for.                                            *)

\* A message the consumer waits for stays accounted for.
LEMMA AccountedStep ==
  ASSUME Shape, OutIsAccounted, [PoolNext]_poolVars
  PROVE  OutIsAccounted'
<1> USE DEF loopVars, runVars, serverVars, historyVars
<1> SUFFICES ASSUME NEW m \in Messages, status'[m] = "out"
             PROVE  m \in dropped' \/ \E w \in Workers : Holds(w, m)'
  BY DEF OutIsAccounted
<1> DEFINE Goal == m \in dropped' \/ \E w \in Workers : Holds(w, m)'
<1>1. status[m] = "out" => m \in dropped \/ \E w \in Workers : Holds(w, m)
  BY DEF OutIsAccounted
<1>2. ASSUME NEW w \in Workers, NEW x \in Messages, Deliver(w, x) PROVE Goal
  <2>1. CASE m = x
    BY <1>2, <2>1, DeliverPlaces
  <2>2. CASE m # x
    <3>1. status'[m] = status[m] /\ dropped' = dropped \ {x}
      BY <1>2, <2>2 DEF Deliver, Shape
    <3>2. \A v \in Workers : Holds(v, m)' <=> Holds(v, m)
      BY <1>2, <2>2, DeliverPlaces
    <3> QED BY <1>1, <2>2, <3>1, <3>2
  <2> QED BY <2>1, <2>2
<1>3. ASSUME NEW w \in Workers, Next(w) PROVE Goal
  <2>1. status' = status /\ dropped' = dropped
    BY <1>3 DEF Next
  <2>2. \A v \in Workers : Holds(v, m)' <=> Holds(v, m)
    BY <1>3, NextPlaces
  <2> QED BY <1>1, <2>1, <2>2
<1>4. ASSUME NEW w \in Workers, Select(w) PROVE Goal
  <2>1. status' = status /\ dropped \subseteq dropped'
    BY <1>4 DEF Select
  <2>2. \A v \in Workers : Holds(v, m) => Holds(v, m)' \/ m \in dropped'
    BY <1>4, SelectPlaces
  <2> QED BY <1>1, <2>1, <2>2
<1>5. ASSUME NEW w \in Workers, Leave(w) PROVE Goal
  <2>1. status' = status /\ dropped \subseteq dropped'
    BY <1>5 DEF Leave
  <2>2. \A v \in Workers : Holds(v, m) => Holds(v, m)' \/ m \in dropped'
    BY <1>5, LeavePlaces
  <2> QED BY <1>1, <2>1, <2>2
<1>6. ASSUME NEW w \in Workers, Stop(w) PROVE Goal
  <2>1. status' = status /\ dropped' = dropped /\ Ends(w)
    BY <1>6 DEF Stop, Ends
  <2>2. ~Holds(w, m)
    <3>1. /\ buffer[w] = <<>> /\ picked[w] = None /\ jobs[w] = <<>>
          /\ \A g \in Goroutines : job[w][g] = None
      BY <1>6 DEF Stop, Drained, Shape
    <3> QED BY <3>1, EmptyPlaces
  <2>3. \A v \in Workers : v # w => (Holds(v, m)' <=> Holds(v, m))
    BY <2>1, EndsPlaces
  <2> QED BY <1>1, <2>1, <2>2, <2>3
<1>7. ASSUME NEW w \in Workers, Kill(w) PROVE Goal
  <2>1. /\ status' = status /\ dropped' = dropped \cup {x \in Messages : Holds(w, x)}
        /\ Ends(w)
    BY <1>7 DEF Kill, Ends
  <2>2. \A v \in Workers : v # w => (Holds(v, m)' <=> Holds(v, m))
    BY <2>1, EndsPlaces
  <2> QED BY <1>1, <2>1, <2>2
<1>8. ASSUME NEW w \in Workers, NEW g \in Goroutines, TakeJob(w, g) PROVE Goal
  <2>1. status' = status /\ dropped' = dropped
    BY <1>8 DEF TakeJob
  <2>2. \A v \in Workers : Holds(v, m)' <=> Holds(v, m)
    BY <1>8, TakePlaces
  <2> QED BY <1>1, <2>1, <2>2
<1>9. ASSUME NEW w \in Workers, NEW g \in Goroutines, NEW x \in Messages,
             job[w][g] = x, Ack(x) \/ Nak(x), Free(w, g),
             UNCHANGED <<buffer, picked, jobs, dropped>>
      PROVE  Goal
  <2>1. m # x /\ status'[m] = status[m]
    BY <1>9 DEF Ack, Nak, Shape
  <2>2. \A v \in Workers : Holds(v, m) => Holds(v, m)'
    BY <1>9, <2>1, FreePlaces
  <2> QED BY <1>1, <1>9, <2>1, <2>2
<1>10. ASSUME UNCHANGED <<status, dropped, buffer, picked, jobs, job>> PROVE Goal
  <2>1. \A v \in Workers : Holds(v, m)' <=> Holds(v, m)
    BY <1>10, PlaceFrame
  <2> QED BY <1>1, <1>10, <2>1
<1>11. ASSUME NEW w \in Workers, NEW g \in Goroutines, HandlerStep(w, g) PROVE Goal
  <2>1. ASSUME NEW x \in Messages, Claim(w, g, x) PROVE Goal
    <3>1. CASE Ack(x) /\ Free(w, g)
      BY <1>9, <2>1, <3>1 DEF Claim
    <3>2. CASE UNCHANGED <<serverVars, job>>
      BY <1>10, <2>1, <3>2 DEF Claim
    <3> QED BY <2>1, <3>1, <3>2 DEF Claim
  <2>2. ASSUME NEW x \in Messages, Renew(w, g, x) PROVE Goal
    BY <1>10, <2>2 DEF Renew
  <2>3. ASSUME NEW x \in Messages, Finish(w, g, x) PROVE Goal
    BY <1>9, <2>3 DEF Finish, Executes
  <2>4. ASSUME NEW x \in Messages, Fail(w, g, x) PROVE Goal
    BY <1>9, <2>4 DEF Fail
  <2> QED BY <1>8, <1>11, <2>1, <2>2, <2>3, <2>4 DEF HandlerStep
<1>12. ASSUME NEW w \in Workers, DrainTimeout(w) \/ SIGTERM(w) \/ Restart(w) PROVE Goal
  BY <1>10, <1>12 DEF DrainTimeout, SIGTERM, Restart
<1>13. ASSUME NEW x \in Messages, AckWaitExpires(x) PROVE Goal
  <2>1. m # x /\ status'[m] = status[m] /\ UNCHANGED <<dropped, buffer, picked, jobs, job>>
    BY <1>13 DEF AckWaitExpires, Shape
  <2>2. \A v \in Workers : Holds(v, m)' <=> Holds(v, m)
    BY <2>1, PlaceFrame
  <2> QED BY <1>1, <2>1, <2>2
<1>14. ASSUME NEW x \in Messages, LeaseExpires(x) PROVE Goal
  BY <1>10, <1>14 DEF LeaseExpires
<1>15. UNCHANGED poolVars => Goal
  BY <1>10 DEF poolVars
<1> HIDE DEF Goal
<1>16. Goal
  BY <1>2, <1>3, <1>4, <1>5, <1>6, <1>7, <1>11, <1>12, <1>13, <1>14, <1>15 DEF PoolNext, MainStep
<1> QED BY <1>16 DEF Goal

\* Unless its AckWait ended early, a message stays in one place.
LEMMA SingleStep ==
  ASSUME Shape, SingleOK, [PoolNext]_poolVars
  PROVE  SingleOK'
<1> USE DEF loopVars, runVars, serverVars, historyVars
<1> SUFFICES ASSUME NEW m \in Messages, m \notin overtaken' PROVE Single(m)'
  BY DEF SingleOK
<1> DEFINE Goal == Single(m)'
<1>1. m \notin overtaken
  BY DEF PoolNext, MainStep, Next, Select, Leave, DrainTimeout, Stop, Ends, SIGTERM, Kill, Restart,
         HandlerStep, TakeJob, Claim, Renew, Finish, Fail, Ack, Nak, Deliver, AckWaitExpires,
         LeaseExpires, poolVars
<1>2. Single(m)
  BY <1>1 DEF SingleOK
\* A step after which m is at most where it was.
<1>3. ASSUME \A v \in Workers : Holds(v, m)' => Holds(v, m) /\ status'[m] = status[m],
             \A v \in Workers : OnePlace(v, m) => OnePlace(v, m)'
      PROVE  Goal
  BY <1>2, <1>3 DEF Single
<1>4. ASSUME UNCHANGED <<status, buffer, picked, jobs, job>> PROVE Goal
  BY <1>3, <1>4, PlaceFrame
<1>5. ASSUME NEW w \in Workers, NEW x \in Messages, Deliver(w, x) PROVE Goal
  <2>1. CASE m = x
    <3>1. status[m] # "out" /\ status'[m] = "out"
      BY <1>5, <2>1 DEF Deliver, Shape
    <3>2. \A v \in Workers : ~Holds(v, m) /\ OnePlace(v, m)
      BY <1>2, <3>1 DEF Single
    <3>3. \A v \in Workers : (Holds(v, m)' => v = w) /\ OnePlace(v, m)'
      BY <1>5, <3>2, DeliverPlaces
    <3> QED BY <3>1, <3>3 DEF Single
  <2>2. CASE m # x
    <3>1. status'[m] = status[m]
      BY <1>5, <2>2 DEF Deliver, Shape
    <3> QED BY <1>3, <1>5, <2>2, <3>1, DeliverPlaces
  <2> QED BY <2>1, <2>2
<1>6. ASSUME NEW w \in Workers, Next(w) PROVE Goal
  <2>1. status' = status
    BY <1>6 DEF Next
  <2> QED BY <1>3, <1>6, <2>1, NextPlaces
<1>7. ASSUME NEW w \in Workers, Select(w) PROVE Goal
  <2>1. status' = status
    BY <1>7 DEF Select
  <2> QED BY <1>3, <1>7, <2>1, SelectPlaces
<1>8. ASSUME NEW w \in Workers, Leave(w) PROVE Goal
  <2>1. status' = status
    BY <1>8 DEF Leave
  <2> QED BY <1>3, <1>8, <2>1, LeavePlaces
<1>9. ASSUME NEW w \in Workers, Stop(w) \/ Kill(w) PROVE Goal
  <2>1. status' = status /\ Ends(w)
    BY <1>9 DEF Stop, Kill, Ends
  <2>2. \A v \in Workers : (Holds(v, m)' => Holds(v, m)) /\ (OnePlace(v, m) => OnePlace(v, m)')
    BY <2>1, EndsPlaces
  <2> QED BY <1>3, <2>1, <2>2
<1>10. ASSUME NEW w \in Workers, NEW g \in Goroutines, TakeJob(w, g) PROVE Goal
  <2>1. status' = status
    BY <1>10 DEF TakeJob
  <2> QED BY <1>3, <1>10, <2>1, TakePlaces
<1>11. ASSUME NEW w \in Workers, NEW g \in Goroutines, NEW x \in Messages,
              job[w][g] = x, Ack(x) \/ Nak(x), Free(w, g), UNCHANGED <<buffer, picked, jobs>>
       PROVE  Goal
  <2>1. \A v \in Workers : (Holds(v, m)' => Holds(v, m)) /\ (OnePlace(v, m) => OnePlace(v, m)')
    BY <1>11, FreePlaces
  <2>2. CASE m = x
    <3>1. Holds(w, m) /\ OnePlace(w, m)
      BY <1>2, <1>11, <2>2 DEF Holds, Single
    <3>2. ~Holds(w, m)'
      BY <1>11, <2>2, <3>1, FreePlaces
    <3>3. \A v \in Workers : ~Holds(v, m)'
      BY <1>2, <2>1, <3>1, <3>2 DEF Single
    <3> QED BY <1>3, <2>1, <3>3
  <2>3. CASE m # x
    <3>1. status'[m] = status[m]
      BY <1>11, <2>3 DEF Ack, Nak, Shape
    <3> QED BY <1>3, <2>1, <3>1
  <2> QED BY <2>2, <2>3
<1>12. ASSUME NEW w \in Workers, NEW g \in Goroutines, HandlerStep(w, g) PROVE Goal
  <2>1. ASSUME NEW x \in Messages, Claim(w, g, x) PROVE Goal
    <3>1. CASE Ack(x) /\ Free(w, g)
      BY <1>11, <2>1, <3>1 DEF Claim
    <3>2. CASE UNCHANGED <<serverVars, job>>
      BY <1>4, <2>1, <3>2 DEF Claim
    <3> QED BY <2>1, <3>1, <3>2 DEF Claim
  <2>2. ASSUME NEW x \in Messages, Renew(w, g, x) PROVE Goal
    BY <1>4, <2>2 DEF Renew
  <2>3. ASSUME NEW x \in Messages, Finish(w, g, x) PROVE Goal
    BY <1>11, <2>3 DEF Finish, Executes
  <2>4. ASSUME NEW x \in Messages, Fail(w, g, x) PROVE Goal
    BY <1>11, <2>4 DEF Fail
  <2> QED BY <1>10, <1>12, <2>1, <2>2, <2>3, <2>4 DEF HandlerStep
<1>13. ASSUME NEW w \in Workers, DrainTimeout(w) \/ SIGTERM(w) \/ Restart(w) PROVE Goal
  BY <1>4, <1>13 DEF DrainTimeout, SIGTERM, Restart
<1>14. ASSUME NEW x \in Messages, AckWaitExpires(x) PROVE Goal
  <2>1. UNCHANGED <<buffer, picked, jobs, job>>
    BY <1>14 DEF AckWaitExpires
  <2>2. \A v \in Workers : (Holds(v, m)' <=> Holds(v, m)) /\ (OnePlace(v, m)' <=> OnePlace(v, m))
    BY <2>1, PlaceFrame
  <2>3. CASE m = x
    <3>1. \A v \in Workers : ~Holds(v, m)
      BY <1>14, <2>3 DEF AckWaitExpires
    <3> QED BY <1>3, <2>2, <3>1
  <2>4. CASE m # x
    <3>1. status'[m] = status[m]
      BY <1>14, <2>4 DEF AckWaitExpires, Shape
    <3> QED BY <1>3, <2>2, <3>1
  <2> QED BY <2>3, <2>4
<1>15. ASSUME NEW x \in Messages, LeaseExpires(x) PROVE Goal
  BY <1>4, <1>15 DEF LeaseExpires
<1>16. UNCHANGED poolVars => Goal
  BY <1>4 DEF poolVars
<1> HIDE DEF Goal
<1>17. Goal
  BY <1>5, <1>6, <1>7, <1>8, <1>9, <1>12, <1>13, <1>14, <1>15, <1>16 DEF PoolNext, MainStep
<1> QED BY <1>17 DEF Goal
-----------------------------------------------------------------------------
(* No run is lost.                                                         *)

\* NoneLost, of one run.
Safe(m) ==
  run[m] # "done" =>
    status[m] # "acked" \/ Executed(m) \/ m \in cut \/ m \in overtaken \cap killed

\* The goroutine that takes or frees a message it does not work on leaves the
\* handlers of a run as they are.
LEMMA FreeExecuted ==
  ASSUME Shape, NEW w \in Workers, NEW g \in Goroutines, Free(w, g), NEW m \in Messages,
         job[w][g] # m \/ at[w][g] # "work"
  PROVE  Executed(m)' <=> Executed(m)
<1>1. /\ job'[w][g] = None /\ m # None
      /\ \A v \in Workers, h \in Goroutines :
           \/ v = w /\ h = g
           \/ job'[v][h] = job[v][h] /\ at'[v][h] = at[v][h]
  BY FreeShape, PoolAssumption
<1> QED BY <1>1 DEF Executed, Executes

\* A step that leaves a run, and what is known of it, as they are.
LEMMA KeptFrame ==
  ASSUME NEW m \in Messages, Kept(m), Safe(m),
         run'[m] = run[m], lease'[m] = lease[m], Executed(m) => Executed(m)',
         m \in cut => m \in cut', m \in killed => m \in killed',
         m \in overtaken' <=> m \in overtaken,
         status[m] = "out" /\ (\A w \in Workers : ~Holds(w, m)) =>
           status'[m] = "out" /\ \A w \in Workers : ~Holds(w, m)',
         status'[m] = "acked" => status[m] = "acked"
  PROVE  Kept(m)' /\ Safe(m)'
<1>1. Safe(m)'
  BY DEF Safe
<1>2. ASSUME run[m] = "running"
      PROVE  /\ lease'[m] # "none"
             /\ Executed(m)' \/ m \in cut' \/ m \in killed'
             /\ m \notin overtaken' =>
                  \/ Executed(m)' \/ m \in cut' \/ lease'[m] = "lapsed"
                  \/ status'[m] = "out" /\ \A w \in Workers : ~Holds(w, m)'
  BY <1>2, Zenon DEF Kept
<1> QED BY <1>1, <1>2 DEF Kept

\* A step keeps every run.
LEMMA KeptStep ==
  ASSUME Shape, SingleOK, [PoolNext]_poolVars, NEW m \in Messages, Kept(m), Safe(m)
  PROVE  Kept(m)' /\ Safe(m)'
<1> USE DEF loopVars, runVars, serverVars, historyVars
<1> DEFINE Goal == Kept(m)' /\ Safe(m)'
\* The steps that leave the goroutines, the run and its lease alone.
<1>1. ASSUME UNCHANGED <<job, at, run, lease, cut, killed, overtaken>>,
             status[m] = "out" => status'[m] = "out",
             status'[m] = "acked" => status[m] = "acked",
             status[m] = "out" => \A v \in Workers : Holds(v, m)' => Holds(v, m)
      PROVE  Goal
  <2>1. Executed(m)' <=> Executed(m)
    BY <1>1 DEF Executed, Executes
  <2> QED BY <1>1, <2>1, KeptFrame
<1>2. ASSUME NEW w \in Workers, NEW x \in Messages, Deliver(w, x) PROVE Goal
  <2>1. /\ UNCHANGED <<job, at, run, lease, cut, killed, overtaken>>
        /\ status[m] = "out" => m # x
        /\ status' = [status EXCEPT ![x] = "out"]
    BY <1>2 DEF Deliver
  <2>2. /\ status[m] = "out" => status'[m] = "out"
        /\ status'[m] = "acked" => status[m] = "acked"
    BY <2>1 DEF Shape
  <2>3. status[m] = "out" => \A v \in Workers : Holds(v, m)' => Holds(v, m)
    BY <1>2, <2>1, DeliverPlaces
  <2> QED BY <1>1, <2>1, <2>2, <2>3
<1>3. ASSUME NEW w \in Workers, Next(w) PROVE Goal
  <2>1. UNCHANGED <<status, job, at, run, lease, cut, killed, overtaken>>
    BY <1>3 DEF Next
  <2>2. \A v \in Workers : Holds(v, m)' => Holds(v, m)
    BY <1>3, NextPlaces
  <2> QED BY <1>1, <2>1, <2>2
<1>4. ASSUME NEW w \in Workers, Select(w) PROVE Goal
  <2>1. UNCHANGED <<status, job, at, run, lease, cut, killed, overtaken>>
    BY <1>4 DEF Select
  <2>2. \A v \in Workers : Holds(v, m)' => Holds(v, m)
    BY <1>4, SelectPlaces
  <2> QED BY <1>1, <2>1, <2>2
<1>5. ASSUME NEW w \in Workers, Leave(w) PROVE Goal
  <2>1. UNCHANGED <<status, job, at, run, lease, cut, killed, overtaken>>
    BY <1>5 DEF Leave
  <2>2. \A v \in Workers : Holds(v, m)' => Holds(v, m)
    BY <1>5, LeavePlaces
  <2> QED BY <1>1, <2>1, <2>2
<1>6. ASSUME NEW w \in Workers, DrainTimeout(w) \/ SIGTERM(w) \/ Restart(w) PROVE Goal
  <2>1. UNCHANGED <<status, job, at, run, lease, cut, killed, overtaken, buffer, picked, jobs>>
    BY <1>6 DEF DrainTimeout, SIGTERM, Restart
  <2>2. \A v \in Workers : Holds(v, m)' => Holds(v, m)
    BY <2>1, PlaceFrame
  <2> QED BY <1>1, <2>1, <2>2
<1>7. ASSUME UNCHANGED poolVars PROVE Goal
  <2>1. UNCHANGED <<status, job, at, run, lease, cut, killed, overtaken, buffer, picked, jobs>>
    BY <1>7 DEF poolVars
  <2>2. \A v \in Workers : Holds(v, m)' => Holds(v, m)
    BY <2>1, PlaceFrame
  <2> QED BY <1>1, <2>1, <2>2
\* The end of a process.
<1>8. ASSUME NEW w \in Workers, Stop(w) PROVE Goal
  <2>1. Ends(w) /\ UNCHANGED <<status, run, lease, cut, killed, overtaken>>
    BY <1>8 DEF Stop, Ends
  <2>2. \A v \in Workers : Holds(v, m)' => Holds(v, m)
    BY <2>1, EndsPlaces
  <2>3. Executed(m) => Executed(m)'
    BY <1>8, <2>1 DEF Stop, Drained, Ends, Shape, Executed, Executes
  <2> QED BY <2>1, <2>2, <2>3, KeptFrame
<1>9. ASSUME NEW w \in Workers, Kill(w) PROVE Goal
  <2>1. /\ Ends(w) /\ UNCHANGED <<status, run, lease, cut, overtaken>>
        /\ killed' = killed \cup {x \in Messages : \E g \in Goroutines : Executes(w, g, x)}
    BY <1>9 DEF Kill, Ends
  <2>2. \A v \in Workers : (Holds(v, m)' => Holds(v, m)) /\ ~Holds(w, m)'
    BY <2>1, EndsPlaces
  <2>3. CASE \E g \in Goroutines : Executes(w, g, m)
    <3>1. m \in killed' /\ Holds(w, m)
      BY <2>1, <2>3 DEF Executes, Holds
    <3>2. m \notin overtaken => status[m] = "out" /\ \A v \in Workers : ~Holds(v, m)'
      BY <2>2, <3>1 DEF SingleOK, Single
    <3>3. Safe(m)'
      BY <2>1, <3>1, <3>2 DEF Safe
    <3>4. Kept(m)'
      BY <2>1, <3>1, <3>2 DEF Kept
    <3> QED BY <3>3, <3>4
  <2>4. CASE ~\E g \in Goroutines : Executes(w, g, m)
    <3>1. Executed(m) => Executed(m)'
      <4>1. \A v \in Workers : v # w => job'[v] = job[v] /\ at'[v] = at[v]
        BY <2>1 DEF Ends, Shape
      <4> QED BY <2>4, <4>1 DEF Executed, Executes
    <3> QED BY <2>1, <2>2, <3>1, KeptFrame
  <2> QED BY <2>3, <2>4
\* The goroutines.
<1>10. ASSUME NEW w \in Workers, NEW g \in Goroutines, TakeJob(w, g) PROVE Goal
  <2>1. UNCHANGED <<status, run, lease, cut, killed, overtaken>>
    BY <1>10 DEF TakeJob
  <2>2. \A v \in Workers : Holds(v, m)' => Holds(v, m)
    BY <1>10, TakePlaces
  <2>3. Executed(m) => Executed(m)'
    <3>1. /\ at[w][g] # "work"
          /\ \A v \in Workers, h \in Goroutines :
               \/ v = w /\ h = g
               \/ job'[v][h] = job[v][h] /\ at'[v][h] = at[v][h]
      BY <1>10 DEF TakeJob, Shape
    <3> QED BY <3>1 DEF Executed, Executes
  <2> QED BY <2>1, <2>2, <2>3, KeptFrame
\* A goroutine that frees a message: of another run, or of a run it does not
\* work on.
<1>11. ASSUME NEW w \in Workers, NEW g \in Goroutines, NEW x \in Messages,
              job[w][g] = x, Ack(x) \/ Nak(x), Free(w, g), UNCHANGED <<buffer, picked, jobs>>,
              killed' = killed,
              \/ /\ m # x /\ run'[m] = run[m] /\ lease'[m] = lease[m]
                 /\ m \in cut' <=> m \in cut
              \/ at[w][g] = "claim" /\ UNCHANGED <<run, lease, cut>> /\ (Nak(x) \/ ~Claimable(x))
       PROVE  Goal
  <2>1. Executed(m)' <=> Executed(m)
    BY <1>11, FreeExecuted
  <2>2. \A v \in Workers : Holds(v, m)' => Holds(v, m)
    BY <1>11, FreePlaces
  <2>3. UNCHANGED overtaken
    BY <1>11 DEF Ack, Nak
  <2>4. CASE m # x
    <3>1. status'[m] = status[m]
      BY <1>11, <2>4 DEF Ack, Nak, Shape
    <3> QED BY <1>11, <2>1, <2>2, <2>3, <2>4, <3>1, KeptFrame
  <2>5. CASE m = x /\ Nak(x)
    <3>1. Holds(w, m)
      BY <1>11, <2>5 DEF Holds
    <3>2. status'[m] = "acked" => status[m] = "acked"
      BY <2>5 DEF Nak, Shape
    <3> QED BY <1>11, <2>1, <2>3, <2>5, <3>1, <3>2, KeptFrame
  <2>6. CASE m = x /\ ~Nak(x)
    <3>1. Holds(w, m)
      BY <1>11, <2>6 DEF Holds
    <3>2. UNCHANGED <<run, lease, cut>> /\ (run[m] = "running" => lease[m] # "lapsed")
      BY <1>11, <2>6 DEF Claimable
    <3>3. run[m] \in {"running", "done"}
      BY <1>11, <2>6 DEF Claimable, Shape
    <3>4. run[m] = "running" =>
            /\ lease[m] # "none"
            /\ Executed(m)' \/ m \in cut' \/ m \in killed'
            /\ m \notin overtaken' => Executed(m)' \/ m \in cut'
      BY <1>11, <2>1, <2>3, <3>1, <3>2 DEF Kept
    <3>5. Kept(m)'
      BY <3>2, <3>4 DEF Kept
    <3>6. Safe(m)'
      BY <3>2, <3>3, <3>4 DEF Safe
    <3> QED BY <3>5, <3>6
  <2> QED BY <1>11, <2>4, <2>5, <2>6
<1>12. ASSUME NEW w \in Workers, NEW g \in Goroutines, NEW x \in Messages, Claim(w, g, x)
       PROVE  Goal
  <2>1. CASE ~Claimable(x) /\ Ack(x) /\ Free(w, g) /\ UNCHANGED runVars
    BY <1>11, <1>12, <2>1 DEF Claim
  <2>2. CASE Leased(x) /\ at' = [at EXCEPT ![w][g] = "work"] /\ UNCHANGED <<serverVars, job>>
    <3>1. /\ job[w][g] = x /\ UNCHANGED <<buffer, picked, jobs, cut, killed, job, status, overtaken>>
          /\ at'[w][g] = "work"
          /\ \A v \in Workers, h \in Goroutines : at'[v][h] = at[v][h] \/ (v = w /\ h = g)
      BY <1>12, <2>2 DEF Claim, Shape
    <3>2. CASE m = x
      <4>1. Executed(m)' /\ lease'[m] = "live"
        BY <2>2, <3>1, <3>2 DEF Executed, Executes, Leased, Shape
      <4> QED BY <4>1 DEF Kept, Safe
    <3>3. CASE m # x
      <4>1. run'[m] = run[m] /\ lease'[m] = lease[m]
        BY <2>2, <3>3 DEF Leased, Shape
      <4>2. Executed(m) => Executed(m)'
        BY <3>1, <3>3 DEF Executed, Executes
      <4>3. \A v \in Workers : Holds(v, m)' => Holds(v, m)
        BY <3>1, PlaceFrame
      <4> QED BY <3>1, <4>1, <4>2, <4>3, KeptFrame
    <3> QED BY <3>2, <3>3
  <2> QED BY <1>12, <2>1, <2>2 DEF Claim
<1>13. ASSUME NEW w \in Workers, NEW g \in Goroutines, NEW x \in Messages, Renew(w, g, x)
       PROVE  Goal
  <2>1. /\ UNCHANGED <<status, run, buffer, picked, jobs, job, at, cut, killed, overtaken>>
        /\ Executes(w, g, x) /\ lease' = [lease EXCEPT ![x] = "live"]
    BY <1>13 DEF Renew
  <2>2. Executed(m)' <=> Executed(m)
    BY <2>1 DEF Executed, Executes
  <2>3. CASE m = x
    <3>1. Executed(m)' /\ lease'[m] = "live"
      BY <2>1, <2>2, <2>3 DEF Executed, Shape
    <3> QED BY <3>1 DEF Kept, Safe
  <2>4. CASE m # x
    <3>1. lease'[m] = lease[m]
      BY <2>1, <2>4 DEF Shape
    <3>2. \A v \in Workers : Holds(v, m)' => Holds(v, m)
      BY <2>1, PlaceFrame
    <3> QED BY <2>1, <2>2, <3>1, <3>2, KeptFrame
  <2> QED BY <2>3, <2>4
<1>14. ASSUME NEW w \in Workers, NEW g \in Goroutines, NEW x \in Messages, Finish(w, g, x)
       PROVE  Goal
  <2>1. /\ run' = [run EXCEPT ![x] = "done"] /\ lease' = [lease EXCEPT ![x] = "none"]
        /\ job[w][g] = x /\ (Ack(x) \/ Nak(x)) /\ Free(w, g)
        /\ UNCHANGED <<buffer, picked, jobs, cut, killed>>
    BY <1>14 DEF Finish, Executes
  <2>2. CASE m = x
    <3>1. run'[m] = "done"
      BY <2>1, <2>2 DEF Shape
    <3> QED BY <3>1 DEF Kept, Safe
  <2>3. CASE m # x
    <3>1. run'[m] = run[m] /\ lease'[m] = lease[m]
      BY <2>1, <2>3 DEF Shape
    <3> QED BY <1>11, <2>1, <2>3, <3>1
  <2> QED BY <2>2, <2>3
<1>15. ASSUME NEW w \in Workers, NEW g \in Goroutines, NEW x \in Messages, Fail(w, g, x)
       PROVE  Goal
  <2>1. /\ job[w][g] = x /\ Nak(x) /\ Free(w, g)
        /\ UNCHANGED <<buffer, picked, jobs, killed>>
    BY <1>15 DEF Fail
  <2>2. CASE at[w][g] = "claim" /\ UNCHANGED <<runVars, cut>>
    BY <1>11, <2>1, <2>2
  <2>3. CASE cut' = cut \cup {x} /\ (Leased(x) \/ UNCHANGED runVars)
    <3>1. CASE m = x
      <4>1. m \in cut' /\ (lease'[m] = "live" \/ UNCHANGED <<run, lease>>)
        BY <2>3, <3>1 DEF Leased, Shape
      <4> QED BY <4>1 DEF Kept, Safe
    <3>2. CASE m # x
      <4>1. run'[m] = run[m] /\ lease'[m] = lease[m] /\ (m \in cut' <=> m \in cut)
        BY <2>3, <3>2 DEF Leased, Shape
      <4> QED BY <1>11, <2>1, <3>2, <4>1
    <3> QED BY <3>1, <3>2
  <2> QED BY <1>15, <2>2, <2>3 DEF Fail
\* Time.
<1>16. ASSUME NEW x \in Messages, AckWaitExpires(x) PROVE Goal
  <2>1. /\ UNCHANGED <<run, lease, buffer, picked, jobs, job, at, cut, killed>>
        /\ status' = [status EXCEPT ![x] = "again"]
        /\ status[x] = "out"
    BY <1>16 DEF AckWaitExpires
  <2>2. Executed(m)' <=> Executed(m)
    BY <2>1 DEF Executed, Executes
  <2>3. \A v \in Workers : Holds(v, m)' <=> Holds(v, m)
    BY <2>1, PlaceFrame
  <2>4. CASE m = x
    <3>1. Safe(m)'
      BY <2>1, <2>4 DEF Safe, Shape
    <3>2. m \notin overtaken' => m \notin overtaken /\ lease[m] # "live"
      BY <1>16, <2>4 DEF AckWaitExpires
    <3>3. run[m] = "running" =>
            /\ lease[m] # "none"
            /\ Executed(m) \/ m \in cut \/ m \in killed
            /\ m \notin overtaken' => lease[m] = "lapsed"
      BY <3>2 DEF Kept, Shape
    <3>4. Kept(m)'
      BY <2>1, <2>2, <3>3 DEF Kept
    <3> QED BY <3>1, <3>4
  <2>5. CASE m # x
    <3>1. status'[m] = status[m] /\ (m \in overtaken' <=> m \in overtaken)
      BY <1>16, <2>1, <2>5 DEF AckWaitExpires, Shape
    <3> QED BY <2>1, <2>2, <2>3, <3>1, KeptFrame
  <2> QED BY <2>4, <2>5
<1>17. ASSUME NEW x \in Messages, LeaseExpires(x) PROVE Goal
  <2>1. /\ UNCHANGED <<status, run, buffer, picked, jobs, job, at, cut, killed, overtaken>>
        /\ lease' = [lease EXCEPT ![x] = "lapsed"]
    BY <1>17 DEF LeaseExpires
  <2>2. Executed(m)' <=> Executed(m)
    BY <2>1 DEF Executed, Executes
  <2>3. \A v \in Workers : Holds(v, m)' <=> Holds(v, m)
    BY <2>1, PlaceFrame
  <2>4. lease'[m] = lease[m] \/ lease'[m] = "lapsed"
    BY <2>1 DEF Shape
  <2>5. CASE lease'[m] = lease[m]
    BY <2>1, <2>2, <2>3, <2>5, KeptFrame
  <2>6. CASE lease'[m] = "lapsed"
    BY <2>1, <2>2, <2>6 DEF Kept, Safe
  <2> QED BY <2>4, <2>5, <2>6
<1> HIDE DEF Goal
<1>18. Goal
  BY <1>2, <1>3, <1>4, <1>5, <1>6, <1>7, <1>8, <1>9, <1>10, <1>12, <1>13, <1>14, <1>15, <1>16, <1>17
     DEF PoolNext, MainStep, HandlerStep
<1> QED BY <1>18 DEF Goal
-----------------------------------------------------------------------------
(* The theorems.                                                           *)

\* The processes start empty.
LEMMA PoolInitially == PoolInit => PoolInv
<1> SUFFICES ASSUME PoolInit PROVE PoolInv
  OBVIOUS
<1>1. Shape
  <2>1. <<>> \in Seq(Messages) /\ 0 \in 0..MaxSlow /\ 0 \in 0..MaxFaults
    BY PoolAssumption
  <2>2. sig \in [Workers -> BOOLEAN]
    BY Zenon DEF PoolInit
  <2> QED BY <2>1, <2>2 DEF PoolInit, Shape, MainStates
<1>2. Pending = {} /\ \A w \in Workers : buffer[w] = <<>> /\ jobs[w] = <<>>
  BY DEF PoolInit, Pending
<1>3. Limits
  <2>1. Len(<<>>) = 0
    OBVIOUS
  <2>2. IsFiniteSet(Pending) /\ Cardinality(Pending) = 0
    BY <1>2, FS_EmptySet
  <2> QED BY <1>2, <2>1, <2>2, Capacities DEF Limits
<1>4. \A m \in Messages : status[m] = "new" /\ run[m] = "queued"
  BY DEF PoolInit
<1>5. SingleOK
  <2>1. \A w \in Workers : /\ buffer[w] = <<>> /\ picked[w] = None /\ jobs[w] = <<>>
                           /\ \A g \in Goroutines : job[w][g] = None
    BY DEF PoolInit
  <2>2. \A w \in Workers, m \in Messages : ~Holds(w, m) /\ OnePlace(w, m)
    BY <2>1, EmptyPlaces
  <2> QED BY <2>2 DEF SingleOK, Single
<1>6. OutIsAccounted /\ KeptOK /\ NoneLost
  BY <1>4 DEF OutIsAccounted, KeptOK, Kept, NoneLost
<1> QED BY <1>1, <1>3, <1>5, <1>6 DEF PoolInv

\* The invariant of the pool.
LEMMA PoolInvariance == PoolSpec => []PoolInv
<1>1. PoolInit => PoolInv
  BY PoolInitially
<1>2. PoolInv /\ [PoolNext]_poolVars => PoolInv'
  <2> SUFFICES ASSUME PoolInv, [PoolNext]_poolVars PROVE PoolInv'
    OBVIOUS
  <2>1. Shape' /\ Limits' /\ OutIsAccounted' /\ SingleOK'
    BY ShapeStep, LimitsStep, AccountedStep, SingleStep DEF PoolInv
  <2>2. \A m \in Messages : Kept(m) /\ Safe(m)
    BY DEF PoolInv, KeptOK, NoneLost, Safe, Executed
  <2>3. \A m \in Messages : Kept(m)' /\ Safe(m)'
    BY <2>2, KeptStep DEF PoolInv
  <2>4. KeptOK' /\ NoneLost'
    BY <2>3 DEF KeptOK, NoneLost, Safe, Executed
  <2> QED BY <2>1, <2>4 DEF PoolInv
<1> QED BY <1>1, <1>2, PTL DEF PoolSpec

\* Type correctness: however many processes share the consumer, the iterators,
\* the channels and the consumer's window keep to the capacities main gives
\* them, and a goroutine is idle exactly when it has no message.
THEOREM PoolTypeCorrect == PoolSpec => []PoolTypeOK
<1>1. PoolInv => PoolTypeOK
  <2> SUFFICES ASSUME PoolInv PROVE PoolTypeOK
    OBVIOUS
  <2>1. ASSUME NEW w \in Workers
        PROVE  /\ buffer[w] \in Seq(Messages) /\ Len(buffer[w]) <= PullMaxMessages
               /\ jobs[w] \in Seq(Messages) /\ Len(jobs[w]) <= Capacity
               /\ picked[w] # None <=> main[w] = "select"
               /\ \A g \in Goroutines :
                    /\ job[w][g] \in Messages \cup {None}
                    /\ at[w][g] \in {"idle", "claim", "work"}
                    /\ job[w][g] = None <=> at[w][g] = "idle"
    BY DEF PoolInv, Shape, Limits
  <2> QED BY <2>1 DEF PoolInv, Shape, Limits, PoolTypeOK
<1> QED BY PoolInvariance, <1>1, PTL

\* The drain settles what it accepted: a message the consumer waits for is in a
\* process, or was thrown away by a receive loop told to stop or by a kill,
\* wherever SIGTERM, the drain timeout, kills and restarts fall.
THEOREM DeliveriesAreAccounted == PoolSpec => []OutIsAccounted
<1>1. PoolInv => OutIsAccounted
  BY DEF PoolInv
<1> QED BY PoolInvariance, <1>1, PTL

\* As long as no AckWait ends during the work, the receive loop has room in
\* jobs for the message it holds, whatever the concurrency: the messages of a
\* channel are distinct members of the consumer's window, and so is the one to
\* be sent.
THEOREM ChannelHasRoom == PoolSpec => []SendNeverBlocks
<1>1. PoolInv => SendNeverBlocks
  <2> SUFFICES ASSUME PoolInv, overtaken = {}, NEW w \in Workers, main[w] = "select"
               PROVE  Len(jobs[w]) < Capacity
    BY DEF SendNeverBlocks
  <2> DEFINE x == picked[w]
             s == jobs[w]
             n == Len(s)
             R == Pending \ {x}
  <2>1. /\ x \in Messages /\ s \in Seq(Messages) /\ n \in Nat /\ DOMAIN s = 1..n
        /\ \A i \in 1..n : s[i] \in Messages
    BY DEF PoolInv, Shape
  <2>2. \A m \in Messages : Single(m)
    BY DEF PoolInv, SingleOK
  <2>3. \A m \in Messages : Holds(w, m) => m \in Pending
    BY <2>2 DEF Single, Pending
  <2>4. x \in Pending
    BY <2>1, <2>3 DEF Holds
  <2>5. \A i \in 1..n : s[i] \in R
    <3> SUFFICES ASSUME NEW i \in 1..n PROVE s[i] \in Pending /\ s[i] # x
      OBVIOUS
    <3>1. s[i] \in Messages /\ InSeq(s[i], jobs[w])
      BY <2>1 DEF InSeq
    <3>2. s[i] \in Pending
      BY <2>3, <3>1 DEF Holds
    <3>3. s[i] # x
      BY <2>2, <3>1 DEF Single, OnePlace
    <3> QED BY <3>2, <3>3
  <2>6. \A i, j \in 1..n : s[i] = s[j] => i = j
    <3> SUFFICES ASSUME NEW i \in 1..n, NEW j \in 1..n, s[i] = s[j] PROVE i = j
      OBVIOUS
    <3>1. Once(s[i], jobs[w])
      BY <2>1, <2>2 DEF Single, OnePlace
    <3> QED BY <2>1, <3>1 DEF Once
  <2>7. s \in [1..n -> R]
    <3>1. s = [i \in 1..n |-> s[i]]
      BY <2>1
    <3> QED BY <2>5, <3>1
  <2> HIDE DEF x, s, n, R
  <2>8. s \in Injection(1..n, R)
    BY <2>6, <2>7 DEF Injection, IsInjective
  <2>9. IsFiniteSet(R) /\ Cardinality(R) = Cardinality(Pending) - 1
    BY <2>4, FS_RemoveElement DEF R, PoolInv, Limits
  <2>10. Cardinality(1..n) <= Cardinality(R) /\ Cardinality(1..n) = n
    <3>1. Cardinality(1..n) <= Cardinality(R)
      BY <2>8, <2>9, FS_Injection
    <3>2. Cardinality(1..n) = IF 1 > n THEN 0 ELSE n - 1 + 1
      BY <2>1, FS_Interval
    <3>3. Cardinality(1..n) = n
      BY <2>1, <3>2
    <3> QED BY <3>1, <3>3
  <2>11. Cardinality(Pending) \in Nat /\ Cardinality(Pending) <= Capacity /\ Capacity \in Nat
    BY FS_CardinalityType, Capacities DEF PoolInv, Limits
  <2>12. n < Capacity
    BY <2>1, <2>9, <2>10, <2>11
  <2> QED BY <2>12 DEF n, s
<1> QED BY PoolInvariance, <1>1, PTL

\* Restarts, drains and kills lose no run, for any number of processes, runs
\* and faults: a run that needs a worker has a message to come or a handler,
\* but for the handlers that failed after their claim or were killed after
\* AckWait had ended.
THEOREM RunsAreNotLost == PoolSpec => []NoneLost
<1>1. PoolInv => NoneLost
  BY DEF PoolInv
<1> QED BY PoolInvariance, <1>1, PTL
=============================================================================
