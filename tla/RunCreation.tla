----------------------------- MODULE RunCreation -----------------------------
(***************************************************************************)
(* Concurrent POST /v1/runs of one tenant: the handler of app.ts, with the *)
(* credential broker, around createRun of postgres-store.ts.               *)
(*                                                                         *)
(* createRun is one transaction at read committed: it looks for the key,   *)
(* locks the tenant's row of tenant_runtime_limits, counts, and inserts.   *)
(* Other requests run between these statements, so each is an action; what *)
(* the insert and the statements after it write becomes visible at the     *)
(* commit and is one action.  A request in the middle of its transaction   *)
(* may fail at any point, which rolls it back.                             *)
(***************************************************************************)
EXTENDS CredentialBroker, FiniteSets, Sequences

CONSTANTS
  Clients,          \* concurrent requests
  Keys,             \* idempotency keys
  max_active_runs, max_runs_per_day,
  MaxReopened       \* bound on the reopened runs explored

ASSUME LimitsAssumption ==
  max_active_runs \in Nat /\ max_runs_per_day \in Nat /\ MaxReopened \in Nat

\* A handle is a UUID, so the mark of a request without one is none of them.
ASSUME HandlesAssumption == "none" \notin Handles

VARIABLES
  runs,       \* the tenant's workflow_runs: key, handle, active and today
  lock,       \* the request that holds the lock on tenant_runtime_limits
  pc,         \* the statement each request is about to execute
  key,        \* the Idempotency-Key of each request
  handle,     \* the handle its credential was given, or "none"
  leaked,     \* history: handles of requests that failed
  cleared,    \* history: handles that a restart of the control plane lost
  reopened,   \* history: finished runs that became active again
  retries,    \* history: requests in flight whose run was there when they came
  spurned     \* history: retries that were answered 429

requestVars == <<pc, key, handle>>
replyVars == <<retries, spurned>>
creationVars == <<brokerVars, runs, lock, requestVars, leaked, cleared, reopened, replyVars>>

RunWith(k) == \E n \in DOMAIN runs : runs[n].key = k
ActiveRuns == {n \in DOMAIN runs : runs[n].active}
RunsToday == {n \in DOMAIN runs : runs[n].today}
RunHandles == {runs[n].handle : n \in DOMAIN runs} \ {"none"}

CreationInit ==
  /\ BrokerInit
  /\ runs = <<>>
  /\ lock = {}
  /\ pc = [c \in Clients |-> "idle"]
  /\ key = [c \in Clients |-> "none"]
  /\ handle = [c \in Clients |-> "none"]
  /\ leaked = {}
  /\ cleared = {}
  /\ reopened = 0
  /\ retries = {}
  /\ spurned = {}

Goto(c, next) == pc' = [pc EXCEPT ![c] = next]

\* A valid request arrives; a credential in it goes to the broker first.
postRun(c) ==
  /\ pc[c] = "idle"
  /\ Goto(c, "select")
  /\ \E k \in Keys :
       /\ key' = [key EXCEPT ![c] = k]
       /\ retries' = IF RunWith(k) THEN retries \cup {c} ELSE retries
  /\ \/ \E hd \in Handles : issue(hd) /\ handle' = [handle EXCEPT ![c] = hd]
     \/ handle' = [handle EXCEPT ![c] = "none"] /\ UNCHANGED brokerVars
  /\ UNCHANGED <<runs, lock, leaked, cleared, reopened, spurned>>

\* Mutant: a replay leaves the credential of its request in the broker.
ReplyKeepsHandle(c, result) ==
  /\ Goto(c, "idle")
  /\ lock' = lock \ {c}
  /\ key' = [key EXCEPT ![c] = "none"]
  /\ handle' = [handle EXCEPT ![c] = "none"]
  /\ leaked' = IF result \in {"quota", "error"} THEN leaked \cup {handle[c]} ELSE leaked
  /\ retries' = retries \ {c}
  /\ spurned' = IF result = "quota" THEN spurned \cup (retries \cap {c}) ELSE spurned
  /\ UNCHANGED <<brokerVars, cleared, reopened>>

\* The answer 201, 200 with replayed, 429, or another error.  A replay
\* discards the handle of its own request.
Reply(c, result) ==
  /\ Goto(c, "idle")
  /\ lock' = lock \ {c}
  /\ key' = [key EXCEPT ![c] = "none"]
  /\ handle' = [handle EXCEPT ![c] = "none"]
  /\ entries' = IF result = "replayed" THEN discard(handle[c]) ELSE entries
  /\ leaked' = IF result \in {"quota", "error"} THEN leaked \cup {handle[c]} ELSE leaked
  /\ retries' = retries \ {c}
  /\ spurned' = IF result = "quota" THEN spurned \cup (retries \cap {c}) ELSE spurned
  /\ UNCHANGED <<expired, issued, handed, cleared, reopened>>

\* Mutant: on conflict is left to find the run of a key.
selectExistingSkipped(c) ==
  /\ pc[c] = "select"
  /\ Goto(c, "limits")
  /\ UNCHANGED <<brokerVars, runs, lock, key, handle, leaked, cleared, reopened, replyVars>>

selectExisting(c) ==
  /\ pc[c] = "select"
  /\ UNCHANGED runs
  /\ \/ RunWith(key[c]) /\ Reply(c, "replayed")
     \/ /\ ~RunWith(key[c])
        /\ Goto(c, "limits")
        /\ UNCHANGED <<brokerVars, lock, key, handle, leaked, cleared, reopened, replyVars>>

\* Mutant: the limits are read without for update.
selectLimitsUnlocked(c) ==
  /\ pc[c] = "limits"
  /\ Goto(c, "count")
  /\ UNCHANGED <<brokerVars, runs, lock, key, handle, leaked, cleared, reopened, replyVars>>

selectLimits(c) ==
  /\ pc[c] = "limits"
  /\ lock = {}
  /\ lock' = {c}
  /\ Goto(c, "count")
  /\ UNCHANGED <<brokerVars, runs, key, handle, leaked, cleared, reopened, replyVars>>

OverQuota ==
  \/ Cardinality(ActiveRuns) >= max_active_runs
  \/ Cardinality(RunsToday) >= max_runs_per_day

countUsage(c) ==
  /\ pc[c] = "count"
  /\ UNCHANGED runs
  /\ \/ OverQuota /\ Reply(c, "quota")
     \/ /\ ~OverQuota
        /\ Goto(c, "insert")
        /\ UNCHANGED <<brokerVars, lock, key, handle, leaked, cleared, reopened, replyVars>>

NewRun(c) == [key |-> key[c], handle |-> handle[c], active |-> TRUE, today |-> TRUE]

\* Mutant: no unique key on (tenant_id, idempotency_key).
insertRunAlways(c) ==
  /\ pc[c] = "insert"
  /\ runs' = Append(runs, NewRun(c))
  /\ Reply(c, "created")

\* The insert with on conflict do nothing, the event, the outbox row, the
\* audit record, and the commit, whose confirmation may be lost.
insertRun(c) ==
  /\ pc[c] = "insert"
  /\ \/ /\ ~RunWith(key[c])
        /\ runs' = Append(runs, NewRun(c))
        /\ \E result \in {"created", "error"} : Reply(c, result)
     \/ RunWith(key[c]) /\ UNCHANGED runs /\ Reply(c, "replayed")

\* An unknown workflow, or an error of the database; the rollback ends the lock.
requestFails(c) ==
  /\ pc[c] # "idle"
  /\ UNCHANGED runs
  /\ Reply(c, "error")

\* The worker asks for the credential of a run (POST .../consume).
consumeForRun(n) ==
  /\ runs[n].handle # "none"
  /\ consume(runs[n].handle)
  /\ UNCHANGED <<runs, lock, requestVars, leaked, cleared, reopened, replyVars>>

\* A run becomes terminal, and, through an update of a worker that is not
\* fenced (RunExecution), active again.
RunEnds(n) ==
  /\ runs[n].active
  /\ runs' = [runs EXCEPT ![n].active = FALSE]
  /\ UNCHANGED <<brokerVars, lock, requestVars, leaked, cleared, reopened, replyVars>>

RunReopens(n) ==
  /\ ~runs[n].active
  /\ reopened < MaxReopened
  /\ reopened' = reopened + 1
  /\ runs' = [runs EXCEPT ![n].active = TRUE]
  /\ UNCHANGED <<brokerVars, lock, requestVars, leaked, cleared, replyVars>>

\* Midnight, UTC.
NewDay ==
  /\ runs' = [n \in DOMAIN runs |-> [runs[n] EXCEPT !.today = FALSE]]
  /\ UNCHANGED <<brokerVars, lock, requestVars, leaked, cleared, reopened, replyVars>>

\* Five minutes pass.
ExpireHandle(hd) ==
  /\ Expire(hd)
  /\ UNCHANGED <<runs, lock, requestVars, leaked, cleared, reopened, replyVars>>

\* The control plane restarts: its map and its requests are gone.
Restart ==
  /\ entries' = {}
  /\ cleared' = cleared \cup entries
  /\ pc' = [c \in Clients |-> "idle"]
  /\ key' = [c \in Clients |-> "none"]
  /\ handle' = [c \in Clients |-> "none"]
  /\ lock' = {}
  /\ retries' = {}
  /\ UNCHANGED <<expired, issued, handed, runs, leaked, reopened, spurned>>

CreationNext ==
  \/ \E c \in Clients : \/ postRun(c) \/ selectExisting(c) \/ selectLimits(c)
                        \/ countUsage(c) \/ insertRun(c) \/ requestFails(c)
  \/ \E n \in DOMAIN runs : consumeForRun(n) \/ RunEnds(n) \/ RunReopens(n)
  \/ \E hd \in Handles : ExpireHandle(hd)
  \/ NewDay
  \/ Restart

CreationSpec == CreationInit /\ [][CreationNext]_creationVars

-----------------------------------------------------------------------------
(* Correctness.                                                            *)

\* Every variable has its type, and the tenant's lock is held exactly by the
\* request between its select of the limits and its end.
CreationTypeOK ==
  /\ entries \subseteq issued /\ expired \subseteq issued /\ issued \subseteq Handles
  /\ handed \in [Handles -> Nat]
  /\ runs \in Seq([key : Keys, handle : Handles \cup {"none"},
                  active : BOOLEAN, today : BOOLEAN])
  /\ pc \in [Clients -> {"idle", "select", "limits", "count", "insert"}]
  /\ key \in [Clients -> Keys \cup {"none"}]
  /\ handle \in [Clients -> Handles \cup {"none"}]
  /\ lock = {c \in Clients : pc[c] \in {"count", "insert"}}
  /\ Cardinality(lock) <= 1
  /\ reopened \in 0..MaxReopened

\* Two requests with the same key, both past the first select, still create
\* one run between them.
OneRunPerKey ==
  \A m, n \in DOMAIN runs : runs[m].key = runs[n].key => m = n

\* Concurrent creations never push a tenant over its limits; only a finished
\* run that a worker reopens can.
QuotaHolds ==
  /\ Cardinality(ActiveRuns) <= max_active_runs + reopened
  /\ Cardinality(RunsToday) <= max_runs_per_day

\* A request whose run exists when it comes is never refused for the quota,
\* however many others create runs meanwhile.  (One that waits for the lock
\* behind the request that creates its run may be.)
RetryIsAnswered == spurned = {}

\* A replay leaves no credential behind: at rest the broker holds nothing but
\* the credentials of runs and of requests that failed.
BrokerHoldsRunHandles ==
  (\A c \in Clients : pc[c] = "idle") => entries \subseteq RunHandles \cup leaked

\* A replay never discards the credential the run was created with: it stays
\* until it is consumed, expires or is lost with the process.
CredentialSurvivesReplay ==
  \A n \in DOMAIN runs :
    runs[n].handle \in Handles =>
      runs[n].handle \in entries \cup expired \cup cleared \/ handed[runs[n].handle] > 0
=============================================================================
