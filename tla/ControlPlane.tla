---------------------------- MODULE ControlPlane ----------------------------
(***************************************************************************)
(* The control plane's HTTP API (app.ts) over either of its two stores:    *)
(* keys and roles, tenancy, workflow registration, runs, decisions, the    *)
(* audit log, and the life of the process (server.ts) with its bootstrap.  *)
(*                                                                         *)
(* A request is authenticated in one step and handled in later ones; each  *)
(* operation of a store is one transaction of Postgres, or one synchronous *)
(* method of the in-memory store.  createRun is taken as a whole here; its *)
(* statements, quotas and credentials are RunCreation, and what workers do *)
(* to a row is RunExecution.                                               *)
(***************************************************************************)
EXTENDS Contracts, FiniteSets

CONSTANTS
  Tenants, ApiKeys, Requests,
  Names,          \* of workflows
  Keys,           \* idempotency keys
  None,
  MaxWorkflows,   \* bound on the workflows explored
  MaxEvents       \* bound on the audit records, and changes of keys and roles, explored

ASSUME CpAssumption ==
  /\ MaxWorkflows \in Nat /\ MaxEvents \in Nat
  /\ None \notin Tenants \cup ApiKeys

VARIABLES
  backend,      \* memory or postgres: whether POSTGRES_URL is set
  process,      \* down, up or closing
  api_keys,     \* each key's tenant, principal and whether it is live, or None
  workflows,    \* tables of records; the index of a record is its id
  runs,
  audits,
  req,          \* what each request in flight knows
  foreign,      \* history: tenants whose rows were shown to a key of another tenant
  changes       \* the number of changes of keys and roles by an administrator

storeState == <<api_keys, workflows, runs, audits>>
cpVars == <<backend, process, storeState, req, foreign, changes>>

Roles == {"owner", "operator", "viewer"}
privilegedRoles == {"owner", "operator"}

Idle == [pc |-> "idle", owner |-> None, tenant |-> None, role |-> None,
         run |-> 0, to |-> None]

CpInit ==
  /\ backend \in {"memory", "postgres"}
  /\ process = "down"
  /\ api_keys = [k \in ApiKeys |-> None]
  /\ workflows = <<>> /\ runs = <<>> /\ audits = <<>>
  /\ req = [r \in Requests |-> Idle]
  /\ foreign = {} /\ changes = 0

-----------------------------------------------------------------------------
(* The life of the process.                                                *)
(*                                                                         *)
(* Of a key's principal its role is kept, and whether it is the bootstrap  *)
(* owner of its tenant (seed), which may have several keys; any other      *)
(* principal has one.                                                      *)

Owner(t) == [tenant |-> t, seed |-> TRUE, role |-> "owner", live |-> TRUE]

\* Mutant: the key moves to the tenant of the seed.
bootstrapTakesOver(t, k) == [api_keys EXCEPT ![k] = Owner(t)]

\* The tenant's bootstrap owner is made owner again, with all its keys.
upsertPrincipal(t) ==
  [a \in ApiKeys |->
     IF api_keys[a] # None /\ api_keys[a].seed /\ api_keys[a].tenant = t
       THEN [api_keys[a] EXCEPT !.role = "owner"] ELSE api_keys[a]]

\* A new key belongs to the tenant's bootstrap owner.  A key that is there is
\* made live, and stays with the principal that has it.
bootstrap(t, k) ==
  [upsertPrincipal(t) EXCEPT
     ![k] = IF api_keys[k] = None THEN Owner(t) ELSE [@ EXCEPT !.live = TRUE]]

\* The constructor of InMemoryDurableStore knows one credential.
memorySeed(t, k) == [a \in ApiKeys |-> IF a = k THEN Owner(t) ELSE None]

start(t, k) ==
  /\ process = "down"
  /\ process' = "up"
  /\ api_keys' = IF backend = "memory" THEN memorySeed(t, k) ELSE bootstrap(t, k)
  /\ UNCHANGED <<backend, changes, workflows, runs, audits, req, foreign>>

\* Mutant: the requests in flight are not waited for.
closeAtOnce ==
  /\ process = "up"
  /\ process' = "down"
  /\ UNCHANGED <<backend, changes, storeState, req, foreign>>

\* SIGTERM: app.close takes no more requests and waits for those in flight.
closeGracefully ==
  /\ process = "up"
  /\ process' = "closing"
  /\ UNCHANGED <<backend, changes, storeState, req, foreign>>

\* The end of the process, after a close or by a crash, with its memory.
ends ==
  /\ process # "down"
  /\ process' = "down"
  /\ req' = [r \in Requests |-> Idle]
  /\ IF backend = "memory"
       THEN /\ api_keys' = [k \in ApiKeys |-> None]
            /\ workflows' = <<>> /\ runs' = <<>> /\ audits' = <<>>
       ELSE UNCHANGED storeState
  /\ UNCHANGED <<backend, changes, foreign>>

\* An administrator provisions keys other than the seed's in the database,
\* revokes keys there, and gives principals other roles.
Change == Len(audits) + changes < MaxEvents /\ changes' = changes + 1

provision(k, t, role) ==
  /\ backend = "postgres" /\ api_keys[k] = None /\ Change
  /\ api_keys' = [api_keys EXCEPT ![k] =
                    [tenant |-> t, seed |-> FALSE, role |-> role, live |-> TRUE]]
  /\ UNCHANGED <<backend, process, workflows, runs, audits, req, foreign>>

revoke(k) ==
  /\ backend = "postgres" /\ api_keys[k] # None /\ api_keys[k].live /\ Change
  /\ api_keys' = [api_keys EXCEPT ![k].live = FALSE]
  /\ UNCHANGED <<backend, process, workflows, runs, audits, req, foreign>>

SamePrincipal(a, k) ==
  \/ a = k
  \/ /\ api_keys[a] # None /\ api_keys[a].seed /\ api_keys[k].seed
     /\ api_keys[a].tenant = api_keys[k].tenant

regrade(k, role) ==
  /\ backend = "postgres" /\ api_keys[k] # None /\ api_keys[k].role # role /\ Change
  /\ api_keys' = [a \in ApiKeys |->
                    IF SamePrincipal(a, k) THEN [api_keys[a] EXCEPT !.role = role]
                                           ELSE api_keys[a]]
  /\ UNCHANGED <<backend, process, workflows, runs, audits, req, foreign>>

-----------------------------------------------------------------------------
(* Requests.                                                               *)

\* The key is live and belongs to a principal of the tenant in the header.
authenticate(t, k) == api_keys[k] # None /\ api_keys[k].live /\ api_keys[k].tenant = t

\* Who the request is from.
Principal(t, k) == [tenant |-> t, role |-> api_keys[k].role]

\* The preHandler hook, which also notes whose key it was (history).  A
\* refusal changes nothing.
preHandler(r, t, k) ==
  /\ process = "up" /\ req[r] = Idle
  /\ authenticate(t, k)
  /\ req' = [req EXCEPT ![r] = [pc |-> "route", owner |-> api_keys[k].tenant,
                                tenant |-> Principal(t, k).tenant,
                                role |-> Principal(t, k).role, run |-> 0, to |-> None]]
  /\ UNCHANGED <<backend, changes, process, storeState, foreign>>

\* requireRole in the handler of a route.
routed(r, roles) == req[r].pc = "route" /\ req[r].role \in roles

\* The predicate on tenant_id of every query, and the row level policy.
sees(r, row) == row.tenant = req[r].tenant

\* The answer, with rows of these tenants in it.
reply(r, rows) ==
  /\ req' = [req EXCEPT ![r] = Idle]
  /\ foreign' = foreign \cup ({row.tenant : row \in rows} \ {req[r].owner})
  /\ UNCHANGED <<backend, changes, process, api_keys>>

AuditRecord(r, action, id) ==
  [tenant |-> req[r].tenant, role |-> req[r].role, action |-> action, id |-> id]

audit(r, action, id) ==
  /\ Len(audits) + changes < MaxEvents
  /\ audits' = Append(audits, AuditRecord(r, action, id))

\* A refused role, an invalid or unknown argument, a state that does not
\* permit the decision, or a transaction that is rolled back: an error.
refuse(r) ==
  /\ req[r] # Idle
  /\ reply(r, {})
  /\ UNCHANGED <<workflows, runs, audits>>

StoredWorkflow(r, name) == [tenant |-> req[r].tenant, name |-> name]

\* POST /v1/workflows.  Postgres has a unique key, the memory store has not.
createWorkflow(r, name) ==
  LET workflow == StoredWorkflow(r, name) IN
  /\ routed(r, privilegedRoles)
  /\ Len(workflows) < MaxWorkflows
  /\ backend = "postgres" => \A w \in DOMAIN workflows : workflows[w] # workflow
  /\ workflows' = Append(workflows, workflow)
  /\ audit(r, "workflow.created", Len(workflows) + 1)
  /\ reply(r, {workflow})
  /\ UNCHANGED runs

\* Mutant: keys are not scoped to the tenant.
PriorOfAnyone(r, k) == {n \in DOMAIN runs : runs[n].key = k}

\* The run the tenant has created with this key.
Prior(r, k) == {n \in DOMAIN runs : sees(r, runs[n]) /\ runs[n].key = k}

\* POST /v1/runs.  A key the tenant has used is answered with its run.
createRun(r, k, w) ==
  LET run == [tenant |-> req[r].tenant, key |-> k, workflow |-> w, state |-> "queued"] IN
  /\ routed(r, privilegedRoles)
  /\ \/ /\ Prior(r, k) # {}
        /\ reply(r, {runs[n] : n \in Prior(r, k)})
        /\ UNCHANGED <<workflows, runs, audits>>
     \/ /\ Prior(r, k) = {} /\ sees(r, workflows[w])
        /\ runs' = Append(runs, run)
        /\ audit(r, "run.created", Len(runs) + 1)
        /\ reply(r, {run})
        /\ UNCHANGED workflows

\* GET /v1/runs/:runId, for every role.
readRun(r, n) ==
  /\ routed(r, Roles) /\ sees(r, runs[n])
  /\ reply(r, {runs[n]})
  /\ UNCHANGED <<workflows, runs, audits>>

\* POST .../approve and .../cancel read the run first ...
check(r, n, to) ==
  /\ routed(r, privilegedRoles) /\ sees(r, runs[n])
  /\ \/ to = "queued" /\ runs[n].state = "awaiting_approval"
     \/ to = "cancelled" /\ runs[n].state \notin TerminalStates
  /\ req' = [req EXCEPT ![r] = [@ EXCEPT !.pc = "transition", !.run = n, !.to = to]]
  /\ UNCHANGED <<backend, changes, process, storeState, foreign>>

EventOf(to) == IF to = "queued" THEN "run.approved" ELSE "run.cancelled"

\* Mutant: the state that was checked is taken for granted.
transitionUnchecked(r) ==
  LET n == req[r].run IN
  /\ req[r].pc = "transition" /\ sees(r, runs[n])
  /\ runs' = [runs EXCEPT ![n].state = req[r].to]
  /\ audit(r, EventOf(req[r].to), n)
  /\ reply(r, {runs[n]})
  /\ UNCHANGED workflows

\* Mutant: a cancellation leaves no record.
transitionUnaudited(r) ==
  LET n == req[r].run IN
  /\ req[r].pc = "transition" /\ sees(r, runs[n])
  /\ Allowed(runs[n].state, req[r].to)
  /\ runs' = [runs EXCEPT ![n].state = req[r].to]
  /\ reply(r, {runs[n]})
  /\ UNCHANGED <<workflows, audits>>

\* ... and then lock it, consult the table, and write.
transition(r) ==
  LET n == req[r].run IN
  /\ req[r].pc = "transition" /\ sees(r, runs[n])
  /\ Allowed(runs[n].state, req[r].to)
  /\ runs' = [runs EXCEPT ![n].state = req[r].to]
  /\ audit(r, EventOf(req[r].to), n)
  /\ reply(r, {runs[n]})
  /\ UNCHANGED workflows

TenantRecords(r) == {audits[i] : i \in {j \in DOMAIN audits : sees(r, audits[j])}}

\* GET /v1/audit.
listAudit(r) ==
  /\ routed(r, {"owner"})
  /\ reply(r, TenantRecords(r))
  /\ UNCHANGED <<workflows, runs, audits>>

-----------------------------------------------------------------------------
(* Other users of the database.                                            *)

WorkerWrites(n, to) ==
  /\ backend = "postgres"
  /\ runs' = [runs EXCEPT ![n].state = to]
  /\ UNCHANGED <<backend, changes, process, api_keys, workflows, audits, req, foreign>>

\* claimRunLease of the store.
claimRunLease(n) ==
  /\ runs[n].state \in {"queued", "leased", "running"}
  /\ WorkerWrites(n, "leased")

\* A worker's updates name the row by its id, whatever its state.
workerMoves(n, to) ==
  /\ to \in {"running", "awaiting_approval", "succeeded", "failed", "uncertain"}
  /\ WorkerWrites(n, to)

-----------------------------------------------------------------------------
CpNext ==
  \/ \E t \in Tenants, k \in ApiKeys :
       \/ start(t, k)
       \/ \E role \in {"operator", "viewer"} : provision(k, t, role)
  \/ \E k \in ApiKeys : revoke(k) \/ \E role \in Roles : regrade(k, role)
  \/ closeGracefully \/ ends
  \/ \E r \in Requests :
       \/ \E t \in Tenants, k \in ApiKeys : preHandler(r, t, k)
       \/ \E name \in Names : createWorkflow(r, name)
       \/ \E k \in Keys, w \in DOMAIN workflows : createRun(r, k, w)
       \/ \E n \in DOMAIN runs : readRun(r, n) \/ check(r, n, "queued") \/ check(r, n, "cancelled")
       \/ transition(r) \/ listAudit(r) \/ refuse(r)
  \/ \E n \in DOMAIN runs : claimRunLease(n) \/ \E to \in RunStates : workerMoves(n, to)

CpSpec == CpInit /\ [][CpNext]_cpVars

-----------------------------------------------------------------------------
(* Correctness.                                                            *)

KeyRecords == [tenant : Tenants, seed : BOOLEAN, role : Roles, live : BOOLEAN]

\* Every variable has its type; a decision under way is about a run that
\* exists, and no request is in flight while the process is down.
CpTypeOK ==
  /\ backend \in {"memory", "postgres"}
  /\ process \in {"down", "up", "closing"}
  /\ api_keys \in [ApiKeys -> KeyRecords \cup {None}]
  /\ workflows \in Seq([tenant : Tenants, name : Names])
  /\ runs \in Seq([tenant : Tenants, key : Keys, workflow : DOMAIN workflows,
                   state : RunStates])
  /\ audits \in Seq([tenant : Tenants, role : Roles, id : Nat,
                     action : {"workflow.created", "run.created", "run.approved", "run.cancelled"}])
  /\ \A r \in Requests :
       /\ req[r].pc \in {"idle", "route", "transition"}
       /\ req[r].pc = "transition" => req[r].run \in DOMAIN runs
       /\ process = "down" => req[r] = Idle
  /\ changes \in 0..MaxEvents

\* A key of one tenant never brings up rows of another, in whatever order
\* keys are provisioned, seeded and revoked, and a run belongs to the tenant
\* of its workflow.
TenantsApart ==
  /\ foreign = {}
  /\ \A n \in DOMAIN runs : workflows[runs[n].workflow].tenant = runs[n].tenant

Records(action, id) ==
  {i \in DOMAIN audits : audits[i].action = action /\ audits[i].id = id}

\* The audit log tells the whole story of what requests changed: one record
\* for each workflow and run, one for a run that is cancelled, each of a
\* privileged principal of the tenant concerned.
AuditTrail ==
  /\ \A w \in DOMAIN workflows : Cardinality(Records("workflow.created", w)) = 1
  /\ \A n \in DOMAIN runs :
       /\ Cardinality(Records("run.created", n)) = 1
       /\ runs[n].state = "cancelled" => Records("run.cancelled", n) # {}
  /\ \A i \in DOMAIN audits :
       /\ audits[i].role \in privilegedRoles
       /\ audits[i].tenant =
            IF audits[i].action = "workflow.created" THEN workflows[audits[i].id].tenant
                                                     ELSE runs[audits[i].id].tenant

\* A process started for the tenant of a key that its bootstrap owner has.
SeedsTenantOf(k) == api_keys[k].seed /\ \E a \in ApiKeys : start(api_keys[k].tenant, a)

\* A key in the database never changes hands; a revoked key comes back in one
\* way only: a process is started with that very key as its seed; and besides
\* the administrator only a start changes a role, that of the bootstrap owner
\* of its own tenant, and to owner.
RevokedStaysOut ==
  [][\A k \in ApiKeys :
       backend = "postgres" /\ api_keys[k] # None =>
         /\ api_keys'[k].tenant = api_keys[k].tenant /\ api_keys'[k].seed = api_keys[k].seed
         /\ ~api_keys[k].live /\ api_keys'[k].live => \E t \in Tenants : start(t, k)
         /\ api_keys'[k].role # api_keys[k].role =>
              \/ \E a \in ApiKeys, role \in Roles : regrade(a, role)
              \/ SeedsTenantOf(k) /\ api_keys'[k].role = "owner"]_cpVars

LogEntry(rec) == [tenant |-> rec.tenant, action |-> rec.action, id |-> rec.id]

\* The audit log as the abstract store keeps it, without the roles.
AuditLog == [i \in DOMAIN audits |-> LogEntry(audits[i])]

Abstract ==
  INSTANCE RunStore WITH
    durable <- backend = "postgres", defs <- workflows, rows <- runs, log <- AuditLog

\* Both stores, behind the API, implement the abstract store.
ImplementsRunStore == Abstract!StoreSpec
=============================================================================
