-------------------------- MODULE ControlPlaneProofs --------------------------
(***************************************************************************)
(* Proofs about ControlPlane, for any tenants, keys, requests and bounds.  *)
(*                                                                         *)
(* What carries the properties is what a request knows: the tenant it acts *)
(* for is the owner of the key it came with, and once its decision was     *)
(* checked its role is privileged and its run exists.  Nothing changes     *)
(* that while it is in flight, whatever happens to the key.                *)
(***************************************************************************)
EXTENDS ControlPlane, FiniteSetTheorems, SequenceTheorems, TLAPS

WorkflowRow == [tenant : Tenants, name : Names]
RunRow == [tenant : Tenants, key : Keys, workflow : Nat, state : RunStates]
Actions == {"workflow.created", "run.created", "run.approved", "run.cancelled"}
AuditRow == [tenant : Tenants, role : Roles, action : Actions, id : Nat]
Request ==
  [pc : {"idle", "route", "transition"}, owner : Tenants \cup {None},
   tenant : Tenants \cup {None}, role : Roles \cup {None}, run : Nat,
   to : {"queued", "cancelled", None}]

\* What each variable is.
Tables ==
  /\ backend \in {"memory", "postgres"}
  /\ process \in {"down", "up", "closing"}
  /\ api_keys \in [ApiKeys -> KeyRecords \cup {None}]
  /\ workflows \in Seq(WorkflowRow)
  /\ runs \in Seq(RunRow)
  /\ audits \in Seq(AuditRow)
  /\ req \in [Requests -> Request]
  /\ changes \in 0..MaxEvents

\* What a request in flight knows.
RequestOK(r) ==
  /\ process = "down" => req[r] = Idle
  /\ req[r].pc # "idle" =>
       req[r].tenant \in Tenants /\ req[r].owner = req[r].tenant /\ req[r].role \in Roles
  /\ req[r].pc = "transition" =>
       /\ req[r].run \in DOMAIN runs
       /\ req[r].role \in privilegedRoles
       /\ req[r].to \in {"queued", "cancelled"}

RunsOK ==
  \A n \in DOMAIN runs :
    /\ runs[n].workflow \in DOMAIN workflows
    /\ workflows[runs[n].workflow].tenant = runs[n].tenant

Requested == \A r \in Requests : RequestOK(r)

-----------------------------------------------------------------------------
(* Facts about the tables.                                                 *)

\* A function on 1..n is a sequence of length n.
LEMMA FunctionIsSequence ==
  ASSUME NEW S, NEW n \in Nat, NEW f \in [1..n -> S]
  PROVE  f \in Seq(S) /\ Len(f) = n
OBVIOUS

\* What an insert leaves as it was, and what it adds.
LEMMA InsertRow ==
  ASSUME NEW S, NEW s \in Seq(S), NEW e \in S
  PROVE  /\ Len(s) \in Nat /\ DOMAIN s = 1..Len(s)
         /\ Append(s, e) \in Seq(S)
         /\ DOMAIN Append(s, e) = 1..(Len(s) + 1)
         /\ \A n \in DOMAIN s : Append(s, e)[n] = s[n]
         /\ Append(s, e)[Len(s) + 1] = e
OBVIOUS

\* What an update of the state of a run leaves as it was.
LEMMA UpdateState ==
  ASSUME runs \in Seq(RunRow), NEW n \in DOMAIN runs, NEW to \in RunStates,
         runs' = [runs EXCEPT ![n].state = to]
  PROVE  /\ runs' \in Seq(RunRow)
         /\ DOMAIN runs' = DOMAIN runs
         /\ \A m \in DOMAIN runs :
              /\ runs'[m].tenant = runs[m].tenant /\ runs'[m].workflow = runs[m].workflow
              /\ runs'[m].key = runs[m].key
              /\ runs'[m].state = IF m = n THEN to ELSE runs[m].state
<1>1. runs \in [1..Len(runs) -> RunRow] /\ Len(runs) \in Nat
  OBVIOUS
<1>2. runs' \in [1..Len(runs) -> RunRow]
  BY <1>1 DEF RunRow
<1>3. \A m \in DOMAIN runs :
        /\ runs'[m].tenant = runs[m].tenant /\ runs'[m].workflow = runs[m].workflow
        /\ runs'[m].key = runs[m].key
        /\ runs'[m].state = IF m = n THEN to ELSE runs[m].state
  BY <1>1 DEF RunRow
<1> QED
  BY <1>1, <1>2, <1>3, FunctionIsSequence

\* What the rows are made of.
LEMMA RowTypes ==
  ASSUME Tables
  PROVE  /\ \A w \in DOMAIN workflows : workflows[w].tenant \in Tenants
         /\ \A n \in DOMAIN runs : runs[n].tenant \in Tenants /\ runs[n].state \in RunStates
         /\ \A i \in DOMAIN audits :
              /\ audits[i].tenant \in Tenants /\ audits[i].role \in Roles
              /\ audits[i].action \in Actions
<1>1. /\ \A w \in DOMAIN workflows : workflows[w] \in WorkflowRow
      /\ \A n \in DOMAIN runs : runs[n] \in RunRow
      /\ \A i \in DOMAIN audits : audits[i] \in AuditRow
  BY DEF Tables
<1> QED
  BY <1>1 DEF WorkflowRow, RunRow, AuditRow

-----------------------------------------------------------------------------
(* The types, and what requests know.                                      *)

LEMMA IdleIsRequest == Idle \in Request /\ Idle.pc = "idle"
BY DEF Idle, Request

\* The answer to a request, whatever it did before.
LEMMA ReplyRequests ==
  ASSUME Tables, Requested, NEW r \in Requests, NEW rows, reply(r, rows),
         DOMAIN runs \subseteq DOMAIN runs'
  PROVE  req' \in [Requests -> Request] /\ Requested'
BY IdleIsRequest DEF Tables, Requested, RequestOK, reply

\* The record of an action.
LEMMA AuditStep ==
  ASSUME Tables, Requested, NEW r \in Requests, req[r].pc # "idle",
         NEW action \in Actions, NEW id \in Nat, audit(r, action, id)
  PROVE  /\ AuditRecord(r, action, id) \in AuditRow
         /\ audits' = Append(audits, AuditRecord(r, action, id))
         /\ audits' \in Seq(AuditRow)
<1>1. AuditRecord(r, action, id) \in AuditRow
  BY DEF Requested, RequestOK, AuditRecord, AuditRow
<1> QED
  BY <1>1 DEF audit, Tables

\* A request is let in.
LEMMA AuthenticateStep ==
  ASSUME Tables, Requested, NEW r \in Requests, NEW t \in Tenants, NEW k \in ApiKeys,
         preHandler(r, t, k)
  PROVE  Tables' /\ Requested'
<1>1. api_keys[k] \in KeyRecords /\ api_keys[k].tenant = t /\ api_keys[k].role \in Roles
  BY DEF Tables, preHandler, authenticate, KeyRecords
<1> DEFINE in == [pc |-> "route", owner |-> t, tenant |-> t,
                  role |-> api_keys[k].role, run |-> 0, to |-> None]
<1>2. req' = [req EXCEPT ![r] = in]
  BY <1>1 DEF preHandler, Principal
<1>3. /\ in \in Request /\ in.pc = "route" /\ in.owner = t /\ in.tenant = t
      /\ in.role \in Roles
  BY <1>1 DEF Request
<1> HIDE DEF in
<1>4. UNCHANGED <<backend, process, api_keys, workflows, runs, audits, changes>> /\ process = "up"
  BY DEF preHandler, storeState
<1> QED
  BY <1>2, <1>3, <1>4 DEF Tables, Requested, RequestOK

\* A decision is checked.
LEMMA CheckStep ==
  ASSUME Tables, Requested, NEW r \in Requests, NEW n \in DOMAIN runs,
         NEW to \in {"queued", "cancelled"}, check(r, n, to)
  PROVE  Tables' /\ Requested'
<1> DEFINE decided == [req[r] EXCEPT !.pc = "transition", !.run = n, !.to = to]
<1>1. /\ req' = [req EXCEPT ![r] = decided]
      /\ UNCHANGED <<backend, process, api_keys, workflows, runs, audits, changes>>
      /\ req[r].pc = "route" /\ req[r].role \in privilegedRoles
  BY DEF check, storeState, routed
<1>2. req[r] \in Request /\ n \in Nat
  BY DEF Tables
<1>3. /\ decided \in Request /\ decided.pc = "transition" /\ decided.owner = req[r].owner
      /\ decided.tenant = req[r].tenant /\ decided.role = req[r].role
      /\ decided.run = n /\ decided.to = to
  BY <1>2 DEF Request
<1>4. process # "down"
  BY <1>1, IdleIsRequest DEF Requested, RequestOK
<1> HIDE DEF decided
<1> QED
  BY <1>1, <1>3, <1>4 DEF Tables, Requested, RequestOK

-----------------------------------------------------------------------------
(* The audit log.                                                          *)

\* There is exactly one record of this action.
One(action, id) ==
  \E i \in DOMAIN audits :
    /\ audits[i].action = action /\ audits[i].id = id
    /\ \A j \in DOMAIN audits : audits[j].action = action /\ audits[j].id = id => j = i

\* Each record is of a privileged principal of the tenant that owns its subject.
SubjectOK(i) ==
  /\ audits[i].role \in privilegedRoles
  /\ audits[i].action = "workflow.created" =>
       audits[i].id \in DOMAIN workflows /\ audits[i].tenant = workflows[audits[i].id].tenant
  /\ audits[i].action # "workflow.created" =>
       audits[i].id \in DOMAIN runs /\ audits[i].tenant = runs[audits[i].id].tenant

Cancelled(n) ==
  \E i \in DOMAIN audits : audits[i].action = "run.cancelled" /\ audits[i].id = n

AuditOK ==
  /\ \A i \in DOMAIN audits : SubjectOK(i)
  /\ \A w \in DOMAIN workflows : One("workflow.created", w)
  /\ \A n \in DOMAIN runs :
       One("run.created", n) /\ (runs[n].state = "cancelled" => Cancelled(n))

\* A record is added, and the records that were there stay.
Recorded(rec) ==
  /\ Len(audits) \in Nat
  /\ DOMAIN audits = 1..Len(audits)
  /\ DOMAIN audits' = 1..(Len(audits) + 1)
  /\ \A i \in DOMAIN audits : audits'[i] = audits[i]
  /\ audits'[Len(audits) + 1] = rec

\* A record of something else leaves the one record the only one.
LEMMA OneStays ==
  ASSUME NEW rec, Recorded(rec), NEW action, NEW id, One(action, id),
         rec.action # action \/ rec.id # id
  PROVE  One(action, id)'
BY DEF Recorded, One

\* The first record of its kind is the only one.
LEMMA OneAdded ==
  ASSUME NEW rec, Recorded(rec),
         \A i \in DOMAIN audits : audits[i].action # rec.action \/ audits[i].id # rec.id
  PROVE  One(rec.action, rec.id)'
BY DEF Recorded, One

\* A record that was there stays there.
LEMMA CancelledStays ==
  ASSUME NEW rec, Recorded(rec), NEW n, Cancelled(n)
  PROVE  Cancelled(n)'
BY DEF Recorded, Cancelled

\* A workflow comes with its record.
LEMMA WorkflowRecorded ==
  ASSUME AuditOK, NEW rec, Recorded(rec), NEW new, new \notin DOMAIN workflows,
         DOMAIN workflows' = DOMAIN workflows \cup {new},
         \A w \in DOMAIN workflows : workflows'[w] = workflows[w], UNCHANGED runs,
         rec.action = "workflow.created", rec.id = new,
         rec.role \in privilegedRoles, rec.tenant = workflows'[new].tenant
  PROVE  AuditOK'
<1>1. \A i \in DOMAIN audits' : SubjectOK(i)'
  BY DEF AuditOK, SubjectOK, Recorded
<1>2. \A w \in DOMAIN workflows : One("workflow.created", w)'
  BY OneStays DEF AuditOK
<1>3. One("workflow.created", new)'
  <2>1. \A i \in DOMAIN audits : audits[i].action # rec.action \/ audits[i].id # rec.id
    BY DEF AuditOK, SubjectOK
  <2> QED
    BY <2>1, OneAdded
<1>4. \A n \in DOMAIN runs : One("run.created", n)'
  BY OneStays DEF AuditOK
<1>5. \A n \in DOMAIN runs : runs[n].state = "cancelled" => Cancelled(n)'
  BY CancelledStays DEF AuditOK
<1> QED
  BY <1>1, <1>2, <1>3, <1>4, <1>5 DEF AuditOK

\* A run comes with its record.
LEMMA RunRecorded ==
  ASSUME AuditOK, NEW rec, Recorded(rec), NEW new, new \notin DOMAIN runs,
         DOMAIN runs' = DOMAIN runs \cup {new}, UNCHANGED workflows,
         \A n \in DOMAIN runs : runs'[n] = runs[n], runs'[new].state # "cancelled",
         rec.action = "run.created", rec.id = new,
         rec.role \in privilegedRoles, rec.tenant = runs'[new].tenant
  PROVE  AuditOK'
<1>1. \A i \in DOMAIN audits' : SubjectOK(i)'
  BY DEF AuditOK, SubjectOK, Recorded
<1>2. \A w \in DOMAIN workflows : One("workflow.created", w)'
  BY OneStays DEF AuditOK
<1>3. One("run.created", new)'
  <2>1. \A i \in DOMAIN audits : audits[i].action # rec.action \/ audits[i].id # rec.id
    BY DEF AuditOK, SubjectOK
  <2> QED
    BY <2>1, OneAdded
<1>4. \A n \in DOMAIN runs : One("run.created", n)'
  BY OneStays DEF AuditOK
<1>5. \A n \in DOMAIN runs : runs[n].state = "cancelled" => Cancelled(n)'
  BY CancelledStays DEF AuditOK
<1> QED
  BY <1>1, <1>2, <1>3, <1>4, <1>5 DEF AuditOK

\* A decision comes with its record.
LEMMA DecisionRecorded ==
  ASSUME AuditOK, NEW rec, Recorded(rec), NEW n \in DOMAIN runs,
         DOMAIN runs' = DOMAIN runs, UNCHANGED workflows,
         \A m \in DOMAIN runs : runs'[m].tenant = runs[m].tenant,
         \A m \in DOMAIN runs : m # n => runs'[m].state = runs[m].state,
         runs'[n].state = "cancelled" => rec.action = "run.cancelled",
         rec.action \in {"run.approved", "run.cancelled"}, rec.id = n,
         rec.role \in privilegedRoles, rec.tenant = runs[n].tenant
  PROVE  AuditOK'
<1>1. \A i \in DOMAIN audits' : SubjectOK(i)'
  BY DEF AuditOK, SubjectOK, Recorded
<1>2. \A w \in DOMAIN workflows : One("workflow.created", w)'
  BY OneStays DEF AuditOK
<1>3. \A m \in DOMAIN runs : One("run.created", m)'
  BY OneStays DEF AuditOK
<1>4. \A m \in DOMAIN runs : m # n /\ runs'[m].state = "cancelled" => Cancelled(m)'
  BY CancelledStays DEF AuditOK
<1>5. runs'[n].state = "cancelled" => Cancelled(n)'
  BY DEF Cancelled, Recorded
<1> QED
  BY <1>1, <1>2, <1>3, <1>4, <1>5 DEF AuditOK

-----------------------------------------------------------------------------
(* One lemma per way a step can change the tables.                         *)

CpInv == Tables /\ Requested /\ RunsOK /\ foreign = {} /\ AuditOK

\* Reading, refusing and answering with what there is.
LEMMA ReadStep ==
  ASSUME CpInv, NEW r \in Requests, NEW rows, reply(r, rows), req[r].pc # "idle" \/ rows = {},
         \A row \in rows : row.tenant = req[r].tenant, UNCHANGED <<workflows, runs, audits>>
  PROVE  CpInv'
<1>1. Requested' /\ Tables'
  BY ReplyRequests DEF CpInv, Tables, reply
<1>2. foreign' = {}
  BY DEF CpInv, Requested, RequestOK, reply
<1> QED
  BY <1>1, <1>2 DEF CpInv, RunsOK, AuditOK, SubjectOK, One, Cancelled

\* Steps that touch no table but the keys.
LEMMA KeyStep ==
  ASSUME CpInv, Tables', Requested', UNCHANGED <<workflows, runs, audits, foreign>>
  PROVE  CpInv'
BY DEF CpInv, RunsOK, AuditOK, SubjectOK, One, Cancelled

\* POST /v1/workflows.
LEMMA RegisterStep ==
  ASSUME CpInv, NEW r \in Requests, NEW name \in Names, createWorkflow(r, name)
  PROVE  CpInv'
<1> DEFINE row == StoredWorkflow(r, name)
           new == Len(workflows) + 1
           rec == AuditRecord(r, "workflow.created", new)
<1>0. /\ req[r].pc # "idle" /\ req[r].role \in privilegedRoles
      /\ req[r].tenant \in Tenants /\ req[r].owner = req[r].tenant
  BY DEF createWorkflow, routed, CpInv, Requested, RequestOK
<1>1. row \in WorkflowRow /\ row.tenant = req[r].tenant
  BY <1>0 DEF StoredWorkflow, WorkflowRow
<1>2. /\ Len(workflows) \in Nat /\ DOMAIN workflows = 1..Len(workflows)
      /\ workflows' = Append(workflows, row) /\ workflows' \in Seq(WorkflowRow)
      /\ DOMAIN workflows' = 1..new
      /\ \A w \in DOMAIN workflows : workflows'[w] = workflows[w]
      /\ workflows'[new] = row
  BY <1>1, InsertRow DEF createWorkflow, CpInv, Tables
<1>3. audits' = Append(audits, rec) /\ rec \in AuditRow /\ audits' \in Seq(AuditRow)
  BY <1>0, <1>2, AuditStep DEF createWorkflow, Actions, CpInv
<1>4. Recorded(rec)
  BY <1>3, InsertRow DEF CpInv, Tables, Recorded
<1>5. UNCHANGED runs /\ reply(r, {row})
  BY DEF createWorkflow
<1>6. Tables' /\ Requested'
  BY <1>2, <1>3, <1>5, ReplyRequests DEF CpInv, Tables, reply
<1>7. foreign' = {}
  BY <1>0, <1>1, <1>5 DEF CpInv, reply
<1>8. RunsOK'
  BY <1>2, <1>5 DEF CpInv, RunsOK
<1>9. /\ rec.action = "workflow.created" /\ rec.id = new
      /\ rec.role = req[r].role /\ rec.tenant = req[r].tenant
  BY DEF AuditRecord
<1> HIDE DEF row, new, rec
<1>10. new \notin DOMAIN workflows /\ DOMAIN workflows' = DOMAIN workflows \cup {new}
  BY <1>2 DEF new
<1>11. AuditOK'
  BY <1>0, <1>1, <1>2, <1>4, <1>5, <1>9, <1>10, WorkflowRecorded DEF CpInv
<1> QED
  BY <1>6, <1>7, <1>8, <1>11 DEF CpInv

\* POST /v1/runs with a key the tenant has not used.
LEMMA CreateStep ==
  ASSUME CpInv, NEW r \in Requests, NEW k \in Keys, NEW w \in DOMAIN workflows,
         createRun(r, k, w), Prior(r, k) = {}
  PROVE  CpInv'
<1> DEFINE row == [tenant |-> req[r].tenant, key |-> k, workflow |-> w, state |-> "queued"]
           new == Len(runs) + 1
           rec == AuditRecord(r, "run.created", new)
<1>0. /\ req[r].pc # "idle" /\ req[r].role \in privilegedRoles
      /\ req[r].tenant \in Tenants /\ req[r].owner = req[r].tenant
  BY DEF createRun, routed, CpInv, Requested, RequestOK
<1>1. /\ workflows[w].tenant = req[r].tenant /\ w \in Nat
      /\ runs' = Append(runs, row) /\ audit(r, "run.created", new)
      /\ reply(r, {row}) /\ UNCHANGED workflows
  BY DEF createRun, sees, CpInv, Tables
<1>2. /\ row \in RunRow /\ row.tenant = req[r].tenant /\ row.workflow = w
      /\ row.state = "queued"
  BY <1>0, <1>1 DEF RunRow, RunStates
<1> HIDE DEF row
<1>3. /\ Len(runs) \in Nat /\ DOMAIN runs = 1..Len(runs)
      /\ runs' \in Seq(RunRow)
      /\ DOMAIN runs' = 1..new
      /\ \A n \in DOMAIN runs : runs'[n] = runs[n]
      /\ runs'[new] = row
  BY <1>1, <1>2, InsertRow DEF CpInv, Tables
<1>4. audits' = Append(audits, rec) /\ rec \in AuditRow /\ audits' \in Seq(AuditRow)
  BY <1>0, <1>1, <1>3, AuditStep DEF Actions, CpInv
<1>5. Recorded(rec)
  BY <1>4, InsertRow DEF CpInv, Tables, Recorded
<1>6. Tables' /\ Requested'
  <2>1. DOMAIN runs \subseteq DOMAIN runs'
    BY <1>3
  <2> QED
    BY <2>1, <1>1, <1>3, <1>4, ReplyRequests DEF CpInv, Tables, reply
<1>7. foreign' = {}
  BY <1>0, <1>1, <1>2 DEF CpInv, reply
<1>8. RunsOK'
  BY <1>1, <1>2, <1>3 DEF CpInv, RunsOK
<1>9. /\ rec.action = "run.created" /\ rec.id = new
      /\ rec.role = req[r].role /\ rec.tenant = req[r].tenant
  BY DEF AuditRecord
<1> HIDE DEF new, rec
<1>10. new \notin DOMAIN runs /\ DOMAIN runs' = DOMAIN runs \cup {new}
  BY <1>3 DEF new
<1>11. AuditOK'
  BY <1>0, <1>1, <1>2, <1>3, <1>5, <1>9, <1>10, RunRecorded DEF CpInv
<1> QED
  BY <1>6, <1>7, <1>8, <1>11 DEF CpInv

\* The rows that createRun, readRun and listAudit answer with.
LEMMA AnswerStep ==
  ASSUME CpInv, NEW r \in Requests,
         \/ \E k \in Keys, w \in DOMAIN workflows : createRun(r, k, w) /\ Prior(r, k) # {}
         \/ \E n \in DOMAIN runs : readRun(r, n)
         \/ listAudit(r)
         \/ refuse(r)
  PROVE  CpInv'
<1>1. ASSUME NEW k \in Keys, NEW w \in DOMAIN workflows, createRun(r, k, w), Prior(r, k) # {}
      PROVE  CpInv'
  BY <1>1, ReadStep DEF createRun, routed, Prior, sees
<1>2. ASSUME NEW n \in DOMAIN runs, readRun(r, n) PROVE CpInv'
  BY <1>2, ReadStep DEF readRun, routed, sees
<1>3. CASE listAudit(r)
  BY <1>3, ReadStep DEF listAudit, routed, TenantRecords, sees
<1>4. CASE refuse(r)
  BY <1>4, ReadStep DEF refuse
<1> QED
  BY <1>1, <1>2, <1>3, <1>4

\* The second transaction of an approval or a cancellation.
LEMMA TransitionStep ==
  ASSUME CpInv, NEW r \in Requests, transition(r)
  PROVE  CpInv'
<1> DEFINE n == req[r].run
           rec == AuditRecord(r, EventOf(req[r].to), n)
<1>0. /\ req[r].pc # "idle" /\ req[r].role \in privilegedRoles
      /\ req[r].tenant \in Tenants /\ req[r].owner = req[r].tenant
      /\ n \in DOMAIN runs /\ req[r].to \in {"queued", "cancelled"}
  BY DEF transition, CpInv, Requested, RequestOK
<1>1. /\ runs' = [runs EXCEPT ![n].state = req[r].to] /\ runs[n].tenant = req[r].tenant
      /\ audit(r, EventOf(req[r].to), n) /\ reply(r, {runs[n]}) /\ UNCHANGED workflows
  BY DEF transition, sees
<1>2. /\ runs' \in Seq(RunRow) /\ DOMAIN runs' = DOMAIN runs
      /\ \A m \in DOMAIN runs :
           /\ runs'[m].tenant = runs[m].tenant /\ runs'[m].workflow = runs[m].workflow
           /\ runs'[m].state = IF m = n THEN req[r].to ELSE runs[m].state
  <2> HIDE DEF n
  <2>1. req[r].to \in RunStates /\ runs \in Seq(RunRow)
    BY <1>0 DEF RunStates, CpInv, Tables
  <2> QED
    BY <2>1, <1>0, <1>1, UpdateState
<1>3. /\ EventOf(req[r].to) \in {"run.approved", "run.cancelled"}
      /\ req[r].to = "cancelled" => EventOf(req[r].to) = "run.cancelled"
  BY DEF EventOf
<1>4. n \in Nat
  BY <1>0 DEF CpInv, Tables
<1>5. audits' = Append(audits, rec) /\ rec \in AuditRow /\ audits' \in Seq(AuditRow)
  BY <1>0, <1>1, <1>3, <1>4, AuditStep DEF Actions, CpInv
<1>6. Recorded(rec)
  BY <1>5, InsertRow DEF CpInv, Tables, Recorded
<1>7. Tables' /\ Requested'
  BY <1>1, <1>2, <1>5, ReplyRequests DEF CpInv, Tables, reply
<1>8. foreign' = {}
  BY <1>0, <1>1 DEF CpInv, reply
<1>9. RunsOK'
  BY <1>1, <1>2 DEF CpInv, RunsOK
<1>10. /\ rec.action = EventOf(req[r].to) /\ rec.id = n
       /\ rec.role = req[r].role /\ rec.tenant = req[r].tenant
  BY DEF AuditRecord
<1> HIDE DEF n, rec
<1>11. AuditOK'
  BY <1>0, <1>1, <1>2, <1>3, <1>6, <1>10, DecisionRecorded DEF CpInv
<1> QED
  BY <1>7, <1>8, <1>9, <1>11 DEF CpInv

\* A worker writes a row.
LEMMA WorkerStep ==
  ASSUME CpInv, NEW n \in DOMAIN runs, NEW to \in RunStates \ {"cancelled"}, WorkerWrites(n, to)
  PROVE  CpInv'
<1>1. /\ runs' \in Seq(RunRow) /\ DOMAIN runs' = DOMAIN runs
      /\ \A m \in DOMAIN runs :
           /\ runs'[m].tenant = runs[m].tenant /\ runs'[m].workflow = runs[m].workflow
           /\ runs'[m].state = IF m = n THEN to ELSE runs[m].state
  BY UpdateState DEF WorkerWrites, CpInv, Tables
<1>2. Tables' /\ Requested' /\ RunsOK'
  BY <1>1 DEF CpInv, Tables, Requested, RequestOK, RunsOK, WorkerWrites
<1>3. AuditOK'
  BY <1>1 DEF CpInv, AuditOK, SubjectOK, One, Cancelled, WorkerWrites
<1> QED
  BY <1>2, <1>3 DEF CpInv, WorkerWrites

\* The process ends; what a memory store knew is gone, with the requests.
LEMMA EndStep ==
  ASSUME CpInv, ends
  PROVE  CpInv'
<1>1. /\ req' = [r \in Requests |-> Idle] /\ process' = "down"
      /\ UNCHANGED <<backend, foreign, changes>>
  BY DEF ends
<1>2. Requested' /\ req' \in [Requests -> Request]
  BY <1>1, IdleIsRequest DEF Requested, RequestOK
<1>3. CASE backend = "memory"
  BY <1>1, <1>2, <1>3 DEF ends, CpInv, Tables, RunsOK, AuditOK
<1>4. CASE UNCHANGED storeState
  BY <1>1, <1>2, <1>4, KeyStep DEF CpInv, Tables, storeState
<1> QED
  BY <1>3, <1>4 DEF ends, CpInv

\* Starts, closes, and what an administrator changes.
LEMMA LifeStep ==
  ASSUME CpInv,
         \/ \E t \in Tenants, k \in ApiKeys :
              start(t, k) \/ \E role \in {"operator", "viewer"} : provision(k, t, role)
         \/ \E k \in ApiKeys : revoke(k) \/ \E role \in Roles : regrade(k, role)
         \/ closeGracefully
  PROVE  CpInv'
<1> USE DEF CpInv, Tables, Requested, RequestOK
<1>1. ASSUME NEW t \in Tenants PROVE Owner(t) \in KeyRecords
  BY DEF Owner, KeyRecords, Roles
<1>2. ASSUME NEW k \in ApiKeys, api_keys[k] # None
      PROVE  /\ \A b \in BOOLEAN : [api_keys[k] EXCEPT !.live = b] \in KeyRecords
             /\ \A role \in Roles : [api_keys[k] EXCEPT !.role = role] \in KeyRecords
  BY <1>2 DEF KeyRecords
<1>3. ASSUME NEW t \in Tenants, NEW k \in ApiKeys, start(t, k) PROVE CpInv'
  <2>1. upsertPrincipal(t) \in [ApiKeys -> KeyRecords \cup {None}]
    BY <1>2 DEF upsertPrincipal, Roles
  <2>2. bootstrap(t, k) \in [ApiKeys -> KeyRecords \cup {None}]
    <3> DEFINE keys == upsertPrincipal(t)
               new == IF api_keys[k] = None THEN Owner(t) ELSE [keys[k] EXCEPT !.live = TRUE]
    <3>1. bootstrap(t, k) = [keys EXCEPT ![k] = new]
      BY DEF bootstrap
    <3>2. keys \in [ApiKeys -> KeyRecords \cup {None}]
      BY <2>1
    <3> HIDE DEF keys
    <3>3. new \in KeyRecords
      <4>1. CASE api_keys[k] = None
        BY <1>1, <4>1
      <4>2. CASE api_keys[k] # None
        <5>1. keys[k] \in KeyRecords
          BY <1>2, <4>2 DEF keys, upsertPrincipal, Roles
        <5> QED BY <4>2, <5>1 DEF KeyRecords
      <4> QED BY <4>1, <4>2
    <3> HIDE DEF new
    <3> QED BY <3>1, <3>2, <3>3
  <2>3. memorySeed(t, k) \in [ApiKeys -> KeyRecords \cup {None}]
    BY <1>1 DEF memorySeed
  <2>4. api_keys' \in [ApiKeys -> KeyRecords \cup {None}]
    BY <1>3, <2>2, <2>3 DEF start
  <2> QED
    BY <2>4, <1>3, KeyStep DEF start
<1>4. ASSUME NEW t \in Tenants, NEW k \in ApiKeys, NEW role \in {"operator", "viewer"},
             provision(k, t, role)
      PROVE  CpInv'
  <2>1. [tenant |-> t, seed |-> FALSE, role |-> role, live |-> TRUE] \in KeyRecords
    BY DEF KeyRecords, Roles
  <2>2. changes' \in 0..MaxEvents
    BY <1>4, CpAssumption DEF provision, Change
  <2> QED
    BY <2>1, <2>2, <1>4, KeyStep DEF provision
<1>5. ASSUME NEW k \in ApiKeys, revoke(k) PROVE CpInv'
  <2>1. api_keys' = [api_keys EXCEPT ![k] = [api_keys[k] EXCEPT !.live = FALSE]]
    BY <1>5 DEF revoke
  <2>2. changes' \in 0..MaxEvents
    BY <1>5, CpAssumption DEF revoke, Change
  <2> QED
    BY <2>1, <2>2, <1>2, <1>5, KeyStep DEF revoke
<1>6. ASSUME NEW k \in ApiKeys, NEW role \in Roles, regrade(k, role) PROVE CpInv'
  <2>1. api_keys' \in [ApiKeys -> KeyRecords \cup {None}]
    BY <1>2, <1>6 DEF regrade, SamePrincipal
  <2>2. changes' \in 0..MaxEvents
    BY <1>6, CpAssumption DEF regrade, Change
  <2> QED
    BY <2>1, <2>2, <1>6, KeyStep DEF regrade
<1>7. CASE closeGracefully
  BY <1>7, KeyStep DEF closeGracefully, storeState
<1> QED
  BY <1>3, <1>4, <1>5, <1>6, <1>7

\* Every step preserves the invariant.
LEMMA CpNextInv == CpInv /\ [CpNext]_cpVars => CpInv'
<1> SUFFICES ASSUME CpInv, [CpNext]_cpVars PROVE CpInv'
  OBVIOUS
<1>1. ASSUME NEW r \in Requests, NEW t \in Tenants, NEW k \in ApiKeys, preHandler(r, t, k)
      PROVE  CpInv'
  BY <1>1, AuthenticateStep, KeyStep DEF CpInv, preHandler, storeState
<1>2. ASSUME NEW r \in Requests, NEW n \in DOMAIN runs, NEW to \in {"queued", "cancelled"},
             check(r, n, to)
      PROVE  CpInv'
  BY <1>2, CheckStep, KeyStep DEF CpInv, check, storeState
<1>3. ASSUME NEW n \in DOMAIN runs, claimRunLease(n) \/ \E to \in RunStates : workerMoves(n, to)
      PROVE  CpInv'
  BY <1>3, WorkerStep DEF claimRunLease, workerMoves, RunStates
<1>4. CASE UNCHANGED cpVars
  BY <1>4, KeyStep DEF cpVars, storeState, CpInv, Tables, Requested, RequestOK
<1> QED
  BY <1>1, <1>2, <1>3, <1>4, RegisterStep, CreateStep, AnswerStep, TransitionStep, EndStep,
     LifeStep
     DEF CpNext

\* The first state: nothing is stored and nobody asks.
LEMMA CpInitInv == CpInit => CpInv
<1> SUFFICES ASSUME CpInit PROVE CpInv
  OBVIOUS
<1>1. Tables /\ Requested
  BY IdleIsRequest, CpAssumption DEF CpInit, Tables, Requested, RequestOK
<1> QED
  BY <1>1 DEF CpInit, CpInv, RunsOK, AuditOK

\* What the invariant says holds in every reachable state.
LEMMA CpInvariance == CpSpec => []CpInv
BY CpInitInv, CpNextInv, PTL DEF CpSpec

-----------------------------------------------------------------------------
(* The theorems.                                                           *)

\* The types of both stores and of the requests: a run names a workflow that
\* exists, a decision under way names a run that exists, and no request
\* outlives the process.
THEOREM CpTypeCorrect == CpSpec => []CpTypeOK
<1>1. CpInv => CpTypeOK
  <2> SUFFICES ASSUME CpInv PROVE CpTypeOK
    OBVIOUS
  <2>1. runs \in [1..Len(runs) -> RunRow] /\ Len(runs) \in Nat /\ DOMAIN runs = 1..Len(runs)
    BY DEF CpInv, Tables
  <2> DEFINE Stored == [tenant : Tenants, key : Keys, workflow : DOMAIN workflows,
                        state : RunStates]
  <2>2. \A n \in 1..Len(runs) : runs[n] \in Stored
    BY <2>1 DEF CpInv, RunsOK, RunRow
  <2>3. runs \in Seq(Stored)
    <3> HIDE DEF Stored
    <3>1. runs \in [1..Len(runs) -> Stored]
      BY <2>1, <2>2
    <3> QED
      BY <2>1, <3>1
  <2>4. AuditRow = [tenant : Tenants, role : Roles, id : Nat,
                    action : {"workflow.created", "run.created", "run.approved", "run.cancelled"}]
    BY DEF AuditRow, Actions
  <2>5. \A r \in Requests :
          /\ req[r].pc \in {"idle", "route", "transition"}
          /\ req[r].pc = "transition" => req[r].run \in DOMAIN runs
          /\ process = "down" => req[r] = Idle
    <3>1. \A r \in Requests : req[r] \in Request
      BY DEF CpInv, Tables
    <3> QED
      BY <3>1 DEF CpInv, Requested, RequestOK, Request
  <2> QED
    BY <2>3, <2>4, <2>5 DEF CpTypeOK, CpInv, Tables, WorkflowRow
<1> QED
  BY <1>1, CpInvariance, PTL

\* No request ever brings up a row of another tenant than its key's, over
\* either store and whatever happens to keys while it is in flight; and runs
\* belong to the tenant of their workflow.
THEOREM TenantsStayApart == CpSpec => []TenantsApart
<1>1. CpInv => TenantsApart
  BY DEF CpInv, RunsOK, TenantsApart
<1> QED
  BY <1>1, CpInvariance, PTL

\* The audit log has exactly one record for each workflow and run and one for
\* each cancelled run, all of privileged principals of the tenant concerned.
THEOREM AuditIsComplete == CpSpec => []AuditTrail
<1>1. CpInv => AuditTrail
  <2> SUFFICES ASSUME CpInv PROVE AuditTrail
    OBVIOUS
  <2>1. ASSUME NEW action, NEW id, One(action, id)
        PROVE  Cardinality(Records(action, id)) = 1
    <3>1. PICK i \in DOMAIN audits : Records(action, id) = {i}
      BY <2>1 DEF One, Records
    <3>2. Cardinality({i}) = 1
      BY FS_Singleton, Zenon
    <3> QED
      BY <3>1, <3>2
  <2>2. ASSUME NEW n, Cancelled(n) PROVE Records("run.cancelled", n) # {}
    BY <2>2 DEF Cancelled, Records
  <2> QED
    BY <2>1, <2>2 DEF CpInv, AuditOK, SubjectOK, AuditTrail
<1> QED
  BY <1>1, CpInvariance, PTL

\* A key in the database stays with its principal, a revoked one comes back
\* only as the seed of a process that starts, and a start changes no role but
\* that of the bootstrap owner of its tenant.
THEOREM RevocationsHold == CpSpec => RevokedStaysOut
<1> DEFINE Kept(k) ==
      backend = "postgres" /\ api_keys[k] # None =>
        /\ api_keys'[k].tenant = api_keys[k].tenant /\ api_keys'[k].seed = api_keys[k].seed
        /\ ~api_keys[k].live /\ api_keys'[k].live => \E t \in Tenants : start(t, k)
        /\ api_keys'[k].role # api_keys[k].role =>
             \/ \E a \in ApiKeys, role \in Roles : regrade(a, role)
             \/ SeedsTenantOf(k) /\ api_keys'[k].role = "owner"
<1>1. ASSUME CpInv, [CpNext]_cpVars, NEW k \in ApiKeys
      PROVE  Kept(k)
  <2>1. CASE UNCHANGED api_keys
    BY <2>1
  <2>2. ASSUME NEW t \in Tenants, NEW a \in ApiKeys, start(t, a), backend = "postgres",
               api_keys[k] # None
        PROVE  Kept(k)
    <3> DEFINE kept == upsertPrincipal(t)[k]
    <3>1. api_keys[k] \in KeyRecords
      BY <1>1, <2>2 DEF CpInv, Tables
    <3>2. /\ kept = api_keys[k]
          \/ /\ kept = [api_keys[k] EXCEPT !.role = "owner"]
             /\ api_keys[k].seed /\ api_keys[k].tenant = t
      BY <2>2 DEF upsertPrincipal
    <3>3. /\ kept.tenant = api_keys[k].tenant /\ kept.seed = api_keys[k].seed
          /\ kept.live = api_keys[k].live /\ kept \in KeyRecords
          /\ kept.role # api_keys[k].role =>
               kept.role = "owner" /\ api_keys[k].seed /\ api_keys[k].tenant = t
      BY <3>1, <3>2 DEF KeyRecords, Roles
    <3>4. api_keys'[k] = IF k = a THEN [kept EXCEPT !.live = TRUE] ELSE kept
      <4>1. api_keys' = [upsertPrincipal(t) EXCEPT
                           ![a] = IF api_keys[a] = None THEN Owner(t) ELSE [@ EXCEPT !.live = TRUE]]
        BY <2>2 DEF start, bootstrap
      <4>2. k \in DOMAIN upsertPrincipal(t)
        BY DEF upsertPrincipal
      <4> QED BY <2>2, <4>1, <4>2
    <3> HIDE DEF kept
    <3>5. /\ api_keys'[k].tenant = kept.tenant /\ api_keys'[k].seed = kept.seed
          /\ api_keys'[k].role = kept.role
          /\ k # a => api_keys'[k].live = kept.live
      BY <3>3, <3>4 DEF KeyRecords
    <3>6. ~api_keys[k].live /\ api_keys'[k].live => \E u \in Tenants : start(u, k)
      BY <2>2, <3>3, <3>5
    <3>7. kept.role # api_keys[k].role => SeedsTenantOf(k) /\ kept.role = "owner"
      BY <2>2, <3>3 DEF SeedsTenantOf
    <3> QED
      BY <3>3, <3>5, <3>6, <3>7
  <2>3. ASSUME NEW a \in ApiKeys, revoke(a), api_keys[k] # None PROVE Kept(k)
    <3>1. api_keys[k] \in KeyRecords
      BY <1>1, <2>3 DEF CpInv, Tables
    <3>2. api_keys'[k] = IF k = a THEN [api_keys[k] EXCEPT !.live = FALSE] ELSE api_keys[k]
      BY <1>1, <2>3 DEF revoke, CpInv, Tables
    <3> QED
      BY <3>1, <3>2 DEF KeyRecords
  <2>4. ASSUME NEW t \in Tenants, NEW a \in ApiKeys, NEW role, provision(a, t, role)
        PROVE  Kept(k)
    BY <1>1, <2>4 DEF provision, CpInv, Tables
  <2>5. ASSUME NEW a \in ApiKeys, NEW role \in Roles, regrade(a, role), api_keys[k] # None
        PROVE  Kept(k)
    <3>1. api_keys[k] \in KeyRecords
      BY <1>1, <2>5 DEF CpInv, Tables
    <3>2. \/ api_keys'[k] = api_keys[k]
          \/ api_keys'[k] = [api_keys[k] EXCEPT !.role = role]
      BY <2>5 DEF regrade
    <3>3. /\ api_keys'[k].tenant = api_keys[k].tenant /\ api_keys'[k].seed = api_keys[k].seed
          /\ api_keys'[k].live = api_keys[k].live
      BY <3>1, <3>2 DEF KeyRecords
    <3> QED
      BY <2>5, <3>3
  <2>6. CASE ends
    BY <2>1, <2>6 DEF ends, storeState
  <2> QED
    BY <1>1, <2>1, <2>2, <2>3, <2>4, <2>5, <2>6
       DEF CpNext, cpVars, storeState, closeGracefully, preHandler, createWorkflow, createRun,
           readRun, check, transition, listAudit, refuse, reply, claimRunLease, workerMoves,
           WorkerWrites
<1>2. ASSUME CpInv, [CpNext]_cpVars PROVE \A k \in ApiKeys : Kept(k)
  BY <1>1, <1>2
<1>3. ASSUME CpInv, [CpNext]_cpVars
      PROVE  [\A k \in ApiKeys : Kept(k)]_cpVars
  BY <1>2, <1>3
<1> QED
  BY <1>3, CpInvariance, PTL DEF CpSpec, RevokedStaysOut
-----------------------------------------------------------------------------
(* Both stores implement RunStore.                                         *)

\* A record of the audit log is one entry of the abstract log.
LEMMA LogGrows ==
  ASSUME Tables, NEW rec \in AuditRow, audits' = Append(audits, rec)
  PROVE  AuditLog' = Append(AuditLog, LogEntry(rec))
<1> DEFINE Entries == [tenant : Tenants, action : Actions, id : Nat]
<1>1. \A e \in AuditRow : LogEntry(e) \in Entries
  BY DEF AuditRow, LogEntry
<1>2. /\ Len(audits) \in Nat /\ DOMAIN audits = 1..Len(audits)
      /\ DOMAIN audits' = 1..(Len(audits) + 1)
      /\ \A i \in DOMAIN audits : audits'[i] = audits[i] /\ audits[i] \in AuditRow
      /\ audits'[Len(audits) + 1] = rec
  BY DEF Tables
<1> HIDE DEF Entries
<1>3. AuditLog \in [1..Len(audits) -> Entries]
  BY <1>1, <1>2 DEF AuditLog
<1>4. AuditLog \in Seq(Entries) /\ Len(AuditLog) = Len(audits)
  BY <1>2, <1>3, FunctionIsSequence
<1>5. /\ Append(AuditLog, LogEntry(rec)) \in Seq(Entries)
      /\ Len(Append(AuditLog, LogEntry(rec))) = Len(audits) + 1
      /\ \A i \in 1..Len(audits) : Append(AuditLog, LogEntry(rec))[i] = LogEntry(audits[i])
      /\ Append(AuditLog, LogEntry(rec))[Len(audits) + 1] = LogEntry(rec)
  <2>1. LogEntry(rec) \in Entries
    BY <1>1
  <2>2. \A i \in 1..Len(audits) : AuditLog[i] = LogEntry(audits[i])
    BY <1>2 DEF AuditLog
  <2> QED
    BY <2>1, <2>2, <1>2, <1>4
<1>6. /\ AuditLog' \in [1..(Len(audits) + 1) -> Entries]
      /\ \A i \in 1..(Len(audits) + 1) : AuditLog'[i] = LogEntry(audits'[i])
  BY <1>1, <1>2 DEF AuditLog, LogEntry
<1>7. AuditLog' \in Seq(Entries) /\ Len(AuditLog') = Len(audits) + 1
  BY <1>2, <1>6, FunctionIsSequence
<1>8. \A i \in 1..(Len(audits) + 1) : AuditLog'[i] = Append(AuditLog, LogEntry(rec))[i]
  BY <1>2, <1>5, <1>6
<1> QED
  BY <1>2, <1>5, <1>7, <1>8, SeqEqual

\* A record of the audit log, for the request that makes it.
LEMMA LogStep ==
  ASSUME CpInv, NEW r \in Requests, req[r].pc # "idle", NEW action \in Actions, NEW id \in Nat,
         audit(r, action, id)
  PROVE  AuditLog' = Append(AuditLog, [tenant |-> req[r].tenant, action |-> action, id |-> id])
<1>1. /\ AuditRecord(r, action, id) \in AuditRow
      /\ audits' = Append(audits, AuditRecord(r, action, id))
  BY AuditStep DEF CpInv
<1>2. LogEntry(AuditRecord(r, action, id)) = [tenant |-> req[r].tenant, action |-> action, id |-> id]
  BY DEF LogEntry, AuditRecord
<1> QED
  BY <1>1, <1>2, LogGrows DEF CpInv

\* Every step of the control plane is a step of the abstract store, or none.
LEMMA StoreStep ==
  ASSUME CpInv, [CpNext]_cpVars
  PROVE  [Abstract!StoreNext]_(Abstract!storeVars)
<1> DEFINE Implements == Abstract!StoreNext \/ UNCHANGED Abstract!storeVars
<1>0. ASSUME UNCHANGED <<backend, workflows, runs, audits>> PROVE Implements
  BY <1>0 DEF Abstract!storeVars, AuditLog, LogEntry
<1>1. ASSUME NEW r \in Requests, NEW name \in Names, createWorkflow(r, name) PROVE Implements
  <2>1. req[r].pc # "idle" /\ req[r].tenant \in Tenants
    BY <1>1 DEF createWorkflow, routed, CpInv, Requested, RequestOK
  <2>2. Len(workflows) + 1 \in Nat
    BY DEF CpInv, Tables
  <2>3. AuditLog' = Append(AuditLog, [tenant |-> req[r].tenant, action |-> "workflow.created",
                                      id |-> Len(workflows) + 1])
    BY <1>1, <2>1, <2>2, LogStep DEF createWorkflow, Actions
  <2>4. Abstract!Register(req[r].tenant, name)
    BY <1>1, <2>3 DEF Abstract!Register, Abstract!LogRecord, createWorkflow, StoredWorkflow, reply
  <2> QED
    BY <2>1, <2>4 DEF Abstract!StoreNext
<1>2. ASSUME NEW r \in Requests, NEW k \in Keys, NEW w \in DOMAIN workflows, createRun(r, k, w),
             Prior(r, k) = {}
      PROVE  Implements
  <2>1. req[r].pc # "idle" /\ req[r].tenant \in Tenants
    BY <1>2 DEF createRun, routed, CpInv, Requested, RequestOK
  <2>2. Len(runs) + 1 \in Nat
    BY DEF CpInv, Tables
  <2>3. AuditLog' = Append(AuditLog, [tenant |-> req[r].tenant, action |-> "run.created",
                                      id |-> Len(runs) + 1])
    BY <1>2, <2>1, <2>2, LogStep DEF createRun, Actions
  <2>4. \A n \in DOMAIN runs : runs[n].tenant # req[r].tenant \/ runs[n].key # k
    BY <1>2 DEF Prior, sees
  <2>5. Abstract!Create(req[r].tenant, k, w)
    BY <1>2, <2>3, <2>4 DEF Abstract!Create, Abstract!LogRecord, createRun, sees, reply
  <2> QED
    BY <2>1, <2>5 DEF Abstract!StoreNext
<1>3. ASSUME NEW r \in Requests, transition(r) PROVE Implements
  <2> DEFINE n == req[r].run
  <2>1. /\ req[r].pc # "idle" /\ n \in DOMAIN runs /\ n \in Nat
        /\ req[r].to \in {"queued", "cancelled"} /\ runs[n].tenant = req[r].tenant
    BY <1>3 DEF transition, sees, CpInv, Tables, Requested, RequestOK
  <2>2. EventOf(req[r].to) \in Actions
    BY DEF EventOf, Actions
  <2>3. AuditLog' = Append(AuditLog, [tenant |-> req[r].tenant, action |-> EventOf(req[r].to),
                                      id |-> n])
    BY <1>3, <2>1, <2>2, LogStep DEF transition
  <2>4. Abstract!Decide(n, req[r].to, EventOf(req[r].to))
    BY <1>3, <2>1, <2>3 DEF Abstract!Decide, Abstract!LogRecord, Abstract!Allowed, Allowed,
                            Abstract!allowedTransitions, allowedTransitions,
                            Abstract!RunStates, RunStates, transition, reply
  <2>5. req[r].to = "queued" => Abstract!Decide(n, "queued", "run.approved")
    BY <2>4 DEF EventOf
  <2>6. req[r].to = "cancelled" => Abstract!Decide(n, "cancelled", "run.cancelled")
    BY <2>4 DEF EventOf
  <2> HIDE DEF n
  <2> QED
    BY <2>1, <2>5, <2>6 DEF Abstract!StoreNext
<1>4. ASSUME NEW n \in DOMAIN runs, NEW to \in RunStates \ {"cancelled"}, WorkerWrites(n, to)
      PROVE  Implements
  <2>1. Abstract!Work(n, to)
    BY <1>4 DEF Abstract!Work, WorkerWrites, AuditLog, LogEntry
  <2> QED
    BY <2>1 DEF Abstract!StoreNext, Abstract!RunStates, RunStates
<1>5. ASSUME ends PROVE Implements
  <2>1. CASE backend = "memory"
    <3>1. AuditLog' = <<>>
      BY <1>5, <2>1 DEF ends, AuditLog
    <3>2. Abstract!Forget
      BY <1>5, <2>1, <3>1 DEF ends, Abstract!Forget
    <3> QED
      BY <3>2 DEF Abstract!StoreNext
  <2>2. CASE UNCHANGED storeState
    BY <1>0, <1>5, <2>2 DEF ends, storeState
  <2> QED
    BY <1>5, <2>1, <2>2 DEF ends
<1> HIDE DEF Implements
<1>6. ASSUME NEW n \in DOMAIN runs, claimRunLease(n) \/ \E to \in RunStates : workerMoves(n, to)
      PROVE  Implements
  BY <1>4, <1>6 DEF claimRunLease, workerMoves, RunStates
<1>7. ASSUME \/ \E t \in Tenants, k \in ApiKeys :
                  start(t, k) \/ \E role \in {"operator", "viewer"} : provision(k, t, role)
             \/ \E k \in ApiKeys : revoke(k) \/ \E role \in Roles : regrade(k, role)
             \/ closeGracefully
      PROVE  Implements
  BY <1>0, <1>7 DEF start, provision, revoke, regrade, closeGracefully, storeState
<1>8. ASSUME NEW r \in Requests,
             \/ \E t \in Tenants, k \in ApiKeys : preHandler(r, t, k)
             \/ \E n \in DOMAIN runs : readRun(r, n) \/ check(r, n, "queued") \/ check(r, n, "cancelled")
             \/ listAudit(r) \/ refuse(r)
      PROVE  Implements
  BY <1>0, <1>8 DEF preHandler, readRun, check, listAudit, refuse, reply, storeState
<1>9. ASSUME NEW r \in Requests, NEW k \in Keys, NEW w \in DOMAIN workflows, createRun(r, k, w),
             Prior(r, k) # {}
      PROVE  Implements
  BY <1>0, <1>9 DEF createRun, reply
<1>10. ASSUME NEW r \in Requests,
              \/ \E t \in Tenants, k \in ApiKeys : preHandler(r, t, k)
              \/ \E name \in Names : createWorkflow(r, name)
              \/ \E k \in Keys, w \in DOMAIN workflows : createRun(r, k, w)
              \/ \E n \in DOMAIN runs :
                   readRun(r, n) \/ check(r, n, "queued") \/ check(r, n, "cancelled")
              \/ transition(r) \/ listAudit(r) \/ refuse(r)
       PROVE  Implements
  BY <1>1, <1>2, <1>3, <1>8, <1>9, <1>10
<1>11. ASSUME CpNext PROVE Implements
  BY <1>5, <1>6, <1>7, <1>10, <1>11 DEF CpNext
<1>12. ASSUME UNCHANGED cpVars PROVE Implements
  BY <1>0, <1>12 DEF cpVars, storeState
<1> QED
  BY <1>11, <1>12 DEF Implements

\* The Postgres store and the in-memory store, behind the API and with all the
\* requests, keys, restarts and workers around them, implement RunStore.
THEOREM StoresImplementRunStore == CpSpec => ImplementsRunStore
<1>1. CpInit => Abstract!StoreInit
  BY DEF CpInit, Abstract!StoreInit, AuditLog
<1> QED
  BY <1>1, StoreStep, CpInvariance, PTL DEF CpSpec, ImplementsRunStore, Abstract!StoreSpec
=============================================================================
