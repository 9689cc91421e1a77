------------------------------ MODULE RunStore ------------------------------
(***************************************************************************)
(* What every RuntimeStore of the control plane promises, as an abstract   *)
(* machine without requests, processes, keys or roles: a run belongs to    *)
(* the tenant of its workflow, a tenant has at most one run per            *)
(* idempotency key, a decision about a run follows the transition table,   *)
(* and each of these changes leaves exactly one record in the audit log,   *)
(* in the same step.  Only a store that is not durable may forget, and     *)
(* then it forgets everything at once.                                     *)
(***************************************************************************)
EXTENDS Contracts

CONSTANTS Tenants, Names, Keys

VARIABLES
  durable,   \* whether rows outlive the process
  defs,      \* the workflows, in the order of their registration
  rows,      \* the runs, in the order of their creation
  log        \* the audit records

storeVars == <<durable, defs, rows, log>>

StoreInit == durable \in BOOLEAN /\ defs = <<>> /\ rows = <<>> /\ log = <<>>

LogRecord(t, action, id) == [tenant |-> t, action |-> action, id |-> id]

\* createWorkflow.
Register(t, name) ==
  /\ defs' = Append(defs, [tenant |-> t, name |-> name])
  /\ log' = Append(log, LogRecord(t, "workflow.created", Len(defs) + 1))
  /\ UNCHANGED <<durable, rows>>

\* createRun of a key that the tenant has not used, for one of its workflows.
Create(t, k, w) ==
  /\ defs[w].tenant = t
  /\ \A n \in DOMAIN rows : rows[n].tenant # t \/ rows[n].key # k
  /\ rows' = Append(rows, [tenant |-> t, key |-> k, workflow |-> w, state |-> "queued"])
  /\ log' = Append(log, LogRecord(t, "run.created", Len(rows) + 1))
  /\ UNCHANGED <<durable, defs>>

\* transition, to queued for an approval and to cancelled for a cancellation.
Decide(n, to, action) ==
  /\ Allowed(rows[n].state, to)
  /\ rows' = [rows EXCEPT ![n].state = to]
  /\ log' = Append(log, LogRecord(rows[n].tenant, action, n))
  /\ UNCHANGED <<durable, defs>>

\* A worker writes the row of a durable store, with no audit record.
Work(n, to) ==
  /\ durable /\ to # "cancelled"
  /\ rows' = [rows EXCEPT ![n].state = to]
  /\ UNCHANGED <<durable, defs, log>>

Forget ==
  /\ ~durable
  /\ defs' = <<>> /\ rows' = <<>> /\ log' = <<>>
  /\ UNCHANGED durable

StoreNext ==
  \/ \E t \in Tenants, name \in Names : Register(t, name)
  \/ \E t \in Tenants, k \in Keys, w \in DOMAIN defs : Create(t, k, w)
  \/ \E n \in DOMAIN rows :
       \/ Decide(n, "queued", "run.approved")
       \/ Decide(n, "cancelled", "run.cancelled")
       \/ \E to \in RunStates : Work(n, to)
  \/ Forget

StoreSpec == StoreInit /\ [][StoreNext]_storeVars
=============================================================================
