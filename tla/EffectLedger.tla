----------------------------- MODULE EffectLedger -----------------------------
(***************************************************************************)
(* What the effect ledger promises of one run, as an abstract machine with *)
(* no workers, leases or deliveries: every effect key is inserted at most  *)
(* once, and a key that is gated is inserted only after it was granted.    *)
(* The interface is the one of services/worker/internal/effects: Commit    *)
(* inserts a key that is not there yet and otherwise changes nothing.      *)
(***************************************************************************)
EXTENDS Integers

CONSTANT Keys

VARIABLES
  gated,     \* the keys whose effect needs an approval (fixed per run)
  granted,   \* the keys that have been approved
  inserted   \* how many rows each key has in the ledger

ledgerVars == <<gated, granted, inserted>>

LedgerInit ==
  /\ gated \in SUBSET Keys
  /\ granted = {}
  /\ inserted = [k \in Keys |-> 0]

Grant(k) ==
  /\ granted' = granted \cup {k}
  /\ UNCHANGED <<gated, inserted>>

\* Ledger.Commit returning true; returning false is a stuttering step.
Commit(k) ==
  /\ inserted[k] = 0
  /\ k \in gated => k \in granted
  /\ inserted' = [inserted EXCEPT ![k] = 1]
  /\ UNCHANGED <<gated, granted>>

LedgerNext == \E k \in Keys : Grant(k) \/ Commit(k)

LedgerSpec == LedgerInit /\ [][LedgerNext]_ledgerVars
=============================================================================
