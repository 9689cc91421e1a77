--------------------------- MODULE CredentialBroker ---------------------------
(***************************************************************************)
(* The control plane's in-memory credential broker                         *)
(* (services/control-plane/src/credential-broker.ts).  An entry whose time *)
(* to live has passed stays in the map until the next issue or consume     *)
(* purges it.  Handles are fresh (randomUUID); the credentials themselves  *)
(* are abstracted.                                                         *)
(***************************************************************************)
EXTENDS Integers

CONSTANT Handles   \* handles the broker may issue

VARIABLES
  entries,   \* handles in the map
  expired,   \* handles whose expiresAt has passed
  issued,    \* history: handles issued so far
  handed     \* history: how often each handle's credential was returned

brokerVars == <<entries, expired, issued, handed>>

BrokerInit ==
  /\ entries = {}
  /\ expired = {}
  /\ issued = {}
  /\ handed = [hd \in Handles |-> 0]

\* The map after purge.
purge == entries \ expired

issue(hd) ==
  /\ hd \in Handles \ issued
  /\ issued' = issued \cup {hd}
  /\ entries' = purge \cup {hd}
  /\ UNCHANGED <<expired, handed>>

\* Mutant: consume looks the handle up without purging first.
consumeUnpurged(hd) ==
  /\ handed' = [handed EXCEPT ![hd] = IF hd \in entries THEN @ + 1 ELSE @]
  /\ entries' = entries \ {hd}
  /\ UNCHANGED <<expired, issued>>

\* consume returns the credential if it is still there, and forgets it.
consume(hd) ==
  /\ handed' = [handed EXCEPT ![hd] = IF hd \in purge THEN @ + 1 ELSE @]
  /\ entries' = purge \ {hd}
  /\ UNCHANGED <<expired, issued>>

\* Mutant: discard clears the whole map.
discardAll(hd) == {}

\* The map after discard.
discard(hd) == entries \ {hd}

\* Five minutes have passed since the handle was issued.
Expire(hd) ==
  /\ hd \in issued \ expired
  /\ expired' = expired \cup {hd}
  /\ UNCHANGED <<entries, issued, handed>>

-----------------------------------------------------------------------------
\* A credential leaves the broker at most once, and never after its time to
\* live, although an expired entry may still be in the map.
HandedOnceInTime ==
  [][\A hd \in Handles : handed'[hd] > handed[hd] =>
       handed[hd] = 0 /\ hd \notin expired]_brokerVars
=============================================================================
