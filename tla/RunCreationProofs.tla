-------------------------- MODULE RunCreationProofs --------------------------
(***************************************************************************)
(* Proofs about RunCreation, for any clients, keys, handles and limits.    *)
(*                                                                         *)
(* The invariant comes in layers, each proved from the ones before it: the *)
(* types with the mutual exclusion of the tenant's lock, the keys, the     *)
(* credentials, and the quota.                                             *)
(***************************************************************************)
EXTENDS RunCreation, FiniteSetTheorems, TLAPS

RunRecord ==
  [key : Keys, handle : Handles \cup {"none"}, active : BOOLEAN, today : BOOLEAN]

\* The types, with a lock that has at most one holder and a request that has
\* a key from its arrival to its answer.
Types ==
  /\ entries \subseteq issued /\ expired \subseteq issued /\ issued \subseteq Handles
  /\ handed \in [Handles -> Nat]
  /\ runs \in Seq(RunRecord)
  /\ pc \in [Clients -> {"idle", "select", "limits", "count", "insert"}]
  /\ key \in [Clients -> Keys \cup {"none"}]
  /\ handle \in [Clients -> Handles \cup {"none"}]
  /\ lock = {c \in Clients : pc[c] \in {"count", "insert"}}
  /\ \A c, d \in lock : c = d
  /\ \A c \in Clients : pc[c] # "idle" => key[c] \in Keys
  /\ reopened \in 0..MaxReopened

-----------------------------------------------------------------------------
(* What the steps do to the table of runs.                                 *)

\* Updates of a run leave its key and its handle alone.
SameRuns ==
  /\ DOMAIN runs' = DOMAIN runs
  /\ \A n \in DOMAIN runs : runs'[n].key = runs[n].key /\ runs'[n].handle = runs[n].handle

\* A function on 1..n is a sequence of length n.
LEMMA FunctionIsSeq ==
  ASSUME NEW S, NEW n \in Nat, NEW f \in [1..n -> S]
  PROVE  f \in Seq(S) /\ Len(f) = n
OBVIOUS

\* The end of a run, or of its end.
LEMMA UpdateRun ==
  ASSUME runs \in Seq(RunRecord), NEW n \in DOMAIN runs, RunEnds(n) \/ RunReopens(n)
  PROVE  runs' \in Seq(RunRecord) /\ Len(runs') = Len(runs) /\ SameRuns
<1>1. runs \in [1..Len(runs) -> RunRecord] /\ Len(runs) \in Nat
  OBVIOUS
<1>2. PICK b \in BOOLEAN : runs' = [runs EXCEPT ![n].active = b]
  BY DEF RunEnds, RunReopens
<1>3. SameRuns /\ runs' \in [1..Len(runs) -> RunRecord]
  BY <1>1, <1>2 DEF SameRuns, RunRecord
<1> QED
  BY <1>1, <1>3, FunctionIsSeq

\* Midnight.
LEMMA NewDayRuns ==
  ASSUME runs \in Seq(RunRecord), NewDay
  PROVE  runs' \in Seq(RunRecord) /\ Len(runs') = Len(runs) /\ SameRuns
<1>1. runs \in [1..Len(runs) -> RunRecord] /\ Len(runs) \in Nat
  OBVIOUS
<1>2. SameRuns /\ runs' \in [1..Len(runs) -> RunRecord]
  BY <1>1 DEF SameRuns, RunRecord, NewDay
<1> QED
  BY <1>1, <1>2, FunctionIsSeq

\* What a row of the table is made of.
LEMMA RunAt ==
  ASSUME Types, NEW n \in DOMAIN runs
  PROVE  runs[n].key \in Keys /\ runs[n].handle \in Handles \cup {"none"}
<1>1. runs[n] \in RunRecord
  BY DEF Types
<1> QED
  BY <1>1 DEF RunRecord

\* The insert of a new run.
LEMMA AppendRun ==
  ASSUME Types, NEW c \in Clients, pc[c] # "idle"
  PROVE  /\ NewRun(c) \in RunRecord
         /\ Append(runs, NewRun(c)) \in Seq(RunRecord)
         /\ Len(runs) \in Nat
         /\ DOMAIN runs = 1..Len(runs)
         /\ DOMAIN Append(runs, NewRun(c)) = 1..(Len(runs) + 1)
         /\ \A n \in DOMAIN runs : Append(runs, NewRun(c))[n] = runs[n]
         /\ Append(runs, NewRun(c))[Len(runs) + 1] = NewRun(c)
<1>1. NewRun(c) \in RunRecord
  BY DEF Types, NewRun, RunRecord
<1> QED
  BY <1>1 DEF Types

-----------------------------------------------------------------------------
(* The types, and the lock.                                                *)

\* The answer to a request ends what it had.
LEMMA ReplyTypes ==
  ASSUME Types, NEW c \in Clients, NEW result, Reply(c, result),
         runs' \in Seq(RunRecord)
  PROVE  Types'
BY DEF Types, Reply, Goto, discard

\* Every step preserves the types, and the lock goes from one request to the
\* next only through the empty set.
LEMMA TypesStep == Types /\ [CreationNext]_creationVars => Types'
<1> SUFFICES ASSUME Types, [CreationNext]_creationVars PROVE Types'
  OBVIOUS
<1> USE DEF Goto, requestVars, brokerVars, replyVars
<1>1. ASSUME NEW c \in Clients, postRun(c) PROVE Types'
  BY <1>1 DEF Types, postRun, issue, purge
<1>2. ASSUME NEW c \in Clients, selectExisting(c) PROVE Types'
  <2>1. CASE Reply(c, "replayed")
    BY <2>1, <1>2, ReplyTypes DEF Types, selectExisting
  <2>2. CASE Goto(c, "limits") /\ ~Reply(c, "replayed")
    BY <2>2, <1>2 DEF Types, selectExisting
  <2> QED
    BY <2>1, <2>2, <1>2 DEF selectExisting
<1>3. ASSUME NEW c \in Clients, selectLimits(c) PROVE Types'
  BY <1>3 DEF Types, selectLimits
<1>4. ASSUME NEW c \in Clients, countUsage(c) PROVE Types'
  <2>1. CASE Reply(c, "quota")
    BY <2>1, <1>4, ReplyTypes DEF Types, countUsage
  <2>2. CASE Goto(c, "insert") /\ ~Reply(c, "quota")
    BY <2>2, <1>4 DEF Types, countUsage
  <2> QED
    BY <2>1, <2>2, <1>4 DEF countUsage
<1>5. ASSUME NEW c \in Clients, insertRun(c) PROVE Types'
  <2>1. runs' \in Seq(RunRecord)
    BY <1>5, AppendRun DEF insertRun, Types
  <2> QED
    BY <2>1, <1>5, ReplyTypes DEF insertRun
<1>6. ASSUME NEW c \in Clients, requestFails(c) PROVE Types'
  BY <1>6, ReplyTypes DEF Types, requestFails
<1>7. ASSUME NEW n \in DOMAIN runs, consumeForRun(n) PROVE Types'
  <2>1. runs[n].handle \in Handles
    BY <1>7, RunAt DEF consumeForRun
  <2> QED
    BY <2>1, <1>7 DEF Types, consumeForRun, consume, purge
<1>8. ASSUME NEW n \in DOMAIN runs, RunEnds(n) \/ RunReopens(n) PROVE Types'
  <2>1. runs' \in Seq(RunRecord)
    BY <1>8, UpdateRun DEF Types
  <2> QED
    BY <2>1, <1>8, LimitsAssumption DEF Types, RunEnds, RunReopens
<1>9. ASSUME NEW hd \in Handles, ExpireHandle(hd) PROVE Types'
  BY <1>9 DEF Types, ExpireHandle, Expire
<1>10. CASE NewDay
  BY <1>10, NewDayRuns DEF Types, NewDay
<1>11. CASE Restart
  BY <1>11 DEF Types, Restart
<1>12. CASE UNCHANGED creationVars
  BY <1>12 DEF Types, creationVars
<1> QED
  BY <1>1, <1>2, <1>3, <1>4, <1>5, <1>6, <1>7, <1>8, <1>9, <1>10, <1>11, <1>12
     DEF CreationNext

-----------------------------------------------------------------------------
(* Keys.                                                                   *)

\* A request that came after its run waits at its first select, where the run
\* still is.
KeysOK ==
  /\ OneRunPerKey
  /\ spurned = {}
  /\ \A c \in retries : c \in Clients /\ pc[c] = "select" /\ RunWith(key[c])

\* Runs are never deleted, so a key that has its run keeps it.
LEMMA RunsStay ==
  ASSUME Types, NEW k, RunWith(k), runs' = runs \/ SameRuns
  PROVE  RunWith(k)'
BY DEF RunWith, SameRuns

\* A replay, or a failure, of any request.
LEMMA ReplyKeys ==
  ASSUME Types, KeysOK, NEW c \in Clients, NEW result, Reply(c, result),
         result # "quota", \A k : RunWith(k) => RunWith(k)', OneRunPerKey'
  PROVE  KeysOK'
BY DEF Types, KeysOK, Reply, Goto

\* Every step preserves what is known about the keys.
LEMMA KeysStep == Types /\ KeysOK /\ [CreationNext]_creationVars => KeysOK'
<1> SUFFICES ASSUME Types, KeysOK, [CreationNext]_creationVars PROVE KeysOK'
  OBVIOUS
<1> USE DEF Goto, requestVars, brokerVars, replyVars
<1>0. ASSUME UNCHANGED runs PROVE OneRunPerKey' /\ \A k : RunWith(k) <=> RunWith(k)'
  BY <1>0 DEF KeysOK, OneRunPerKey, RunWith
<1>1. ASSUME NEW c \in Clients, postRun(c) PROVE KeysOK'
  BY <1>0, <1>1 DEF Types, KeysOK, postRun
<1>2. ASSUME NEW c \in Clients, selectExisting(c) PROVE KeysOK'
  <2>1. CASE Reply(c, "replayed")
    BY <2>1, <1>0, <1>2, ReplyKeys DEF selectExisting
  <2>2. CASE ~RunWith(key[c])
    BY <2>2, <1>0, <1>2 DEF Types, KeysOK, selectExisting
  <2> QED
    BY <2>1, <2>2, <1>2 DEF selectExisting
<1>3. ASSUME NEW c \in Clients, selectLimits(c) PROVE KeysOK'
  BY <1>0, <1>3 DEF Types, KeysOK, selectLimits
<1>4. ASSUME NEW c \in Clients, countUsage(c) PROVE KeysOK'
  <2>1. c \notin retries
    BY <1>4 DEF KeysOK, countUsage
  <2>2. CASE Reply(c, "quota")
    BY <2>1, <2>2, <1>0, <1>4 DEF Types, KeysOK, countUsage, Reply
  <2>3. CASE ~OverQuota
    BY <2>1, <2>3, <1>0, <1>4 DEF Types, KeysOK, countUsage
  <2> QED
    BY <2>2, <2>3, <1>4 DEF countUsage
<1>5. ASSUME NEW c \in Clients, insertRun(c) PROVE KeysOK'
  <2>1. CASE ~RunWith(key[c]) /\ runs' = Append(runs, NewRun(c))
    <3>1. /\ DOMAIN runs = 1..Len(runs) /\ Len(runs) \in Nat
          /\ DOMAIN runs' = 1..(Len(runs) + 1)
          /\ \A n \in DOMAIN runs : runs'[n] = runs[n]
          /\ runs'[Len(runs) + 1].key = key[c]
      BY <2>1, <1>5, AppendRun DEF insertRun, NewRun
    <3>2. OneRunPerKey'
      BY <2>1, <3>1 DEF KeysOK, OneRunPerKey, RunWith
    <3>3. \A k : RunWith(k) => RunWith(k)'
      BY <3>1 DEF RunWith
    <3> QED
      BY <3>2, <3>3, <1>5, ReplyKeys DEF insertRun
  <2>2. CASE UNCHANGED runs /\ Reply(c, "replayed")
    BY <2>2, <1>0, ReplyKeys
  <2> QED
    BY <2>1, <2>2, <1>5 DEF insertRun
<1>6. ASSUME NEW c \in Clients, requestFails(c) PROVE KeysOK'
  BY <1>0, <1>6, ReplyKeys DEF requestFails
<1>7. ASSUME NEW n \in DOMAIN runs, consumeForRun(n) PROVE KeysOK'
  BY <1>0, <1>7 DEF KeysOK, consumeForRun
<1>8. ASSUME SameRuns, UNCHANGED <<requestVars, replyVars>> PROVE KeysOK'
  BY <1>8, RunsStay DEF KeysOK, OneRunPerKey, SameRuns
<1>9. ASSUME NEW n \in DOMAIN runs, RunEnds(n) \/ RunReopens(n) PROVE KeysOK'
  BY <1>8, <1>9, UpdateRun DEF RunEnds, RunReopens, Types
<1>10. ASSUME NEW hd \in Handles, ExpireHandle(hd) PROVE KeysOK'
  BY <1>0, <1>10 DEF KeysOK, ExpireHandle
<1>11. CASE NewDay
  BY <1>8, <1>11, NewDayRuns DEF NewDay, Types
<1>12. CASE Restart
  BY <1>0, <1>12 DEF KeysOK, Restart
<1>13. CASE UNCHANGED creationVars
  BY <1>0, <1>13 DEF KeysOK, creationVars
<1> QED
  BY <1>1, <1>2, <1>3, <1>4, <1>5, <1>6, <1>7, <1>9, <1>10, <1>11, <1>12, <1>13
     DEF CreationNext

-----------------------------------------------------------------------------
(* Credentials.                                                            *)

\* A credential in the map, or not issued yet, was never handed out.
BrokerOK ==
  /\ \A hd \in entries : handed[hd] = 0
  /\ \A hd \in Handles \ issued : handed[hd] = 0

\* A handle belongs to one request or to runs: a request in flight has one
\* that nobody else knows, and its credential is there unless it expired.
OwnersOK ==
  /\ \A c \in Clients : pc[c] = "idle" => handle[c] = "none"
  /\ \A n \in DOMAIN runs : runs[n].handle # "none" => runs[n].handle \in issued
  /\ \A c \in Clients : handle[c] # "none" =>
       /\ handle[c] \in (entries \cup expired) \cap issued
       /\ \A n \in DOMAIN runs : runs[n].handle # handle[c]
       /\ \A d \in Clients : handle[d] = handle[c] => d = c

\* Every credential in the map has an owner, or leaked.
EntriesOK == entries \subseteq RunHandles \cup leaked \cup {handle[c] : c \in Clients}

CredentialsOK == BrokerOK /\ OwnersOK /\ EntriesOK /\ CredentialSurvivesReplay

\* The answer to a request that leaves the table as it is: a replay drops the
\* request's own credential, and a failure leaves it behind.
LEMMA ReplyCredentials ==
  ASSUME Types, CredentialsOK, NEW c \in Clients, NEW result, Reply(c, result),
         result \in {"replayed", "quota", "error"}, UNCHANGED runs
  PROVE  CredentialsOK'
<1> USE DEF Types, Reply, Goto, discard
<1>1. BrokerOK'
  BY DEF CredentialsOK, BrokerOK
<1>2. OwnersOK'
  BY DEF CredentialsOK, OwnersOK
<1>3. EntriesOK'
  BY HandlesAssumption DEF CredentialsOK, EntriesOK, RunHandles
<1>4. CredentialSurvivesReplay'
  BY HandlesAssumption DEF CredentialsOK, CredentialSurvivesReplay, OwnersOK
<1> QED
  BY <1>1, <1>2, <1>3, <1>4 DEF CredentialsOK

\* A new run takes the handle of its request over.
LEMMA InsertCredentials ==
  ASSUME Types, CredentialsOK, NEW c \in Clients, NEW result, Reply(c, result),
         result \in {"created", "error"}, pc[c] # "idle", runs' = Append(runs, NewRun(c))
  PROVE  CredentialsOK'
<1> USE DEF Types, Reply, Goto
<1>0. /\ DOMAIN runs = 1..Len(runs) /\ Len(runs) \in Nat
      /\ DOMAIN runs' = 1..(Len(runs) + 1)
      /\ \A n \in DOMAIN runs : runs'[n] = runs[n]
      /\ runs'[Len(runs) + 1].handle = handle[c]
  BY AppendRun DEF NewRun
<1>1. BrokerOK'
  BY DEF CredentialsOK, BrokerOK
<1>2. OwnersOK'
  BY <1>0 DEF CredentialsOK, OwnersOK
<1>3. EntriesOK'
  <2>1. RunHandles \subseteq RunHandles'
    BY <1>0 DEF RunHandles
  <2>2. handle[c] # "none" => handle[c] \in RunHandles'
    <3>1. Len(runs) + 1 \in DOMAIN runs'
      BY <1>0
    <3> QED
      BY <1>0, <3>1 DEF RunHandles
  <2> QED
    BY <2>1, <2>2, HandlesAssumption DEF CredentialsOK, EntriesOK
<1>4. CredentialSurvivesReplay'
  BY <1>0, HandlesAssumption DEF CredentialsOK, CredentialSurvivesReplay, OwnersOK
<1> QED
  BY <1>1, <1>2, <1>3, <1>4 DEF CredentialsOK

\* Steps that touch neither the broker nor who owns a handle.
LEMMA FrameCredentials ==
  ASSUME Types, CredentialsOK, UNCHANGED <<brokerVars, handle, leaked, cleared>>,
         UNCHANGED runs \/ SameRuns,
         \A c \in Clients : pc'[c] = "idle" => pc[c] = "idle"
  PROVE  CredentialsOK'
<1> USE DEF brokerVars
<1>0. /\ DOMAIN runs' = DOMAIN runs
      /\ \A n \in DOMAIN runs : runs'[n].handle = runs[n].handle
  BY DEF SameRuns
<1>1. BrokerOK'
  BY DEF CredentialsOK, BrokerOK
<1>2. OwnersOK'
  BY <1>0 DEF CredentialsOK, OwnersOK
<1>3. EntriesOK'
  BY <1>0 DEF CredentialsOK, EntriesOK, RunHandles
<1>4. CredentialSurvivesReplay'
  BY <1>0 DEF CredentialsOK, CredentialSurvivesReplay
<1> QED
  BY <1>1, <1>2, <1>3, <1>4 DEF CredentialsOK

\* A request arrives with a fresh handle.
LEMMA PostCredentials ==
  ASSUME Types, CredentialsOK, NEW c \in Clients, postRun(c)
  PROVE  CredentialsOK'
<1> USE DEF Types, postRun, Goto, issue, purge, brokerVars
<1>1. BrokerOK'
  BY DEF CredentialsOK, BrokerOK
<1>2. OwnersOK'
  <2>1. ASSUME NEW hd \in Handles, issue(hd), handle' = [handle EXCEPT ![c] = hd]
        PROVE  OwnersOK'
    <3>1. \A d \in Clients : handle[d] # "none" => handle[d] # hd
      BY <2>1 DEF CredentialsOK, OwnersOK
    <3>2. \A n \in DOMAIN runs : runs[n].handle # hd
      BY <2>1, HandlesAssumption DEF CredentialsOK, OwnersOK
    <3> QED
      BY <2>1, <3>1, <3>2, HandlesAssumption DEF CredentialsOK, OwnersOK
  <2>2. CASE handle' = [handle EXCEPT ![c] = "none"] /\ UNCHANGED brokerVars
    BY <2>2 DEF CredentialsOK, OwnersOK
  <2> QED
    BY <2>1, <2>2
<1>3. EntriesOK'
  BY HandlesAssumption DEF CredentialsOK, EntriesOK, OwnersOK, RunHandles
<1>4. CredentialSurvivesReplay'
  BY HandlesAssumption DEF CredentialsOK, CredentialSurvivesReplay
<1> QED
  BY <1>1, <1>2, <1>3, <1>4 DEF CredentialsOK

\* A worker asks for the credential of a run.
LEMMA ConsumeCredentials ==
  ASSUME Types, CredentialsOK, NEW n \in DOMAIN runs, consumeForRun(n)
  PROVE  CredentialsOK'
<1> DEFINE hd == runs[n].handle
<1>0. hd \in Handles
  BY RunAt DEF consumeForRun
<1>1. /\ handed' = [handed EXCEPT ![hd] = IF hd \in purge THEN @ + 1 ELSE @]
      /\ entries' = purge \ {hd}
      /\ UNCHANGED <<expired, issued, runs, pc, handle, leaked, cleared>>
  BY DEF consumeForRun, consume, requestVars
<1> HIDE DEF hd
<1>2. BrokerOK'
  BY <1>0, <1>1 DEF Types, CredentialsOK, BrokerOK, purge
<1>3. OwnersOK'
  BY <1>0, <1>1 DEF Types, CredentialsOK, OwnersOK, purge, hd
<1>4. EntriesOK'
  BY <1>1 DEF CredentialsOK, EntriesOK, RunHandles, purge
<1>5. CredentialSurvivesReplay'
  BY <1>0, <1>1 DEF Types, CredentialsOK, CredentialSurvivesReplay, purge
<1> QED
  BY <1>2, <1>3, <1>4, <1>5 DEF CredentialsOK

\* Every step preserves what is known about the credentials.
LEMMA CredentialsStep ==
  Types /\ CredentialsOK /\ [CreationNext]_creationVars => CredentialsOK'
<1> SUFFICES ASSUME Types, CredentialsOK, [CreationNext]_creationVars
             PROVE  CredentialsOK'
  OBVIOUS
<1> USE DEF Goto, requestVars, brokerVars, replyVars
<1>1. ASSUME NEW c \in Clients, postRun(c) PROVE CredentialsOK'
  BY <1>1, PostCredentials
<1>2. ASSUME NEW c \in Clients, selectExisting(c) PROVE CredentialsOK'
  BY <1>2, ReplyCredentials, FrameCredentials DEF selectExisting, Types
<1>3. ASSUME NEW c \in Clients, selectLimits(c) PROVE CredentialsOK'
  BY <1>3, FrameCredentials DEF selectLimits, Types
<1>4. ASSUME NEW c \in Clients, countUsage(c) PROVE CredentialsOK'
  BY <1>4, ReplyCredentials, FrameCredentials DEF countUsage, Types
<1>5. ASSUME NEW c \in Clients, insertRun(c) PROVE CredentialsOK'
  BY <1>5, ReplyCredentials, InsertCredentials DEF insertRun
<1>6. ASSUME NEW c \in Clients, requestFails(c) PROVE CredentialsOK'
  BY <1>6, ReplyCredentials DEF requestFails
<1>7. ASSUME NEW n \in DOMAIN runs, consumeForRun(n) PROVE CredentialsOK'
  BY <1>7, ConsumeCredentials
<1>8. ASSUME NEW n \in DOMAIN runs, RunEnds(n) \/ RunReopens(n) PROVE CredentialsOK'
  BY <1>8, UpdateRun, FrameCredentials DEF RunEnds, RunReopens, Types
<1>9. ASSUME NEW hd \in Handles, ExpireHandle(hd) PROVE CredentialsOK'
  BY <1>9 DEF ExpireHandle, Expire, Types, CredentialsOK, BrokerOK, OwnersOK, EntriesOK,
              RunHandles, CredentialSurvivesReplay
<1>10. CASE NewDay
  BY <1>10, NewDayRuns, FrameCredentials DEF NewDay, Types
<1>11. CASE Restart
  BY <1>11 DEF Restart, Types, CredentialsOK, BrokerOK, OwnersOK, EntriesOK,
               CredentialSurvivesReplay
<1>12. CASE UNCHANGED creationVars
  BY <1>12, FrameCredentials DEF creationVars
<1> QED
  BY <1>1, <1>2, <1>3, <1>4, <1>5, <1>6, <1>7, <1>8, <1>9, <1>10, <1>11, <1>12
     DEF CreationNext

-----------------------------------------------------------------------------
(* Quotas.                                                                 *)

\* The request past the count has room for its run; a run reopened meanwhile
\* takes its room from the allowance for reopened runs.
QuotaOK ==
  /\ QuotaHolds
  /\ \A c \in Clients : pc[c] = "insert" =>
       /\ Cardinality(ActiveRuns) < max_active_runs + reopened
       /\ Cardinality(RunsToday) < max_runs_per_day

\* The tables are finite, so the counts are numbers.
LEMMA CountsType ==
  ASSUME Types
  PROVE  /\ IsFiniteSet(ActiveRuns) /\ Cardinality(ActiveRuns) \in Nat
         /\ IsFiniteSet(RunsToday) /\ Cardinality(RunsToday) \in Nat
         /\ reopened \in Nat
<1>1. DOMAIN runs = 1..Len(runs) /\ Len(runs) \in Nat /\ reopened \in Nat
  BY LimitsAssumption DEF Types
<1>2. IsFiniteSet(DOMAIN runs)
  BY <1>1, FS_Interval
<1> QED
  BY <1>1, <1>2, FS_Subset, FS_CardinalityType DEF ActiveRuns, RunsToday

\* A subset of the counted runs is no larger.
LEMMA FewerRuns ==
  ASSUME Types, NEW A \in SUBSET ActiveRuns, NEW T \in SUBSET RunsToday
  PROVE  /\ Cardinality(A) \in Nat /\ Cardinality(A) <= Cardinality(ActiveRuns)
         /\ Cardinality(T) \in Nat /\ Cardinality(T) <= Cardinality(RunsToday)
BY CountsType, FS_Subset, FS_CardinalityType

\* Steps that leave the counts alone, or lower them, and let nobody past the
\* count.
LEMMA FrameQuota ==
  ASSUME Types, QuotaOK, ActiveRuns' \in SUBSET ActiveRuns, RunsToday' \in SUBSET RunsToday,
         UNCHANGED reopened,
         \A c \in Clients : pc'[c] = "insert" => pc[c] = "insert"
  PROVE  QuotaOK'
<1>1. /\ Cardinality(ActiveRuns') \in Nat
      /\ Cardinality(ActiveRuns') <= Cardinality(ActiveRuns)
      /\ Cardinality(RunsToday') \in Nat
      /\ Cardinality(RunsToday') <= Cardinality(RunsToday)
  BY FewerRuns
<1> QED
  BY <1>1, CountsType, LimitsAssumption DEF QuotaOK, QuotaHolds

\* A step that leaves the table alone leaves the counts alone.
LEMMA SameCounts ==
  ASSUME UNCHANGED runs
  PROVE  ActiveRuns' = ActiveRuns /\ RunsToday' = RunsToday
BY DEF ActiveRuns, RunsToday

\* A request that has no insert to come leaves the quota alone.
LEMMA ReplyQuota ==
  ASSUME Types, QuotaOK, NEW c \in Clients, NEW result, Reply(c, result), UNCHANGED runs
  PROVE  QuotaOK'
<1>1. UNCHANGED reopened /\ \A d \in Clients : pc'[d] = "insert" => pc[d] = "insert"
  BY DEF Reply, Goto, Types
<1> QED
  BY <1>1, SameCounts, FrameQuota

\* The insert: the only request that could be past the count is this one.
LEMMA InsertQuota ==
  ASSUME Types, QuotaOK, NEW c \in Clients, NEW result, Reply(c, result),
         pc[c] = "insert", runs' = Append(runs, NewRun(c))
  PROVE  QuotaOK'
<1> DEFINE new == Len(runs) + 1
<1>1. /\ DOMAIN runs = 1..Len(runs) /\ Len(runs) \in Nat
      /\ DOMAIN runs' = 1..new
      /\ \A n \in DOMAIN runs : runs'[n] = runs[n]
      /\ runs'[new].active /\ runs'[new].today
  BY AppendRun DEF NewRun
<1>2. ActiveRuns' = ActiveRuns \cup {new} /\ RunsToday' = RunsToday \cup {new}
  BY <1>1 DEF ActiveRuns, RunsToday
<1>3. new \notin ActiveRuns /\ new \notin RunsToday
  BY <1>1 DEF ActiveRuns, RunsToday
<1>4. /\ Cardinality(ActiveRuns') = Cardinality(ActiveRuns) + 1
      /\ Cardinality(RunsToday') = Cardinality(RunsToday) + 1
  BY <1>2, <1>3, CountsType, FS_AddElement
<1>5. \A d \in Clients : pc'[d] # "insert"
  BY DEF Types, Reply, Goto
<1>6. UNCHANGED reopened
  BY DEF Reply
<1> QED
  BY <1>4, <1>5, <1>6, CountsType, LimitsAssumption DEF QuotaOK, QuotaHolds

\* A finished run that a worker makes active again.
LEMMA ReopenQuota ==
  ASSUME Types, QuotaOK, NEW n \in DOMAIN runs, RunReopens(n)
  PROVE  QuotaOK'
<1>1. runs \in [1..Len(runs) -> RunRecord]
  BY DEF Types
<1>2. ActiveRuns' = ActiveRuns \cup {n} /\ RunsToday' = RunsToday
  BY <1>1 DEF ActiveRuns, RunsToday, RunReopens, RunRecord
<1>3. n \notin ActiveRuns
  BY DEF ActiveRuns, RunReopens
<1>4. Cardinality(ActiveRuns') = Cardinality(ActiveRuns) + 1
  BY <1>2, <1>3, CountsType, FS_AddElement
<1> QED
  BY <1>2, <1>4, CountsType, LimitsAssumption
     DEF QuotaOK, QuotaHolds, RunReopens, requestVars

\* Every step preserves the quota.
LEMMA QuotaStep == Types /\ QuotaOK /\ [CreationNext]_creationVars => QuotaOK'
<1> SUFFICES ASSUME Types, QuotaOK, [CreationNext]_creationVars PROVE QuotaOK'
  OBVIOUS
<1> USE DEF Goto, requestVars
<1>1. ASSUME NEW c \in Clients, postRun(c) PROVE QuotaOK'
  BY <1>1, SameCounts, FrameQuota DEF postRun, Types
<1>2. ASSUME NEW c \in Clients, selectExisting(c) PROVE QuotaOK'
  BY <1>2, SameCounts, FrameQuota, ReplyQuota DEF selectExisting, Types
<1>3. ASSUME NEW c \in Clients, selectLimits(c) PROVE QuotaOK'
  BY <1>3, SameCounts, FrameQuota DEF selectLimits, Types
<1>4. ASSUME NEW c \in Clients, countUsage(c) PROVE QuotaOK'
  <2>1. CASE Reply(c, "quota")
    BY <2>1, <1>4, ReplyQuota DEF countUsage
  <2>2. CASE ~OverQuota
    BY <2>2, <1>4, SameCounts, CountsType, LimitsAssumption
       DEF countUsage, OverQuota, QuotaOK, QuotaHolds
  <2> QED
    BY <2>1, <2>2, <1>4 DEF countUsage
<1>5. ASSUME NEW c \in Clients, insertRun(c) PROVE QuotaOK'
  BY <1>5, ReplyQuota, InsertQuota DEF insertRun
<1>6. ASSUME NEW c \in Clients, requestFails(c) PROVE QuotaOK'
  BY <1>6, ReplyQuota DEF requestFails
<1>7. ASSUME NEW n \in DOMAIN runs, consumeForRun(n) PROVE QuotaOK'
  BY <1>7, SameCounts, FrameQuota DEF consumeForRun
<1>8. ASSUME NEW n \in DOMAIN runs, RunEnds(n) PROVE QuotaOK'
  <2>1. runs \in [1..Len(runs) -> RunRecord]
    BY DEF Types
  <2>2. ActiveRuns' \subseteq ActiveRuns /\ RunsToday' \subseteq RunsToday
    BY <1>8, <2>1 DEF ActiveRuns, RunsToday, RunEnds, RunRecord
  <2> QED
    BY <2>2, <1>8, FrameQuota DEF RunEnds
<1>9. ASSUME NEW n \in DOMAIN runs, RunReopens(n) PROVE QuotaOK'
  BY <1>9, ReopenQuota
<1>10. ASSUME NEW hd \in Handles, ExpireHandle(hd) PROVE QuotaOK'
  BY <1>10, SameCounts, FrameQuota DEF ExpireHandle
<1>11. CASE NewDay
  <2>1. runs \in [1..Len(runs) -> RunRecord]
    BY DEF Types
  <2>2. ActiveRuns' \subseteq ActiveRuns /\ RunsToday' \subseteq RunsToday
    BY <1>11, <2>1 DEF ActiveRuns, RunsToday, NewDay, RunRecord
  <2> QED
    BY <2>2, <1>11, FrameQuota DEF NewDay
<1>12. CASE Restart
  BY <1>12, SameCounts, FrameQuota DEF Restart
<1>13. CASE UNCHANGED creationVars
  BY <1>13, SameCounts, FrameQuota DEF creationVars
<1> QED
  BY <1>1, <1>2, <1>3, <1>4, <1>5, <1>6, <1>7, <1>8, <1>9, <1>10, <1>11, <1>12, <1>13
     DEF CreationNext

-----------------------------------------------------------------------------
(* The theorems.                                                           *)

CreationInv == Types /\ KeysOK /\ CredentialsOK /\ QuotaOK

\* The first state of the control plane.
LEMMA CreationInitInv == CreationInit => CreationInv
<1> SUFFICES ASSUME CreationInit PROVE CreationInv
  OBVIOUS
<1> USE DEF CreationInit, BrokerInit
<1>1. Types
  BY LimitsAssumption DEF Types
<1>2. KeysOK
  BY DEF KeysOK, OneRunPerKey
<1>3. CredentialsOK
  BY DEF CredentialsOK, BrokerOK, OwnersOK, EntriesOK, CredentialSurvivesReplay
<1>4. ActiveRuns = {} /\ RunsToday = {}
  BY DEF ActiveRuns, RunsToday
<1>5. QuotaOK
  BY <1>4, FS_EmptySet, LimitsAssumption DEF QuotaOK, QuotaHolds
<1> QED
  BY <1>1, <1>2, <1>3, <1>5 DEF CreationInv

\* The four layers together are inductive.
LEMMA CreationInvariance == CreationSpec => []CreationInv
<1>1. CreationInv /\ [CreationNext]_creationVars => CreationInv'
  BY TypesStep, KeysStep, CredentialsStep, QuotaStep DEF CreationInv
<1> QED
  BY <1>1, CreationInitInv, PTL DEF CreationSpec

\* The types of the requests' state, with the lock on tenant_runtime_limits:
\* however many requests run at once, at most one of them is between its
\* select for update and the end of its transaction.
THEOREM CreationTypeCorrect == CreationSpec => []CreationTypeOK
<1>1. CreationInv => CreationTypeOK
  <2> SUFFICES ASSUME Types PROVE CreationTypeOK
    BY DEF CreationInv
  <2>1. lock = {} => Cardinality(lock) <= 1
    BY FS_EmptySet
  <2>2. ASSUME NEW c \in lock PROVE Cardinality(lock) <= 1
    <3>1. lock = {c}
      BY DEF Types
    <3>2. Cardinality({c}) = 1
      BY FS_Singleton, Zenon
    <3> QED
      BY <3>1, <3>2
  <2>3. Cardinality(lock) <= 1
    BY <2>1, <2>2
  <2> QED
    BY <2>3 DEF Types, CreationTypeOK, RunRecord
<1> QED
  BY <1>1, CreationInvariance, PTL

\* Any number of concurrent requests with the same idempotency key create one
\* run: the unique key of the table settles what the first select of createRun
\* cannot see.
THEOREM RunsHaveTheirOwnKeys == CreationSpec => []OneRunPerKey
<1>1. CreationInv => OneRunPerKey
  BY DEF CreationInv, KeysOK
<1> QED
  BY <1>1, CreationInvariance, PTL

\* The quota check of createRun holds for any limits and any number of
\* concurrent requests, up to the finished runs that workers reopen.
THEOREM QuotaIsKept == CreationSpec => []QuotaHolds
<1>1. CreationInv => QuotaHolds
  BY DEF CreationInv, QuotaOK
<1> QED
  BY <1>1, CreationInvariance, PTL

\* A retry that comes after its run was created is never answered 429.
THEOREM RetriesAreAnswered == CreationSpec => []RetryIsAnswered
<1>1. CreationInv => RetryIsAnswered
  BY DEF CreationInv, KeysOK, RetryIsAnswered
<1> QED
  BY <1>1, CreationInvariance, PTL

\* At rest the broker holds credentials of runs and of failed requests only:
\* the handler of POST /v1/runs discards what a replay brought along.
THEOREM ReplaysLeaveNothing == CreationSpec => []BrokerHoldsRunHandles
<1>1. CreationInv => BrokerHoldsRunHandles
  BY HandlesAssumption
     DEF CreationInv, Types, CredentialsOK, OwnersOK, EntriesOK, BrokerHoldsRunHandles
<1> QED
  BY <1>1, CreationInvariance, PTL

\* The credential a run was created with is there for its worker, unless it
\* was taken, expired or was lost with the process.
THEOREM CredentialsAreKept == CreationSpec => []CredentialSurvivesReplay
<1>1. CreationInv => CredentialSurvivesReplay
  BY DEF CreationInv, CredentialsOK
<1> QED
  BY <1>1, CreationInvariance, PTL

\* The broker hands a credential out at most once and not after its time to
\* live, whoever asks, in whatever order.
THEOREM CredentialsAreHandedOnce == CreationSpec => HandedOnceInTime
<1>1. ASSUME CreationInv, [CreationNext]_creationVars
      PROVE  [\A hd \in Handles : handed'[hd] > handed[hd] =>
                handed[hd] = 0 /\ hd \notin expired]_brokerVars
  <2>1. CASE UNCHANGED handed
    BY <2>1, <1>1 DEF CreationInv, Types
  <2>2. ASSUME NEW n \in DOMAIN runs, consumeForRun(n)
        PROVE  \A hd \in Handles : handed'[hd] > handed[hd] =>
                 handed[hd] = 0 /\ hd \notin expired
    BY <1>1, <2>2 DEF CreationInv, Types, CredentialsOK, BrokerOK, consumeForRun, consume, purge
  <2> QED
    BY <1>1, <2>1, <2>2
       DEF CreationNext, creationVars, brokerVars, postRun, issue, selectExisting, selectLimits,
           countUsage, insertRun, requestFails, Reply, RunEnds, RunReopens, ExpireHandle, Expire,
           NewDay, Restart
<1> QED
  BY <1>1, CreationInvariance, PTL DEF CreationSpec, HandedOnceInTime
=============================================================================
