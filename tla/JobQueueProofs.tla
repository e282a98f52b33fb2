--------------------------- MODULE JobQueueProofs ---------------------------
(***************************************************************************)
(* Theorems about JobQueue, for any number of jobs, workers and sweeps and *)
(* any lengths of leases and delays.                                       *)
(***************************************************************************)
EXTENDS JobQueue, TLAPS

\* What the proofs use of the constants.
LEMMA Constants ==
  /\ Len(JobTypes) \in Nat /\ Len(JobTypes) >= 1
  /\ NoToken \notin Tokens
  /\ MaxAttempts \in Nat /\ MaxAttempts >= 1
  /\ MaxLag \in Nat /\ Lease \in Nat /\ Lease >= MaxLag
  /\ HeartbeatLease \in Nat /\ HeartbeatLease >= MaxLag
  /\ RetryDelays \subseteq Nat
  /\ AttemptCap \in Nat /\ AttemptCap >= 1
  /\ LongExpired \in Int /\ LongExpired < 0
  /\ LongestLease \in Nat /\ LongestLease >= Lease /\ LongestLease >= HeartbeatLease
  /\ 0 \in LongExpired..LongestLease
BY ConstantsAssumption DEF ConstantsAssumption, AttemptCap, LongExpired, LongestLease

-----------------------------------------------------------------------------
(* Type correctness, action by action.                                     *)

\* What Release leaves of a worker is well typed.
LEMMA ReleaseType ==
  ASSUME NEW w \in Workers, WorkersOK, Release(w)
  PROVE  WorkersOK'
BY Constants DEF WorkersOK, Release, Executing

\* Enqueue keeps every variable in its type.
LEMMA EnqueueType ==
  ASSUME NEW j \in Jobs, TypeOK, Enqueue(j)
  PROVE  TypeOK'
BY DEF TypeOK, RowsOK, WorkersOK, SweepsOK, Enqueue, workers, Statuses

\* ClaimSelect keeps every variable in its type.
LEMMA ClaimSelectType ==
  ASSUME NEW w \in Workers, TypeOK, ClaimSelect(w)
  PROVE  TypeOK'
<1>1. RowsOK' /\ SweepsOK'
      BY DEF TypeOK, RowsOK, SweepsOK, ClaimSelect, rows
<1>2. \/ /\ trying' = [trying EXCEPT ![w] = IF trying[w] < Len(JobTypes)
                                           THEN trying[w] + 1 ELSE 1]
         /\ UNCHANGED <<pc, cur>>
      \/ \E j \in Jobs : /\ cur' = [cur EXCEPT ![w] = j]
                        /\ pc' = [pc EXCEPT ![w] = "claiming"]
                        /\ UNCHANGED trying
      BY DEF ClaimSelect, ClaimableOfType
<1>3. UNCHANGED <<held, seen, lag>>
      BY DEF ClaimSelect
<1>4. trying' \in [Workers -> 1..Len(JobTypes)]
  <2>1. trying[w] \in 1..Len(JobTypes)
        BY DEF TypeOK, WorkersOK
  <2>2. (IF trying[w] < Len(JobTypes) THEN trying[w] + 1 ELSE 1) \in 1..Len(JobTypes)
        BY <2>1, Constants
  <2>3. QED BY <1>2, <2>2 DEF TypeOK, WorkersOK
<1>5. /\ pc' \in [Workers -> {"idle", "claiming"} \cup Executing]
      /\ cur' \in [Workers -> Jobs \cup {NoJob}]
      /\ \A v \in Workers : pc'[v] # "idle" => cur'[v] \in Jobs
      BY <1>2 DEF TypeOK, WorkersOK
<1>6. QED BY <1>1, <1>3, <1>4, <1>5 DEF TypeOK, WorkersOK

\* ClaimUpdate keeps every variable in its type.
LEMMA ClaimUpdateType ==
  ASSUME NEW w \in Workers, TypeOK, ClaimUpdate(w)
  PROVE  TypeOK'
<1>1. /\ cur[w] \in Jobs /\ lag[w] \in 0..MaxLag
      BY DEF TypeOK, WorkersOK, ClaimUpdate
<1>2. PICK t \in Tokens :
         /\ held' = [held EXCEPT ![w] = t]
         /\ \/ /\ status' = [status EXCEPT ![cur[w]] = "PROCESSING"]
               /\ fencing_token' = [fencing_token EXCEPT ![cur[w]] = t]
               /\ attempt_count' = [attempt_count EXCEPT ![cur[w]] = NextAttempt(@)]
               /\ lease' = [lease EXCEPT ![cur[w]] = Lease - lag[w]]
               /\ retry_in' = [retry_in EXCEPT ![cur[w]] = 0]
               /\ UNCHANGED older
            \/ UNCHANGED rows
      BY DEF ClaimUpdate, NewTokens
<1>3. \A n \in 0..AttemptCap : NextAttempt(n) \in 0..AttemptCap
      BY Constants DEF NextAttempt
<1>4. Lease - lag[w] \in LongExpired..LongestLease
      BY <1>1, Constants
<1>5. RowsOK'
      BY <1>1, <1>2, <1>3, <1>4 DEF TypeOK, RowsOK, rows, Statuses
<1>6. WorkersOK'
      BY <1>1, <1>2, Constants DEF TypeOK, WorkersOK, ClaimUpdate, Executing
<1>7. QED BY <1>5, <1>6 DEF TypeOK, SweepsOK, ClaimUpdate

\* Heartbeat keeps every variable in its type.
LEMMA HeartbeatType ==
  ASSUME NEW w \in Workers, TypeOK, Heartbeat(w)
  PROVE  TypeOK'
<1>1. \/ \E n \in 0..MaxLag : lease' = [lease EXCEPT ![cur[w]] = HeartbeatLease - n]
      \/ UNCHANGED lease
      BY DEF Heartbeat, Renewed
<1>2. \A n \in 0..MaxLag : HeartbeatLease - n \in LongExpired..LongestLease
      BY Constants
<1>3. lease' \in [Jobs -> LongExpired..LongestLease]
      BY <1>1, <1>2 DEF TypeOK, RowsOK
<1>4. RowsOK' /\ SweepsOK'
      BY <1>3 DEF TypeOK, RowsOK, SweepsOK, Heartbeat
<1>5. WorkersOK'
      BY DEF TypeOK, WorkersOK, Heartbeat, Executing
<1>6. QED BY <1>4, <1>5 DEF TypeOK

\* Complete keeps every variable in its type.
LEMMA CompleteType ==
  ASSUME NEW w \in Workers, TypeOK, Complete(w)
  PROVE  TypeOK'
<1>1. /\ status' = [status EXCEPT ![cur[w]] = "COMPLETED"] \/ UNCHANGED status
      /\ lease' = [lease EXCEPT ![cur[w]] = 0] \/ UNCHANGED lease
      BY DEF Complete
<1>2. status' \in [Jobs -> Statuses]
      BY <1>1 DEF TypeOK, RowsOK, Statuses
<1>3. lease' \in [Jobs -> LongExpired..LongestLease]
      BY <1>1, Constants DEF TypeOK, RowsOK
<1>4. RowsOK' /\ SweepsOK'
      BY <1>2, <1>3 DEF TypeOK, RowsOK, SweepsOK, Complete
<1>5. QED BY <1>4, ReleaseType DEF TypeOK, Complete

\* FailSelect keeps every variable in its type.
LEMMA FailSelectType ==
  ASSUME NEW w \in Workers, TypeOK, FailSelect(w)
  PROVE  TypeOK'
<1>1. RowsOK' /\ SweepsOK'
      BY DEF TypeOK, RowsOK, SweepsOK, FailSelect, rows
<1>2. CASE Release(w)
      BY <1>1, <1>2, ReleaseType DEF TypeOK
<1>3. CASE ~Release(w)
  <2>1. /\ pc[w] \in {"claimed", "running"}
        /\ pc' = [pc EXCEPT ![w] = "failing"]
        /\ seen' = [seen EXCEPT ![w] = attempt_count[cur[w]]]
        /\ UNCHANGED <<trying, cur, held, lag>>
        BY <1>3 DEF FailSelect
  <2>2. cur[w] \in Jobs /\ attempt_count[cur[w]] \in 0..AttemptCap
        BY <2>1 DEF TypeOK, WorkersOK, RowsOK
  <2>3. WorkersOK'
        BY <2>1, <2>2 DEF TypeOK, WorkersOK, Executing
  <2>4. QED BY <1>1, <2>3 DEF TypeOK
<1>4. QED BY <1>2, <1>3

\* FailUpdate keeps every variable in its type.
LEMMA FailUpdateType ==
  ASSUME NEW w \in Workers, TypeOK, FailUpdate(w)
  PROVE  TypeOK'
<1>1. /\ \/ status' = [status EXCEPT ![cur[w]] = "DEAD_LETTER"]
         \/ status' = [status EXCEPT ![cur[w]] = "RETRY_WAIT"]
         \/ UNCHANGED status
      /\ lease' = [lease EXCEPT ![cur[w]] = 0] \/ UNCHANGED lease
      /\ \/ \E d \in RetryDelays : retry_in' = [retry_in EXCEPT ![cur[w]] = d]
         \/ UNCHANGED retry_in
      BY DEF FailUpdate
<1>2. status' \in [Jobs -> Statuses]
      BY <1>1 DEF TypeOK, RowsOK, Statuses
<1>3. lease' \in [Jobs -> LongExpired..LongestLease]
      BY <1>1, Constants DEF TypeOK, RowsOK
<1>4. retry_in' \in [Jobs -> Nat]
      BY <1>1, Constants DEF TypeOK, RowsOK
<1>5. RowsOK' /\ SweepsOK'
      BY <1>2, <1>3, <1>4 DEF TypeOK, RowsOK, SweepsOK, FailUpdate
<1>6. QED BY <1>5, ReleaseType DEF TypeOK, FailUpdate

\* Crash keeps every variable in its type.
LEMMA CrashType ==
  ASSUME NEW w \in Workers, TypeOK, Crash(w)
  PROVE  TypeOK'
<1>1. RowsOK' /\ SweepsOK'
      BY DEF TypeOK, RowsOK, SweepsOK, Crash, rows
<1>2. QED BY <1>1, ReleaseType DEF TypeOK, Crash

\* SweepSelect keeps every variable in its type.
LEMMA SweepSelectType ==
  ASSUME NEW s \in Sweeps, TypeOK, SweepSelect(s)
  PROVE  TypeOK'
<1>1. {<<j, attempt_count[j]>> : j \in {k \in Jobs : Expired(k)}}
        \in SUBSET (Jobs \X (0..AttemptCap))
      BY DEF TypeOK, RowsOK
<1>2. QED BY <1>1 DEF TypeOK, RowsOK, WorkersOK, SweepsOK, SweepSelect, rows, workers

\* SweepUpdate keeps every variable in its type.
LEMMA SweepUpdateType ==
  ASSUME NEW s \in Sweeps, TypeOK, SweepUpdate(s)
  PROVE  TypeOK'
<1>1. RowsOK'
      BY Constants DEF TypeOK, RowsOK, SweepUpdate, Statuses
<1>2. QED BY <1>1 DEF TypeOK, WorkersOK, SweepsOK, SweepUpdate, workers

\* Tick keeps every variable in its type.
LEMMA TickType ==
  ASSUME TypeOK, Tick
  PROVE  TypeOK'
<1>1. RowsOK'
      BY Constants DEF TypeOK, RowsOK, Tick
<1>2. lag' \in [Workers -> 0..MaxLag]
      BY Constants DEF TypeOK, WorkersOK, Tick
<1>3. QED BY <1>1, <1>2 DEF TypeOK, WorkersOK, SweepsOK, Tick

\* Every step keeps every variable in its type.
LEMMA TypeStep == TypeOK /\ [Next]_vars => TypeOK'
<1>1. ASSUME TypeOK, UNCHANGED vars PROVE TypeOK'
      BY <1>1 DEF TypeOK, RowsOK, WorkersOK, SweepsOK, vars, rows, workers
<1>2. QED BY <1>1, EnqueueType, ClaimSelectType, ClaimUpdateType, HeartbeatType,
             CompleteType, FailSelectType, FailUpdateType, CrashType,
             SweepSelectType, SweepUpdateType, TickType
          DEF Next, WorkerStep, SweepStep

\* Every reachable state is well typed: attempts, leases and ages stay in the ranges
\* that the code's comparisons tell apart.
THEOREM TypeCorrect == Spec => []TypeOK
<1>1. Init => TypeOK
      BY Constants DEF Init, TypeOK, RowsOK, WorkersOK, SweepsOK, Statuses, Executing
<1>2. QED BY <1>1, TypeStep, PTL DEF Spec

-----------------------------------------------------------------------------
(* Fencing.                                                                *)

\* An execution has a token, a worker outside of one has none, and no two executions
\* have the same.
TokensApart ==
  /\ \A w \in Workers : pc[w] \in Executing <=> held[w] \in Tokens
  /\ \A v, w \in Workers : v # w /\ held[v] = held[w] => held[v] = NoToken

\* What was read in an earlier step and is still acted upon: the attempts in a sweep's
\* snapshot are no more than those of the row, and those that fail_job saw are those of
\* the row as long as its token still matches.
ReadsBounded ==
  /\ \A s \in Sweeps : \A p \in snapshot[s] : p[2] <= attempt_count[p[1]]
  /\ \A w \in Workers : pc[w] = "failing" /\ HoldsToken(w)
                          => seen[w] = attempt_count[cur[w]]

FencingInv ==
  TokensApart /\ ReadsBounded /\ EntitledWorkerHoldsRow /\ DeadLetterOnlyWhenUsedUp

\* Back in the polling loop a worker has no token; the tokens of the others stay apart,
\* and nobody becomes entitled to anything.
LEMMA ReleaseFencing ==
  ASSUME NEW w \in Workers, TypeOK, TokensApart, Release(w)
  PROVE  /\ TokensApart'
         /\ \A v \in Workers \ {w} : /\ pc'[v] = pc[v] /\ cur'[v] = cur[v]
                                     /\ held'[v] = held[v] /\ seen'[v] = seen[v]
         /\ pc'[w] = "idle"
BY Constants DEF TypeOK, WorkersOK, TokensApart, Release, Executing

\* FencingInv holds at the start: nobody executes anything.
LEMMA FencingInit == Init => FencingInv
BY Constants
DEF Init, FencingInv, TokensApart, ReadsBounded, EntitledWorkerHoldsRow,
    DeadLetterOnlyWhenUsedUp, Entitled, Executing, HoldsToken

\* Enqueue preserves FencingInv.
LEMMA EnqueueFencing ==
  ASSUME NEW j \in Jobs, TypeOK, FencingInv, Enqueue(j)
  PROVE  FencingInv'
<1>1. TokensApart' /\ ReadsBounded'
      BY DEF FencingInv, TokensApart, ReadsBounded, HoldsToken, Enqueue, workers
<1>2. ASSUME NEW w \in Workers, NEW k \in Jobs, Entitled(w, k)'
      PROVE  status'[k] \in {"PROCESSING", "DEAD_LETTER"}
      BY <1>2 DEF FencingInv, EntitledWorkerHoldsRow, Entitled, Enqueue, workers,
                  TypeOK, RowsOK
<1>3. DeadLetterOnlyWhenUsedUp'
      BY DEF FencingInv, DeadLetterOnlyWhenUsedUp, Enqueue, TypeOK, RowsOK
<1>4. QED BY <1>1, <1>2, <1>3 DEF FencingInv, EntitledWorkerHoldsRow

\* Steps that leave the rows' status, token and attempts alone, and the entitlements.
LEMMA ClaimSelectFencing ==
  ASSUME NEW w \in Workers, TypeOK, FencingInv, ClaimSelect(w)
  PROVE  FencingInv'
<1>1. /\ pc[w] = "idle" /\ pc'[w] \in {"idle", "claiming"}
      /\ \A v \in Workers \ {w} : pc'[v] = pc[v] /\ cur'[v] = cur[v]
      /\ UNCHANGED <<rows, held, seen, snapshot>>
      BY DEF ClaimSelect, TypeOK, WorkersOK
<1>2. TokensApart'
      BY <1>1 DEF FencingInv, TokensApart, Executing
<1>3. ReadsBounded'
      BY <1>1 DEF FencingInv, ReadsBounded, HoldsToken, rows
<1>4. EntitledWorkerHoldsRow'
      BY <1>1 DEF FencingInv, EntitledWorkerHoldsRow, Entitled, Executing, rows
<1>5. QED BY <1>1, <1>2, <1>3, <1>4 DEF FencingInv, DeadLetterOnlyWhenUsedUp, rows

\* The new token is nobody's, so a claim that wins ends the entitlement of every other
\* worker on the row and starts the claimer's; one that loses entitles nobody.
LEMMA ClaimUpdateFencing ==
  ASSUME NEW w \in Workers, TypeOK, FencingInv, ClaimUpdate(w)
  PROVE  FencingInv'
<1>1. /\ pc[w] = "claiming" /\ cur[w] \in Jobs
      /\ pc' = [pc EXCEPT ![w] = "claimed"]
      /\ UNCHANGED <<cur, seen, snapshot>>
      BY DEF ClaimUpdate, TypeOK, WorkersOK
<1>2. PICK t \in Tokens \ InUse :
         /\ held' = [held EXCEPT ![w] = t]
         /\ \/ /\ status' = [status EXCEPT ![cur[w]] = "PROCESSING"]
               /\ fencing_token' = [fencing_token EXCEPT ![cur[w]] = t]
               /\ attempt_count' = [attempt_count EXCEPT ![cur[w]] = NextAttempt(@)]
            \/ UNCHANGED <<status, fencing_token, attempt_count>>
      BY DEF ClaimUpdate, NewTokens, rows
<1>3. /\ \A j \in Jobs : fencing_token[j] # t
      /\ \A v \in Workers : held[v] # t
      BY <1>2 DEF InUse
<1>4. \A j \in Jobs : attempt_count'[j] \in Nat /\ attempt_count[j] <= attempt_count'[j]
  <2>1. \A n \in 0..AttemptCap : NextAttempt(n) \in Nat /\ n <= NextAttempt(n)
        BY Constants DEF NextAttempt
  <2>2. \A j \in Jobs : attempt_count[j] \in 0..AttemptCap
        BY DEF TypeOK, RowsOK
  <2>3. \A j \in Jobs : attempt_count'[j] \in {attempt_count[j], NextAttempt(attempt_count[j])}
        BY <1>1, <1>2 DEF TypeOK, RowsOK
  <2>4. QED BY <2>1, <2>2, <2>3, Constants
<1>5. TokensApart'
      BY <1>1, <1>2, <1>3, Constants
      DEF FencingInv, TokensApart, Executing, TypeOK, WorkersOK
<1>6. ReadsBounded'
  <2>1. ASSUME NEW s \in Sweeps, NEW p \in snapshot[s]
        PROVE  p[2] <= attempt_count'[p[1]]
    <3>1. p \in Jobs \X (0..AttemptCap)
          BY DEF TypeOK, SweepsOK
    <3>2. p[1] \in Jobs /\ p[2] \in Nat /\ attempt_count[p[1]] \in Nat
          BY <3>1, Constants DEF TypeOK, RowsOK
    <3>3. p[2] <= attempt_count[p[1]]
          BY DEF FencingInv, ReadsBounded
    <3>4. QED BY <1>4, <3>2, <3>3
  <2>2. ASSUME NEW v \in Workers, pc'[v] = "failing", HoldsToken(v)'
        PROVE  seen'[v] = attempt_count'[cur'[v]]
    <3>1. v # w /\ pc[v] = "failing" /\ held'[v] = held[v] /\ cur[v] \in Jobs
          BY <1>1, <1>2, <2>2 DEF TypeOK, WorkersOK
    <3>2. held[v] = fencing_token'[cur[v]]
          BY <1>1, <2>2, <3>1 DEF HoldsToken
    <3>3. fencing_token'[cur[v]] # t
          BY <1>3, <3>2
    <3>4. /\ fencing_token'[cur[v]] = fencing_token[cur[v]]
          /\ attempt_count'[cur[v]] = attempt_count[cur[v]]
          BY <1>1, <1>2, <3>1, <3>3 DEF TypeOK, RowsOK
    <3>5. QED BY <1>1, <3>1, <3>2, <3>4 DEF FencingInv, ReadsBounded, HoldsToken
  <2>3. QED BY <1>1, <2>1, <2>2 DEF ReadsBounded
<1>7. ASSUME NEW v \in Workers, NEW j \in Jobs, Entitled(v, j)'
      PROVE  status'[j] \in {"PROCESSING", "DEAD_LETTER"}
  <2>1. CASE v = w
        BY <1>1, <1>2, <1>3, <1>7, <2>1 DEF Entitled, TypeOK, RowsOK, WorkersOK
  <2>2. CASE v # w
    <3>1. pc[v] \in Executing /\ cur[v] = j /\ held[v] = fencing_token'[j]
          BY <1>1, <1>2, <1>7, <2>2 DEF Entitled, TypeOK, WorkersOK
    <3>2. fencing_token'[j] # t
          BY <1>3, <3>1
    <3>3. fencing_token'[j] = fencing_token[j] /\ status'[j] = status[j]
          BY <1>1, <1>2, <3>2 DEF TypeOK, RowsOK
    <3>4. QED BY <3>1, <3>3 DEF FencingInv, EntitledWorkerHoldsRow, Entitled
  <2>3. QED BY <2>1, <2>2
<1>8. DeadLetterOnlyWhenUsedUp'
      BY <1>1, <1>2, <1>4, Constants
      DEF FencingInv, DeadLetterOnlyWhenUsedUp, TypeOK, RowsOK
<1>9. QED BY <1>5, <1>6, <1>7, <1>8 DEF FencingInv, EntitledWorkerHoldsRow

\* Heartbeat preserves FencingInv.
LEMMA HeartbeatFencing ==
  ASSUME NEW w \in Workers, TypeOK, FencingInv, Heartbeat(w)
  PROVE  FencingInv'
<1>1. /\ pc[w] \in Executing
      /\ pc' = [pc EXCEPT ![w] = "running"]
      /\ UNCHANGED <<status, fencing_token, attempt_count, cur, held, seen, snapshot>>
      BY DEF Heartbeat, Executing
<1>2. TokensApart' /\ ReadsBounded' /\ EntitledWorkerHoldsRow'
      BY <1>1 DEF FencingInv, TokensApart, ReadsBounded, EntitledWorkerHoldsRow,
                  Entitled, HoldsToken, Executing, TypeOK, WorkersOK
<1>3. QED BY <1>1, <1>2 DEF FencingInv, DeadLetterOnlyWhenUsedUp

\* The row of a job whose worker has just let go of it: whatever status the last write of
\* that worker gave it, nobody else is entitled to it.
LEMMA LastWriteFencing ==
  ASSUME NEW w \in Workers, TypeOK, FencingInv, pc[w] \in Executing, Release(w),
         NEW st \in Statuses,
         \/ HoldsToken(w) /\ status' = [status EXCEPT ![cur[w]] = st]
         \/ UNCHANGED status,
         UNCHANGED <<fencing_token, attempt_count, snapshot>>
  PROVE  TokensApart' /\ ReadsBounded' /\ EntitledWorkerHoldsRow'
<1>1. /\ TokensApart'
      /\ \A v \in Workers \ {w} : /\ pc'[v] = pc[v] /\ cur'[v] = cur[v]
                                  /\ held'[v] = held[v] /\ seen'[v] = seen[v]
      /\ pc'[w] = "idle"
      BY ReleaseFencing DEF FencingInv
<1>2. ReadsBounded'
      BY <1>1 DEF FencingInv, ReadsBounded, HoldsToken
<1>3. ASSUME NEW v \in Workers, NEW j \in Jobs, Entitled(v, j)'
      PROVE  status'[j] \in {"PROCESSING", "DEAD_LETTER"}
  <2>1. v # w /\ Entitled(v, j)
        BY <1>1, <1>3 DEF Entitled, Executing
  <2>2. status[j] \in {"PROCESSING", "DEAD_LETTER"}
        BY <2>1 DEF FencingInv, EntitledWorkerHoldsRow
  <2>3. CASE HoldsToken(w) /\ cur[w] = j
    <3>1. held[v] = held[w] /\ held[w] \in Tokens
          BY <2>1, <2>3 DEF Entitled, HoldsToken, FencingInv, TokensApart
    <3>2. QED BY <2>1, <3>1, Constants DEF FencingInv, TokensApart
  <2>4. CASE ~(HoldsToken(w) /\ cur[w] = j)
        BY <2>2, <2>4 DEF TypeOK, RowsOK
  <2>5. QED BY <2>3, <2>4
<1>4. QED BY <1>1, <1>2, <1>3 DEF EntitledWorkerHoldsRow

\* Complete preserves FencingInv.
LEMMA CompleteFencing ==
  ASSUME NEW w \in Workers, TypeOK, FencingInv, Complete(w)
  PROVE  FencingInv'
<1>1. /\ pc[w] \in Executing /\ Release(w)
      /\ UNCHANGED <<fencing_token, attempt_count, snapshot>>
      BY DEF Complete, Executing
<1>2. \/ HoldsToken(w) /\ status' = [status EXCEPT ![cur[w]] = "COMPLETED"]
      \/ UNCHANGED status
      BY DEF Complete, CompleteMatches
<1>3. TokensApart' /\ ReadsBounded' /\ EntitledWorkerHoldsRow'
      BY <1>1, <1>2, LastWriteFencing DEF Statuses
<1>4. DeadLetterOnlyWhenUsedUp'
      BY <1>1, <1>2 DEF FencingInv, DeadLetterOnlyWhenUsedUp, TypeOK, RowsOK
<1>5. QED BY <1>3, <1>4 DEF FencingInv

\* FailSelect preserves FencingInv.
LEMMA FailSelectFencing ==
  ASSUME NEW w \in Workers, TypeOK, FencingInv, FailSelect(w)
  PROVE  FencingInv'
<1>1. /\ pc[w] \in Executing
      /\ UNCHANGED <<status, fencing_token, attempt_count, snapshot>>
      BY DEF FailSelect, Executing, rows
<1>2. DeadLetterOnlyWhenUsedUp'
      BY <1>1 DEF FencingInv, DeadLetterOnlyWhenUsedUp
<1>3. CASE Release(w)
      BY <1>1, <1>2, <1>3, LastWriteFencing DEF FencingInv, Statuses
<1>4. CASE ~Release(w)
  <2>1. /\ pc' = [pc EXCEPT ![w] = "failing"]
        /\ seen' = [seen EXCEPT ![w] = attempt_count[cur[w]]]
        /\ UNCHANGED <<cur, held>>
        BY <1>4 DEF FailSelect
  <2>2. TokensApart' /\ ReadsBounded' /\ EntitledWorkerHoldsRow'
        BY <1>1, <2>1 DEF FencingInv, TokensApart, ReadsBounded, EntitledWorkerHoldsRow,
                          Entitled, HoldsToken, Executing, TypeOK, WorkersOK
  <2>3. QED BY <1>2, <2>2 DEF FencingInv
<1>5. QED BY <1>3, <1>4

\* What fail_job decided from is still the row's attempt_count when its UPDATE matches.
LEMMA FailUpdateFencing ==
  ASSUME NEW w \in Workers, TypeOK, FencingInv, FailUpdate(w)
  PROVE  FencingInv'
<1>1. /\ pc[w] = "failing" /\ pc[w] \in Executing /\ Release(w)
      /\ UNCHANGED <<fencing_token, attempt_count, snapshot>>
      BY DEF FailUpdate, Executing
<1>2. \/ /\ HoldsToken(w) /\ seen[w] >= MaxAttempts
         /\ status' = [status EXCEPT ![cur[w]] = "DEAD_LETTER"]
      \/ HoldsToken(w) /\ status' = [status EXCEPT ![cur[w]] = "RETRY_WAIT"]
      \/ UNCHANGED status
      BY DEF FailUpdate
<1>3. TokensApart' /\ ReadsBounded' /\ EntitledWorkerHoldsRow'
      BY <1>1, <1>2, LastWriteFencing DEF Statuses
<1>4. HoldsToken(w) => seen[w] = attempt_count[cur[w]]
      BY <1>1 DEF FencingInv, ReadsBounded
<1>5. DeadLetterOnlyWhenUsedUp'
      BY <1>1, <1>2, <1>4 DEF FencingInv, DeadLetterOnlyWhenUsedUp, TypeOK, RowsOK
<1>6. QED BY <1>3, <1>5 DEF FencingInv

\* Crash preserves FencingInv.
LEMMA CrashFencing ==
  ASSUME NEW w \in Workers, TypeOK, FencingInv, Crash(w)
  PROVE  FencingInv'
<1>1. /\ TokensApart' /\ pc'[w] = "idle"
      /\ \A v \in Workers \ {w} : /\ pc'[v] = pc[v] /\ cur'[v] = cur[v]
                                  /\ held'[v] = held[v] /\ seen'[v] = seen[v]
      /\ UNCHANGED <<status, fencing_token, attempt_count, snapshot>>
      BY ReleaseFencing DEF FencingInv, Crash, rows
<1>2. ReadsBounded' /\ EntitledWorkerHoldsRow'
      BY <1>1 DEF FencingInv, ReadsBounded, EntitledWorkerHoldsRow, Entitled,
                  HoldsToken, Executing
<1>3. QED BY <1>1, <1>2 DEF FencingInv, DeadLetterOnlyWhenUsedUp

\* SweepSelect preserves FencingInv.
LEMMA SweepSelectFencing ==
  ASSUME NEW s \in Sweeps, TypeOK, FencingInv, SweepSelect(s)
  PROVE  FencingInv'
<1>1. /\ snapshot' = [snapshot EXCEPT
                        ![s] = {<<j, attempt_count[j]>> : j \in {k \in Jobs : Expired(k)}}]
      /\ UNCHANGED <<rows, workers>>
      BY DEF SweepSelect
<1>2. ASSUME NEW r \in Sweeps, NEW p \in snapshot'[r]
      PROVE  p[2] <= attempt_count'[p[1]]
  <2>1. CASE r = s
    <3>1. PICK j \in Jobs : p = <<j, attempt_count[j]>>
          BY <1>1, <1>2, <2>1 DEF TypeOK, SweepsOK
    <3>2. QED BY <1>1, <3>1, Constants DEF rows, TypeOK, RowsOK
  <2>2. CASE r # s
        BY <1>1, <1>2, <2>2 DEF rows, FencingInv, ReadsBounded, TypeOK, SweepsOK
  <2>3. QED BY <2>1, <2>2
<1>3. TokensApart' /\ EntitledWorkerHoldsRow' /\ DeadLetterOnlyWhenUsedUp'
      BY <1>1 DEF FencingInv, TokensApart, EntitledWorkerHoldsRow, Entitled,
                  DeadLetterOnlyWhenUsedUp, rows, workers
<1>4. ReadsBounded'
      BY <1>1, <1>2 DEF FencingInv, ReadsBounded, HoldsToken, rows, workers
<1>5. QED BY <1>3, <1>4 DEF FencingInv

\* A sweep gives up only rows whose attempts were used up when it looked, and takes the
\* token off every other row it touches: nobody stays entitled to a requeued job.
LEMMA SweepUpdateFencing ==
  ASSUME NEW s \in Sweeps, TypeOK, FencingInv, SweepUpdate(s)
  PROVE  FencingInv'
<1>1. /\ status' = [j \in Jobs |-> IF j \notin Swept(s) THEN status[j]
                                   ELSE IF j \in UsedUp(s) THEN "DEAD_LETTER" ELSE "QUEUED"]
      /\ fencing_token' = [j \in Jobs |-> IF j \in Swept(s) \ UsedUp(s)
                                          THEN NoToken ELSE fencing_token[j]]
      /\ snapshot' = [snapshot EXCEPT ![s] = {}]
      /\ UNCHANGED <<attempt_count, pc, cur, held, seen>>
      BY DEF SweepUpdate, workers
<1>2. TokensApart'
      BY <1>1 DEF FencingInv, TokensApart
<1>3. ReadsBounded'
  <2>1. ASSUME NEW r \in Sweeps, NEW p \in snapshot'[r]
        PROVE  p[2] <= attempt_count'[p[1]]
        BY <1>1, <2>1 DEF FencingInv, ReadsBounded, TypeOK, SweepsOK
  <2>2. ASSUME NEW w \in Workers, pc'[w] = "failing", HoldsToken(w)'
        PROVE  seen'[w] = attempt_count'[cur'[w]]
    <3>1. pc[w] = "failing" /\ cur[w] \in Jobs /\ held[w] \in Tokens
          BY <1>1, <2>2 DEF TypeOK, WorkersOK, FencingInv, TokensApart, Executing
    <3>2. held[w] = fencing_token[cur[w]]
          BY <1>1, <2>2, <3>1, Constants DEF HoldsToken
    <3>3. QED BY <1>1, <3>1, <3>2 DEF FencingInv, ReadsBounded, HoldsToken
  <2>3. QED BY <2>1, <2>2 DEF ReadsBounded
<1>4. ASSUME NEW w \in Workers, NEW j \in Jobs, Entitled(w, j)'
      PROVE  status'[j] \in {"PROCESSING", "DEAD_LETTER"}
  <2>1. held[w] \in Tokens /\ held[w] = fencing_token'[j]
        BY <1>1, <1>4 DEF Entitled, FencingInv, TokensApart
  <2>2. j \notin Swept(s) \ UsedUp(s) /\ fencing_token'[j] = fencing_token[j]
        BY <1>1, <2>1, Constants
  <2>3. Entitled(w, j)
        BY <1>1, <1>4, <2>2 DEF Entitled
  <2>4. QED BY <1>1, <2>2, <2>3 DEF FencingInv, EntitledWorkerHoldsRow
<1>5. ASSUME NEW j \in Jobs, status'[j] = "DEAD_LETTER"
      PROVE  attempt_count'[j] >= MaxAttempts
  <2>1. CASE j \in UsedUp(s)
    <3>1. PICK q \in snapshot[s] : q[1] = j /\ q[2] >= MaxAttempts
          BY <2>1 DEF UsedUp
    <3>2. q \in Jobs \X (0..AttemptCap) /\ q[2] <= attempt_count[j]
          BY <3>1 DEF FencingInv, ReadsBounded, TypeOK, SweepsOK
    <3>3. QED BY <1>1, <3>1, <3>2, Constants DEF TypeOK, RowsOK
  <2>2. CASE j \notin UsedUp(s)
        BY <1>1, <1>5, <2>2 DEF FencingInv, DeadLetterOnlyWhenUsedUp
  <2>3. QED BY <2>1, <2>2
<1>6. QED BY <1>2, <1>3, <1>4, <1>5
          DEF FencingInv, EntitledWorkerHoldsRow, DeadLetterOnlyWhenUsedUp

\* Every step preserves FencingInv.
LEMMA FencingStep == TypeOK /\ FencingInv /\ [Next]_vars => FencingInv'
<1>1. ASSUME FencingInv,
             UNCHANGED <<status, fencing_token, attempt_count, pc, cur, held, seen, snapshot>>
      PROVE  FencingInv'
      BY <1>1 DEF FencingInv, TokensApart, ReadsBounded, EntitledWorkerHoldsRow,
                  Entitled, DeadLetterOnlyWhenUsedUp, HoldsToken
<1>2. ASSUME FencingInv, Tick \/ UNCHANGED vars PROVE FencingInv'
      BY <1>1, <1>2 DEF Tick, vars, rows, workers
<1>3. QED BY <1>2, EnqueueFencing, ClaimSelectFencing, ClaimUpdateFencing,
             HeartbeatFencing, CompleteFencing, FailSelectFencing, FailUpdateFencing,
             CrashFencing, SweepSelectFencing, SweepUpdateFencing
          DEF Next, WorkerStep, SweepStep

\* FencingInv is an invariant: it is inductive together with the types.
THEOREM FencingCorrect == Spec => []FencingInv
<1>1. TypeOK /\ FencingInv /\ [Next]_vars => FencingInv' BY FencingStep
<1>2. QED BY <1>1, TypeCorrect, FencingInit, PTL DEF Spec

\* However many workers execute a job, the database accepts the writes of at most one.
THEOREM AtMostOneEntitled == Spec => []OneEntitledWorker
<1>1. FencingInv => OneEntitledWorker
  <2>1. SUFFICES ASSUME FencingInv, NEW v \in Workers, NEW w \in Workers, NEW j \in Jobs,
                        Entitled(v, j), Entitled(w, j)
                 PROVE  v = w
        BY DEF OneEntitledWorker
  <2>2. held[v] = held[w] /\ held[v] \in Tokens
        BY <2>1 DEF Entitled, FencingInv, TokensApart
  <2>3. QED BY <2>1, <2>2, Constants DEF FencingInv, TokensApart
<1>2. QED BY <1>1, FencingCorrect, PTL

\* The row of an entitled worker is PROCESSING or was given up by a sweep.
THEOREM EntitledHoldsRow == Spec => []EntitledWorkerHoldsRow
<1>1. FencingInv => EntitledWorkerHoldsRow BY DEF FencingInv
<1>2. QED BY <1>1, FencingCorrect, PTL

\* No job is given up before its attempts are used up.
THEOREM NoEarlyDeadLetter == Spec => []DeadLetterOnlyWhenUsedUp
<1>1. FencingInv => DeadLetterOnlyWhenUsedUp BY DEF FencingInv
<1>2. QED BY <1>1, FencingCorrect, PTL

-----------------------------------------------------------------------------
(* What a step may not do to a row.                                        *)

\* Who can change the status of a finished job.  fail_job could, by its token alone, but
\* the row of a worker that may still fail is not COMPLETED, and a row given up by a
\* sweep has used up the attempts that worker saw.
LEMMA FinishedStep ==
  ASSUME TypeOK, FencingInv, [Next]_vars, NEW j \in Jobs,
         status[j] \in Finished, status'[j] # status[j]
  PROVE  SweepPending(j)
<1>1. ASSUME NEW k \in Jobs, Enqueue(k) PROVE FALSE
      BY <1>1 DEF Enqueue, Finished, TypeOK, RowsOK
<1>2. ASSUME NEW w \in Workers, ClaimUpdate(w) PROVE FALSE
  <2>1. cur[w] = j /\ ClaimMatches(j, lag[w])
        BY <1>2 DEF ClaimUpdate, TypeOK, RowsOK, rows
  <2>2. QED BY <2>1 DEF ClaimMatches, Finished
<1>3. ASSUME NEW w \in Workers, Complete(w) PROVE FALSE
  <2>1. status[cur[w]] = "PROCESSING" /\ cur[w] = j
        BY <1>3 DEF Complete, CompleteMatches, TypeOK, RowsOK
  <2>2. QED BY <2>1 DEF Finished
<1>4. ASSUME NEW w \in Workers, FailUpdate(w) PROVE FALSE
  <2>1. /\ pc[w] = "failing" /\ cur[w] = j /\ HoldsToken(w)
        /\ \/ status' = [status EXCEPT ![cur[w]] = "DEAD_LETTER"]
           \/ seen[w] < MaxAttempts
        BY <1>4 DEF FailUpdate, TypeOK, RowsOK
  <2>2. status[j] = "DEAD_LETTER"
        BY <2>1 DEF FencingInv, EntitledWorkerHoldsRow, Entitled, Executing, HoldsToken,
                    Finished
  <2>3. seen[w] >= MaxAttempts /\ seen[w] \in Nat
        BY <2>1, <2>2, Constants
        DEF FencingInv, ReadsBounded, DeadLetterOnlyWhenUsedUp, TypeOK, RowsOK
  <2>4. QED BY <2>1, <2>2, <2>3, Constants DEF TypeOK, RowsOK
<1>5. ASSUME NEW s \in Sweeps, SweepUpdate(s) PROVE j \in Swept(s)
      BY <1>5 DEF SweepUpdate
<1>6. ASSUME UNCHANGED status PROVE FALSE
      BY <1>6
<1>7. QED BY <1>1, <1>2, <1>3, <1>4, <1>5, <1>6
          DEF Next, WorkerStep, SweepStep, SweepPending, vars, rows, ClaimSelect,
              Heartbeat, FailSelect, Crash, SweepSelect, Tick

\* A finished job is reopened by nobody but a sweep that selected it before.
THEOREM FinishedStaysFinished == Spec => FinishedReopenedOnlyBySweep
<1>1. TypeOK /\ FencingInv /\ [Next]_vars
        => [\A j \in Jobs : status[j] \in Finished /\ status'[j] # status[j]
                             => SweepPending(j)]_vars
      BY FinishedStep
<1>2. QED BY <1>1, TypeCorrect, FencingCorrect, PTL
          DEF Spec, FinishedReopenedOnlyBySweep

\* Who can take away a token under an unexpired lease.  claim_job's UPDATE cannot: a
\* lease that is expired at an earlier `now` is expired.
LEMMA LiveLeaseStep ==
  ASSUME TypeOK, FencingInv, [Next]_vars, NEW j \in Jobs,
         status[j] = "PROCESSING", lease[j] >= 0,
         fencing_token'[j] # fencing_token[j]
  PROVE  SweepPending(j)
<1>1. ASSUME NEW w \in Workers, ClaimUpdate(w) PROVE FALSE
  <2>1. cur[w] = j /\ ClaimMatches(j, lag[w])
        BY <1>1 DEF ClaimUpdate, TypeOK, RowsOK, rows
  <2>2. lag[w] \in Nat /\ lease[j] \in Int
        BY Constants DEF TypeOK, WorkersOK, RowsOK
  <2>3. QED BY <2>1, <2>2 DEF ClaimMatches
<1>2. ASSUME NEW s \in Sweeps, SweepUpdate(s) PROVE j \in Swept(s)
      BY <1>2 DEF SweepUpdate
<1>3. ASSUME UNCHANGED fencing_token PROVE FALSE
      BY <1>3
<1>4. QED BY <1>1, <1>2, <1>3
          DEF Next, WorkerStep, SweepStep, SweepPending, vars, rows, Enqueue, ClaimSelect,
              Heartbeat, Complete, FailSelect, FailUpdate, Crash, SweepSelect, Tick

\* A worker loses a job under an unexpired lease to nobody but such a sweep.
THEOREM LiveLeaseKept == Spec => LiveLeaseLostOnlyToSweep
<1>1. TypeOK /\ FencingInv /\ [Next]_vars
        => [\A j \in Jobs :
              (status[j] = "PROCESSING" /\ lease[j] >= 0 /\ fencing_token'[j] # fencing_token[j])
                => SweepPending(j)]_vars
      BY LiveLeaseStep
<1>2. QED BY <1>1, TypeCorrect, FencingCorrect, PTL
          DEF Spec, LiveLeaseLostOnlyToSweep
=============================================================================
