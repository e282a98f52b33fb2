------------------------------ MODULE JobQueue ------------------------------
(***************************************************************************)
(* The table dubbing_jobs of src/database.py used as a leased work queue,  *)
(* the workers of src/workers/job_runner.py that claim, execute, complete  *)
(* and fail its rows, and the sweeps (reclaim_expired_job_leases) that the *)
(* embedded worker, the dashboard and workflow WF06 run.                   *)
(*                                                                         *)
(* Atomicity.  A database method opens one connection and issues a SELECT  *)
(* and then its UPDATEs.  sqlite3 begins a transaction at the first UPDATE *)
(* and PostgreSQL runs READ COMMITTED: neither makes the SELECT and the    *)
(* UPDATE one step, and both evaluate the WHERE of an UPDATE on the row as *)
(* it is then.  So claim_job, fail_job and the sweep are two steps each;   *)
(* a method that is a single UPDATE is one.                                *)
(*                                                                         *)
(* Time.  Every deadline is kept relative to the present: lease[j] is      *)
(* lease_expiry - now, retry_in[j] is next_retry_at - now, and Tick lets   *)
(* one unit pass.  A method compares deadlines with the `now` it read when *)
(* it started; it is at most MaxLag units old when the UPDATE runs.        *)
(***************************************************************************)
EXTENDS Integers, Sequences

CONSTANTS
  Jobs,         \* the idempotency keys, each the key of at most one row
  Workers,      \* worker loops: engine-worker, the embedded one, dashboard requests
  Sweeps,       \* concurrent callers of reclaim_expired_job_leases
  JobTypes,     \* SUPPORTED_JOB_TYPES, in the order process_one_job tries them
  TypeOf,       \* the job_type of each job
  Tokens,       \* values of fencing_token (uuid4), recycled once nobody holds them
  NoToken,      \* NULL
  NoJob,        \* a worker that has selected nothing
  MaxAttempts,  \* max_attempts (3 in enqueue_job)
  Lease,        \* the length of a claimed lease (JOB_LEASE_SECONDS) in ticks
  HeartbeatLease, \* the lease a heartbeat renews to: heartbeat_job's default, 300 s
  RetryDelays,  \* the delays fail_job may choose, in ticks
  MaxLag        \* bound: how old the `now` of a running UPDATE may be

ASSUME ConstantsAssumption ==
  /\ JobTypes \in Seq(STRING) /\ Len(JobTypes) > 0
  /\ TypeOf \in [Jobs -> STRING]
  /\ NoToken \notin Tokens
  /\ NoJob \notin Jobs
  /\ MaxAttempts \in Nat \ {0}
  /\ MaxLag \in Nat
  /\ Lease \in Nat /\ Lease >= MaxLag
  /\ HeartbeatLease \in Nat /\ HeartbeatLease >= MaxLag
  /\ RetryDelays \subseteq Nat \ {0}

VARIABLES
  status,         \* dubbing_jobs.status, "ABSENT" while the row does not exist
  older,          \* the rows with a smaller created_at
  attempt_count,  \* attempt_count, counted up to MaxAttempts + 1
  fencing_token,  \* fencing_token
  lease,          \* lease_expiry - now, kept while the row is PROCESSING
  retry_in,       \* next_retry_at - now, kept while the row is in RETRY_WAIT
  pc,             \* where each worker is
  trying,         \* the index of the job type a worker tries next
  cur,            \* the job a worker selected or executes
  held,           \* the fencing token of the execution
  seen,           \* the attempt_count that fail_job's SELECT returned
  lag,            \* now - the `now` of the running claim_job
  snapshot        \* the rows a sweep's SELECT returned, as <<job, attempt_count>>

rows    == <<status, older, attempt_count, fencing_token, lease, retry_in>>
workers == <<pc, trying, cur, held, seen, lag>>
vars    == <<rows, workers, snapshot>>

Statuses == {"ABSENT", "QUEUED", "PROCESSING", "RETRY_WAIT", "COMPLETED", "DEAD_LETTER"}
Finished == {"COMPLETED", "DEAD_LETTER"}

\* Every comparison with max_attempts tells apart the counts up to one more than it.
AttemptCap == MaxAttempts + 1
NextAttempt(n) == IF n < AttemptCap THEN n + 1 ELSE AttemptCap

\* A lease this far in the past is expired for every `now` still in use.
LongExpired == -(MaxLag + 1)
LongestLease == IF Lease >= HeartbeatLease THEN Lease ELSE HeartbeatLease

\* A worker in the body of _execute_claimed_job, its first heartbeat still to come or not.
Executing == {"claimed", "running", "failing"}

InUse == {fencing_token[j] : j \in Jobs} \cup {held[w] : w \in Workers}

Init ==
  /\ status = [j \in Jobs |-> "ABSENT"]
  /\ older = [j \in Jobs |-> {}]
  /\ attempt_count = [j \in Jobs |-> 0]
  /\ fencing_token = [j \in Jobs |-> NoToken]
  /\ lease = [j \in Jobs |-> 0]
  /\ retry_in = [j \in Jobs |-> 0]
  /\ pc = [w \in Workers |-> "idle"]
  /\ trying = [w \in Workers |-> 1]
  /\ cur = [w \in Workers |-> NoJob]
  /\ held = [w \in Workers |-> NoToken]
  /\ seen = [w \in Workers |-> 0]
  /\ lag = [w \in Workers |-> 0]
  /\ snapshot = [s \in Sweeps |-> {}]

-----------------------------------------------------------------------------
(* Producers.                                                              *)

\* enqueue_job: the first call with an idempotency key inserts the row.  Any other
\* call, one that lost the race to the UNIQUE constraint included, changes nothing.
Enqueue(j) ==
  /\ status[j] = "ABSENT"
  /\ status' = [status EXCEPT ![j] = "QUEUED"]
  /\ older' = [older EXCEPT ![j] = {k \in Jobs : status[k] # "ABSENT"}]
  /\ UNCHANGED <<attempt_count, fencing_token, lease, retry_in, workers, snapshot>>

-----------------------------------------------------------------------------
(* Workers.                                                                *)

\* The worker is back in its polling loop, with nothing in hand.
Release(w) ==
  /\ pc' = [pc EXCEPT ![w] = "idle"]
  /\ trying' = [trying EXCEPT ![w] = 1]
  /\ cur' = [cur EXCEPT ![w] = NoJob]
  /\ held' = [held EXCEPT ![w] = NoToken]
  /\ seen' = [seen EXCEPT ![w] = 0]
  /\ lag' = [lag EXCEPT ![w] = 0]

\* Mutant of Claimable: rows waiting for a retry are not selected.
MutantNoRetry(j) == status[j] = "QUEUED" \/ (status[j] = "PROCESSING" /\ lease[j] < 0)

\* The WHERE of claim_job's SELECT, at the `now` it has just read.
Claimable(j) ==
  \/ status[j] = "QUEUED"
  \/ status[j] = "RETRY_WAIT" /\ retry_in[j] <= 0
  \/ status[j] = "PROCESSING" /\ lease[j] < 0

ClaimableOfType(t) == {j \in Jobs : TypeOf[j] = t /\ Claimable(j)}

\* claim_job's SELECT for the type the worker tries now: the oldest claimable row,
\* or on to the next type; after the last one process_one_job returns False.
ClaimSelect(w) ==
  LET candidates == ClaimableOfType(JobTypes[trying[w]])
  IN  /\ pc[w] = "idle"
      /\ \/ /\ candidates = {}
            /\ trying' = [trying EXCEPT ![w] = IF trying[w] < Len(JobTypes)
                                               THEN trying[w] + 1 ELSE 1]
            /\ UNCHANGED <<pc, cur>>
         \/ \E j \in candidates :
              /\ older[j] \cap candidates = {}
              /\ cur' = [cur EXCEPT ![w] = j]
              /\ pc' = [pc EXCEPT ![w] = "claiming"]
              /\ UNCHANGED trying
      /\ UNCHANGED <<rows, held, seen, lag, snapshot>>

\* Mutants of ClaimMatches: the UPDATE names the row by id alone; it takes a row in
\* PROCESSING whether or not its lease has expired.
MutantClaimById(j, n) == TRUE
MutantClaimLive(j, n) == status[j] \in {"QUEUED", "RETRY_WAIT", "PROCESSING"}

\* The WHERE of claim_job's UPDATE, at a `now` that is n units old.
ClaimMatches(j, n) ==
  \/ status[j] \in {"QUEUED", "RETRY_WAIT"}
  \/ status[j] = "PROCESSING" /\ lease[j] + n < 0

\* Mutant of NewTokens: a row that carries a token keeps it when it is claimed again.
MutantKeptToken(w) == IF fencing_token[cur[w]] = NoToken THEN Tokens \ InUse
                      ELSE {fencing_token[cur[w]]}

\* The token of a new claim: uuid4, so different from every one still around.
NewTokens(w) == Tokens \ InUse

\* claim_job's UPDATE.  Whether it matched the row is not looked at: the caller
\* gets the job and the new token in either case and goes on to execute it.
ClaimUpdate(w) ==
  /\ pc[w] = "claiming"
  /\ \E t \in NewTokens(w) :
       /\ held' = [held EXCEPT ![w] = t]
       /\ \/ /\ ClaimMatches(cur[w], lag[w])
             /\ status' = [status EXCEPT ![cur[w]] = "PROCESSING"]
             /\ fencing_token' = [fencing_token EXCEPT ![cur[w]] = t]
             /\ attempt_count' = [attempt_count EXCEPT ![cur[w]] = NextAttempt(@)]
             /\ lease' = [lease EXCEPT ![cur[w]] = Lease - lag[w]]
             /\ retry_in' = [retry_in EXCEPT ![cur[w]] = 0]
             /\ UNCHANGED older
          \/ /\ ~ClaimMatches(cur[w], lag[w])
             /\ UNCHANGED rows
  /\ pc' = [pc EXCEPT ![w] = "claimed"]
  /\ lag' = [lag EXCEPT ![w] = 0]
  /\ UNCHANGED <<trying, cur, seen, snapshot>>

\* The WHERE shared by heartbeat_job, complete_job and fail_job: the token matches.
HoldsToken(w) == held[w] = fencing_token[cur[w]]

\* Mutant of Renewed: the lease is lengthened instead of started anew.
MutantLengthened(j, n) == lease[j] + HeartbeatLease - n

\* The lease_expiry that heartbeat_job sets, computed n units ago.  No caller passes
\* JOB_LEASE_SECONDS to it.
Renewed(j, n) == HeartbeatLease - n

\* heartbeat_job, first called before the handler and then from inside it.  It
\* renews an expired lease too, and a call that matches no row is not noticed.
Heartbeat(w) ==
  /\ pc[w] \in {"claimed", "running"}
  /\ pc' = [pc EXCEPT ![w] = "running"]
  /\ \/ /\ HoldsToken(w) /\ status[cur[w]] = "PROCESSING"
        /\ \E n \in 0..MaxLag : lease' = [lease EXCEPT ![cur[w]] = Renewed(cur[w], n)]
     \/ /\ ~(HoldsToken(w) /\ status[cur[w]] = "PROCESSING")
        /\ UNCHANGED lease
  /\ UNCHANGED <<status, older, attempt_count, fencing_token, retry_in,
                 trying, cur, held, seen, lag, snapshot>>

\* Mutant of CompleteMatches: the token is not compared.
MutantCompleteAny(w, n) == status[cur[w]] = "PROCESSING" /\ lease[cur[w]] + n >= 0

\* The WHERE of complete_job's UPDATE, at a `now` that is n units old.
CompleteMatches(w, n) ==
  /\ HoldsToken(w)
  /\ status[cur[w]] = "PROCESSING"
  /\ lease[cur[w]] + n >= 0

\* The handler returned: complete_job, at a `now` up to MaxLag units old.  If no row
\* matches, the worker logs "completion rejected" and goes on to the next job.
Complete(w) ==
  /\ pc[w] = "running"
  /\ \E n \in 0..MaxLag :
       \/ /\ CompleteMatches(w, n)
          /\ status' = [status EXCEPT ![cur[w]] = "COMPLETED"]
          /\ lease' = [lease EXCEPT ![cur[w]] = 0]
       \/ ~CompleteMatches(w, n) /\ UNCHANGED <<status, lease>>
  /\ Release(w)
  /\ UNCHANGED <<older, attempt_count, fencing_token, retry_in, snapshot>>

\* The handler, or a database call around it, raised: fail_job's SELECT.  It returns
\* no row to a stale token, and fail_job then gives up.
FailSelect(w) ==
  /\ pc[w] \in {"claimed", "running"}
  /\ \/ /\ HoldsToken(w)
        /\ pc' = [pc EXCEPT ![w] = "failing"]
        /\ seen' = [seen EXCEPT ![w] = attempt_count[cur[w]]]
        /\ UNCHANGED <<trying, cur, held, lag>>
     \/ ~HoldsToken(w) /\ Release(w)
  /\ UNCHANGED <<rows, snapshot>>

\* fail_job's UPDATE, by id and token only: RETRY_WAIT, or DEAD_LETTER when the
\* attempts its SELECT returned are used up.
FailUpdate(w) ==
  LET j == cur[w]
  IN  /\ pc[w] = "failing"
      /\ \/ /\ HoldsToken(w) /\ seen[w] >= MaxAttempts
            /\ status' = [status EXCEPT ![j] = "DEAD_LETTER"]
            /\ lease' = [lease EXCEPT ![j] = 0]
            /\ UNCHANGED retry_in
         \/ /\ HoldsToken(w) /\ seen[w] < MaxAttempts
            /\ status' = [status EXCEPT ![j] = "RETRY_WAIT"]
            /\ lease' = [lease EXCEPT ![j] = 0]
            /\ \E d \in RetryDelays : retry_in' = [retry_in EXCEPT ![j] = d]
         \/ ~HoldsToken(w) /\ UNCHANGED <<status, lease, retry_in>>
      /\ Release(w)
      /\ UNCHANGED <<older, attempt_count, fencing_token, snapshot>>

\* The process dies or is restarted: what the worker had in memory is lost.
Crash(w) ==
  /\ pc[w] # "idle"
  /\ Release(w)
  /\ UNCHANGED <<rows, snapshot>>

-----------------------------------------------------------------------------
(* Sweeps.                                                                 *)

\* The WHERE of the sweep's SELECT.
Expired(j) == status[j] = "PROCESSING" /\ lease[j] < 0

\* reclaim_expired_job_leases: its SELECT.
SweepSelect(s) ==
  /\ snapshot[s] = {}
  /\ \E j \in Jobs : Expired(j)
  /\ snapshot' = [snapshot EXCEPT
                   ![s] = {<<j, attempt_count[j]>> : j \in {k \in Jobs : Expired(k)}}]
  /\ UNCHANGED <<rows, workers>>

Swept(s) == {p[1] : p \in snapshot[s]}

\* Mutant of UsedUp: the attempt that the lease ran out on is counted twice.
MutantUsedUpEarly(s) == {p[1] : p \in {q \in snapshot[s] : q[2] + 1 >= MaxAttempts}}

\* The swept rows that go to DEAD_LETTER instead of back to the queue.
UsedUp(s) == {p[1] : p \in {q \in snapshot[s] : q[2] >= MaxAttempts}}

\* reclaim_expired_job_leases: its UPDATEs, one transaction.  Each names the row by
\* id alone, whatever has become of it since the SELECT.
SweepUpdate(s) ==
  /\ snapshot[s] # {}
  /\ status' = [j \in Jobs |-> IF j \notin Swept(s) THEN status[j]
                               ELSE IF j \in UsedUp(s) THEN "DEAD_LETTER" ELSE "QUEUED"]
  /\ fencing_token' = [j \in Jobs |-> IF j \in Swept(s) \ UsedUp(s)
                                      THEN NoToken ELSE fencing_token[j]]
  /\ lease' = [j \in Jobs |-> IF j \in Swept(s) THEN 0 ELSE lease[j]]
  /\ retry_in' = [j \in Jobs |-> IF j \in Swept(s) THEN 0 ELSE retry_in[j]]
  /\ snapshot' = [snapshot EXCEPT ![s] = {}]
  /\ UNCHANGED <<older, attempt_count, workers>>

-----------------------------------------------------------------------------
(* Time.                                                                   *)

\* One unit of time passes, unless a claim_job would then be older than MaxLag.
Tick ==
  /\ \A w \in Workers : pc[w] = "claiming" => lag[w] < MaxLag
  /\ lease' = [j \in Jobs |-> IF status[j] = "PROCESSING" /\ lease[j] > LongExpired
                              THEN lease[j] - 1 ELSE lease[j]]
  /\ retry_in' = [j \in Jobs |-> IF retry_in[j] > 0 THEN retry_in[j] - 1 ELSE 0]
  /\ lag' = [w \in Workers |-> IF pc[w] = "claiming" THEN lag[w] + 1 ELSE lag[w]]
  /\ UNCHANGED <<status, older, attempt_count, fencing_token,
                 pc, trying, cur, held, seen, snapshot>>

WorkerStep(w) ==
  \/ ClaimSelect(w) \/ ClaimUpdate(w)
  \/ Heartbeat(w) \/ Complete(w) \/ FailSelect(w) \/ FailUpdate(w)

SweepStep(s) == SweepSelect(s) \/ SweepUpdate(s)

Next ==
  \/ \E j \in Jobs : Enqueue(j)
  \/ \E w \in Workers : WorkerStep(w) \/ Crash(w)
  \/ \E s \in Sweeps : SweepStep(s)
  \/ Tick

Spec == Init /\ [][Next]_vars

\* Fairness the code justifies.  A worker loop always takes its next step, and a
\* handler does not heartbeat for ever: its loops run over the finitely many segments
\* of a lesson or chunks of a file.  server.py repeats the sweep.  Nothing obliges a
\* producer to enqueue or a process to crash.
Fairness ==
  /\ \A w \in Workers :
       /\ WF_vars(ClaimSelect(w) \/ ClaimUpdate(w) \/ FailUpdate(w))
       /\ WF_vars(pc[w] = "claimed" /\ Heartbeat(w))
       /\ WF_vars(Complete(w) \/ FailSelect(w))
  /\ \A s \in Sweeps : WF_vars(SweepStep(s))
  /\ WF_vars(Tick)

FairSpec == Spec /\ Fairness
-----------------------------------------------------------------------------
(* Properties.                                                             *)

\* The types of the columns of dubbing_jobs, and of what workers and sweeps remember.
RowsOK ==
  /\ status \in [Jobs -> Statuses]
  /\ older \in [Jobs -> SUBSET Jobs]
  /\ attempt_count \in [Jobs -> 0..AttemptCap]
  /\ fencing_token \in [Jobs -> Tokens \cup {NoToken}]
  /\ lease \in [Jobs -> LongExpired..LongestLease]
  /\ retry_in \in [Jobs -> Nat]

WorkersOK ==
  /\ pc \in [Workers -> {"idle", "claiming"} \cup Executing]
  /\ trying \in [Workers -> 1..Len(JobTypes)]
  /\ cur \in [Workers -> Jobs \cup {NoJob}]
  /\ held \in [Workers -> Tokens \cup {NoToken}]
  /\ seen \in [Workers -> 0..AttemptCap]
  /\ lag \in [Workers -> 0..MaxLag]
  /\ \A w \in Workers : pc[w] # "idle" => cur[w] \in Jobs

SweepsOK == snapshot \in [Sweeps -> SUBSET (Jobs \X (0..AttemptCap))]

\* Type invariant.
TypeOK == RowsOK /\ WorkersOK /\ SweepsOK

\* Worker w executes job j and the row still carries the token of that execution: the
\* only executions whose heartbeat, completion or failure the database will accept.
Entitled(w, j) ==
  pc[w] \in Executing /\ cur[w] = j /\ held[w] = fencing_token[j]

\* However many workers came to execute one job (lost claims, expired leases, sweeps),
\* the database accepts the writes of at most one of them.
OneEntitledWorker ==
  \A w1, w2 \in Workers : \A j \in Jobs :
    Entitled(w1, j) /\ Entitled(w2, j) => w1 = w2

\* While the entitled worker executes a job, the row is PROCESSING, unless a sweep gave
\* it up to DEAD_LETTER: it is never back in the queue, waiting for a retry or COMPLETED
\* under the feet of a worker that can still write to it.  fail_job relies on this: its
\* UPDATE looks at the token and not at the status.
EntitledWorkerHoldsRow ==
  \A w \in Workers : \A j \in Jobs :
    Entitled(w, j) => status[j] \in {"PROCESSING", "DEAD_LETTER"}

\* A job is given up only when its attempts are used up, although both places that give
\* it up decide from an attempt_count they read in an earlier step.
DeadLetterOnlyWhenUsedUp ==
  \A j \in Jobs : status[j] = "DEAD_LETTER" => attempt_count[j] >= MaxAttempts

\* A sweep between its SELECT and its UPDATEs has j among the rows to reclaim.
SweepPending(j) == \E s \in Sweeps : j \in Swept(s)

\* A COMPLETED or dead-lettered job stays so, unless a sweep selected it while it was
\* PROCESSING and is yet to run its UPDATEs: no worker, however late, reopens it.
FinishedReopenedOnlyBySweep ==
  [][\A j \in Jobs : status[j] \in Finished /\ status'[j] # status[j]
                        => SweepPending(j)]_vars

\* A worker loses a job under an unexpired lease to nobody but such a sweep: a claim
\* that selected the row while the lease was expired does not take it once a heartbeat
\* has renewed the lease.
LiveLeaseLostOnlyToSweep ==
  [][\A j \in Jobs :
       (status[j] = "PROCESSING" /\ lease[j] >= 0 /\ fencing_token'[j] # fencing_token[j])
         => SweepPending(j)]_vars

\* A worker process dies in the middle of something.
CrashStep == \E w \in Workers : Crash(w)

\* A lease runs out under the worker that is entitled to the job: the handler took
\* longer than JOB_LEASE_SECONDS between two heartbeats.
OverrunStep ==
  \E w \in Workers : \E j \in Jobs :
    Entitled(w, j) /\ status[j] = "PROCESSING" /\ lease[j] >= 0 /\ lease'[j] < 0

\* If from some moment on no worker crashes and no handler outlives its lease, every
\* job that was ever enqueued is in the end COMPLETED or DEAD_LETTER and stays so:
\* rows orphaned by earlier crashes, lost claims and sweeps that reopen finished jobs
\* included.
EveryJobFinishes ==
  (<>[][~CrashStep /\ ~OverrunStep]_vars)
    => \A j \in Jobs : []<>(status[j] # "ABSENT") => <>[](status[j] \in Finished)

\* The statement of test_full_suite.py: a second worker must not be able to claim an
\* actively leased job.  So claim_job never hands a worker a row that another worker
\* holds under an unexpired lease.
ActiveLeaseNotClaimed ==
  [][\A w \in Workers : pc[w] = "claiming" /\ pc'[w] = "claimed"
        => ~(status[cur[w]] = "PROCESSING" /\ lease[cur[w]] >= 0)]_vars
=============================================================================
