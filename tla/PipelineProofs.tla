--------------------------- MODULE PipelineProofs ---------------------------
(***************************************************************************)
(* Theorems about Pipeline, for any number of workers, lessons, parts and  *)
(* videos, any number of attempts and any number of disturbances.          *)
(***************************************************************************)
EXTENDS Pipeline, FiniteSetTheorems, NaturalsInduction, WellFoundedInduction, TLAPS

\* What a worker has in hand, and where: a job that was enqueued, of a lesson where its
\* handler is about one, and the file it has sent before it verifies the upload.
InHand(w) ==
  /\ pc[w] # "idle" => work[w] \in Jobs /\ jobs[work[w]] # "ABSENT"
  /\ pc[w] \in {"dub", "judge", "pass", "reject", "upload"}
       => work[w] \in {"DUBBING", "DUB"} \X Lessons
  /\ pc[w] \in {"send", "verify", "last"} => work[w] \in {"UPLOAD"} \X Lessons
  /\ pc[w] = "verify" => mine[w] \in Qualities

\* Only a lease that was taken can run out, and only a row that is there be swept.
LeasesOK ==
  /\ \A j \in lapsed : jobs[j] = "PROCESSING"
  /\ \A s \in Sweeps : \A p \in swept[s] : jobs[p[1]] # "ABSENT"

\* The types, with what they rest on.
PipelineOK == TypeOK /\ LeasesOK /\ (\A w \in Workers : InHand(w))

\* No job's row is deleted.
JobsStay == \A j \in Jobs : jobs[j] # "ABSENT" => jobs'[j] # "ABSENT"

\* A step that may enqueue a job, but no UPLOAD.
EnqueuesOther ==
  \/ UNCHANGED jobs
  \/ \E ks : Enqueue(ks) /\ \A l \in Lessons : <<"UPLOAD", l>> \notin ks

\* The steps of a handler at which it is not about its lesson any more.
Plain == {"idle", "failing", "done", "locate", "discover", "download", "mark", "chain",
          "direct", "extract", "extracted", "insert", "enqueue", "list", "review"}

\* What the proofs use of the jobs and the agents.
LEMMA Constants ==
  /\ \A l \in Lessons : \A k \in LessonKinds : <<k, l>> \in Jobs
  /\ NoJob \notin Jobs
  /\ \A w \in Workers : w \in Agents /\ w # WF04
  /\ WF04 \in Agents
  /\ Agents = Workers \cup {WF04}
BY ConstantsAssumption, NoJobAssumption
   DEF ConstantsAssumption, NoJobAssumption, Jobs, Agents

-----------------------------------------------------------------------------
(* What each kind of step does to the variables it is not about.           *)

\* The TRANSFER handler.
LEMMA TransferFrame ==
  ASSUME NEW w \in Workers, TransferStep(w)
  PROVE  /\ EnqueuesOther
         /\ \E p \in {"download", "failing", "discover", "chain", "mark", "done", "direct"} :
              Go(w, p)
         /\ pc[w] \notin {"idle", "claiming"}
         /\ UNCHANGED <<attempts, holder, lapsed, swept, extracted, report, passed, dubbed,
                        stored, release, work, mine, todo, seen, outside, bounds>>
<1>1. ASSUME LocateVideo(w) \/ LocatePart(w) \/ DiscoverPart(w) \/ Download(w) \/ MarkPart(w)
             \/ StoreVideo(w)
      PROVE  /\ UNCHANGED jobs
             /\ \E p \in {"download", "failing", "discover", "chain", "mark", "done", "direct"} :
                  Go(w, p)
             /\ pc[w] \notin {"idle", "claiming"}
             /\ UNCHANGED <<attempts, holder, lapsed, swept, extracted, report, passed, dubbed,
                            stored, release, work, mine, todo, seen, outside, bounds>>
      BY <1>1 DEF LocateVideo, LocatePart, DiscoverPart, Download, MarkPart, StoreVideo, At, Go,
         queue, archive, lessons, release, scratch, outside, bounds
<1>2. ASSUME ChainTransfer(w) \/ EnqueueDirect(w)
      PROVE  /\ \E ks : Enqueue(ks) /\ \A l \in Lessons : <<"UPLOAD", l>> \notin ks
             /\ Go(w, "done")
             /\ pc[w] \notin {"idle", "claiming"}
             /\ UNCHANGED <<attempts, holder, lapsed, swept, extracted, report, passed, dubbed,
                            stored, release, work, mine, todo, seen, outside, bounds>>
  <2>1. Enqueue({NextJob}) \/ Enqueue({<<"DUBBING", Lesson(w)>>})
        BY <1>2 DEF ChainTransfer, EnqueueDirect
  <2>2. \A l \in Lessons : <<"UPLOAD", l>> \notin {NextJob}
        BY DEF NextJob, CourseJob
  <2>3. \A l \in Lessons : <<"UPLOAD", l>> \notin {<<"DUBBING", Lesson(w)>>}
        OBVIOUS
  <2>4. QED BY <1>2, <2>1, <2>2, <2>3 DEF ChainTransfer, EnqueueDirect, At, archive, lessons,
            scratch
<1>3. QED BY <1>1, <1>2 DEF TransferStep, EnqueuesOther

\* The EXTRACTION and INVENTORY handlers.
LEMMA ArchiveFrame ==
  ASSUME NEW w \in Workers, ArchiveStep(w)
  PROVE  /\ EnqueuesOther
         /\ \E p \in {"extracted", "failing", "done", "enqueue"} : Go(w, p)
         /\ pc[w] \notin {"idle", "claiming"}
         /\ course' = course \/ course' = "EXTRACTED"
         /\ UNCHANGED <<attempts, holder, lapsed, swept, files, parts, report, passed, dubbed,
                        stored, releases, work, part, mine, seen, outside, bounds>>
<1>1. ASSUME Extract(w) \/ InsertLessons(w)
      PROVE  /\ UNCHANGED jobs
             /\ \E p \in {"extracted", "failing", "done", "enqueue"} : Go(w, p)
             /\ pc[w] \notin {"idle", "claiming"}
             /\ course' = course \/ course' = "EXTRACTED"
             /\ UNCHANGED <<attempts, holder, lapsed, swept, files, parts, report, passed, dubbed,
                            stored, releases, work, part, mine, seen, outside, bounds>>
      BY <1>1 DEF Extract, InsertLessons, At, Go, queue, archive, lessons, release, scratch,
         outside, bounds
<1>2. ASSUME ChainExtraction(w) \/ EnqueueDubbing(w)
      PROVE  /\ \E ks : Enqueue(ks) /\ \A l \in Lessons : <<"UPLOAD", l>> \notin ks
             /\ \E p \in {"extracted", "failing", "done", "enqueue"} : Go(w, p)
             /\ pc[w] \notin {"idle", "claiming"}
             /\ UNCHANGED course
             /\ UNCHANGED <<attempts, holder, lapsed, swept, files, parts, report, passed, dubbed,
                            stored, releases, work, part, mine, seen, outside, bounds>>
  <2>1. Enqueue({CourseJob("INVENTORY")}) \/ \E l \in todo[w] : Enqueue({<<"DUBBING", l>>})
        BY <1>2 DEF ChainExtraction, EnqueueDubbing
  <2>2. \A l \in Lessons : <<"UPLOAD", l>> \notin {CourseJob("INVENTORY")}
        BY DEF CourseJob
  <2>3. \A k : \A l \in Lessons : <<"UPLOAD", l>> \notin {<<"DUBBING", k>>}
        OBVIOUS
  <2>4. \E ks : Enqueue(ks) /\ \A l \in Lessons : <<"UPLOAD", l>> \notin ks
        BY <2>1, <2>2, <2>3
  <2>5. QED BY <1>2, <2>4 DEF ChainExtraction, EnqueueDubbing, At, Go, archive, lessons, release,
            scratch
<1>3. QED BY <1>1, <1>2 DEF ArchiveStep, EnqueuesOther

\* The DUBBING handler.
LEMMA DubbingFrame ==
  ASSUME NEW w \in Workers, DubbingStep(w)
  PROVE  /\ UNCHANGED jobs \/ (EnqueueUpload(w) /\ Enqueue({<<"UPLOAD", Lesson(w)>>}))
         /\ UNCHANGED <<attempts, holder, lapsed, swept, archive, source, stored, release, work,
                        part, todo, seen, outside, bounds>>
         /\ pc[w] \notin {"idle", "claiming"}
BY DEF DubbingStep, Dub, Judge, MarkVerdict, EnqueueUpload, At, queue, archive, lessons, scratch

\* The UPLOAD handler.
LEMMA UploadFrame ==
  ASSUME NEW w \in Workers, UploadStep(w)
  PROVE  /\ EnqueuesOther
         /\ UNCHANGED <<attempts, holder, lapsed, swept, archive, source, report, passed, dubbed,
                        release, work, part, todo, seen, outside, bounds>>
         /\ pc[w] \notin {"idle", "claiming"}
<1>1. ASSUME Send(w) \/ VerifyStorage(w)
      PROVE  UNCHANGED jobs
      BY <1>1 DEF Send, VerifyStorage, queue
<1>2. ASSUME ChainUpload(w)
      PROVE  \E ks : Enqueue(ks) /\ \A l \in Lessons : <<"UPLOAD", l>> \notin ks
  <2>1. \A l \in Lessons :
          <<"UPLOAD", l>> \notin (IF AllUploaded THEN {CourseJob("FINALIZE")} ELSE {})
        BY DEF CourseJob
  <2>2. QED BY <1>2, <2>1 DEF ChainUpload
<1>3. QED BY <1>1, <1>2 DEF UploadStep, Send, VerifyStorage, ChainUpload, EnqueuesOther, At,
          queue, archive, lessons, scratch

\* The FINALIZE handler's last steps.
LEMMA FinalizeFrame ==
  ASSUME NEW w \in Workers, FinalizeStep(w)
  PROVE  /\ UNCHANGED <<queue, archive, lessons, work, scratch, outside, bounds>>
         /\ pc[w] \notin {"idle", "claiming"}
         /\ \E p \in {"done", "ready"} : Go(w, p)
BY DEF FinalizeStep, NeedsReview, InsertRelease, MarkReady, At, Go

\* The completeness check, of a worker or of WF04.
LEMMA CheckFrame ==
  ASSUME NEW a \in Agents, CheckStep(a)
  PROVE  /\ UNCHANGED <<queue, archive, lessons, release, work, part, mine, outside, bounds>>
         /\ pc[a] \in {"list", "check"}
         /\ \E p \in {"review", "check", "publish"} : Go(a, p)
BY DEF CheckStep, ListLessons, CheckLesson, At, Go

\* A step of claim_job.
Claims(w) == (\E j \in Jobs : ClaimSelect(w, j)) \/ ClaimUpdate(w)

\* What a worker does with its job as a whole: claims it, keeps it, leaves it, or fails.
JobStep(w) ==
  \/ Claims(w) \/ Renew(w) \/ Complete(w) \/ FailJob(w)
  \/ HandlerFails(w) \/ WorkerDies(w)

\* Such a step touches nothing the handlers write.
LEMMA JobFrame ==
  ASSUME NEW w \in Workers, JobStep(w)
  PROVE  UNCHANGED <<archive, lessons, release, outside>>
BY DEF JobStep, Claims, ClaimSelect, ClaimUpdate, Renew, Complete, FailJob, HandlerFails,
   WorkerDies

\* A step in the table of jobs that no worker takes.
RowStep ==
  \/ \E s \in Sweeps : SweepSelect(s) \/ SweepUpdate(s)
  \/ \E j \in Jobs : LeaseLapses(j)

\* Such a step touches nothing else.
LEMMA RowFrame ==
  ASSUME RowStep
  PROVE  UNCHANGED <<attempts, archive, lessons, release, workers, outside, faults, contests>>
BY DEF RowStep, SweepSelect, SweepUpdate, LeaseLapses, bounds

\* A step of the API's callers, their completeness check apart.
CallStep ==
  \/ \E l \in Lessons : \/ DubLesson(l) \/ PollEnds(l) \/ MarkReview(l)
                        \/ Override(l) \/ OverrideMarks(l) \/ OverrideEnqueues(l)
  \/ Finalize \/ FinalizeEnds \/ EmitReady

\* Such a step enqueues at most a job of a lesson.
LEMMA CallFrame ==
  ASSUME CallStep
  PROVE  /\ \/ EnqueuesOther
            \/ \E l \in Lessons : OverrideEnqueues(l) /\ Enqueue({<<"UPLOAD", l>>})
         /\ UNCHANGED <<attempts, holder, lapsed, swept, archive, source, dubbed, stored, work,
                        part, mine, todo, seen, bounds>>
         /\ UNCHANGED pc \/ Go(WF04, "list") \/ Go(WF04, "idle")
<1>1. ASSUME NEW l \in Lessons, DubLesson(l)
      PROVE  EnqueuesOther
  <2>1. \A k \in Lessons : <<"UPLOAD", k>> \notin {<<"DUB", l>>}
        OBVIOUS
  <2>2. QED BY <1>1, <2>1 DEF DubLesson, EnqueuesOther
<1>2. QED BY <1>1 DEF CallStep, DubLesson, PollEnds, MarkReview, Override, OverrideMarks,
          OverrideEnqueues, Finalize, FinalizeEnds, EmitReady, EnqueuesOther, Recorded, queue,
          archive, lessons, release, workers, scratch, outside

\* Every step is one of these.
LEMMA Kinds ==
  ASSUME [Next]_vars
  PROVE  \/ \E w \in Workers :
              \/ JobStep(w) \/ TransferStep(w) \/ ArchiveStep(w) \/ DubbingStep(w)
              \/ UploadStep(w) \/ FinalizeStep(w) \/ ExtractionTimesOut(w) \/ SynthesisFails(w)
         \/ \E a \in Agents : CheckStep(a)
         \/ RowStep
         \/ CallStep
         \/ UNCHANGED vars
BY Constants DEF Next, WorkerStep, Fault, Call, JobStep, Claims, RowStep, CallStep

-----------------------------------------------------------------------------
(* Type correctness, one group of variables after the other.               *)

\* Enqueueing keeps every row.
LEMMA EnqueueKeeps ==
  ASSUME NEW ks, Enqueue(ks), QueueOK, LeasesOK, UNCHANGED <<attempts, holder, lapsed, swept>>
  PROVE  QueueOK' /\ LeasesOK' /\ JobsStay
BY DEF Enqueue, QueueOK, LeasesOK, JobsStay, Statuses

\* So does a step that leaves the queue alone.
LEMMA UnchangedKeeps ==
  ASSUME UNCHANGED queue, QueueOK, LeasesOK
  PROVE  QueueOK' /\ LeasesOK' /\ JobsStay
BY DEF queue, QueueOK, LeasesOK, JobsStay

\* A token that nobody has any more.
LEMMA LeavesKeepsHolders ==
  ASSUME NEW w \in Workers, Leaves(w), QueueOK
  PROVE  holder' \in [Jobs -> Workers \cup {NoWorker}]
BY DEF Leaves, QueueOK

\* A worker's step with its job.
LEMMA JobQueueKeeps ==
  ASSUME NEW w \in Workers, JobStep(w), PipelineOK
  PROVE  QueueOK' /\ LeasesOK' /\ JobsStay
<1>1. QueueOK /\ LeasesOK /\ (pc[w] # "idle" => work[w] \in Jobs /\ jobs[work[w]] # "ABSENT")
      BY DEF PipelineOK, TypeOK, InHand
<1>2. ASSUME NEW j \in Jobs, ClaimSelect(w, j) PROVE QueueOK' /\ LeasesOK' /\ JobsStay
      BY <1>1, <1>2, UnchangedKeeps DEF ClaimSelect
<1>3. CASE ClaimUpdate(w)
  <2>1. /\ UNCHANGED swept
        /\ \/ UNCHANGED <<jobs, attempts, holder, lapsed>>
           \/ /\ jobs' = [jobs EXCEPT ![work[w]] = "PROCESSING"]
              /\ attempts' = [attempts EXCEPT ![work[w]] = @ + 1]
              /\ holder' = [holder EXCEPT ![work[w]] = w]
              /\ lapsed' = lapsed \ {work[w]}
        /\ pc[w] # "idle"
        BY <1>3 DEF ClaimUpdate
  <2>2. QED BY <1>1, <2>1 DEF QueueOK, LeasesOK, JobsStay, Statuses
<1>4. CASE Renew(w)
      BY <1>1, <1>4 DEF Renew, QueueOK, LeasesOK, JobsStay
<1>5. CASE Complete(w)
  <2>1. /\ work[w] \notin lapsed /\ jobs' = [jobs EXCEPT ![work[w]] = "COMPLETED"]
        \/ UNCHANGED jobs
        BY <1>5 DEF Complete
  <2>2. UNCHANGED <<attempts, lapsed, swept>> /\ Leaves(w)
        BY <1>5 DEF Complete
  <2>3. QED BY <1>1, <2>1, <2>2, LeavesKeepsHolders DEF QueueOK, LeasesOK, JobsStay, Statuses
<1>6. CASE FailJob(w)
  <2>1. \/ /\ jobs' = [jobs EXCEPT ![work[w]] = AfterFailure(work[w])]
           /\ lapsed' = lapsed \ {work[w]}
        \/ UNCHANGED <<jobs, lapsed>>
        BY <1>6 DEF FailJob
  <2>2. UNCHANGED <<attempts, swept>> /\ Leaves(w)
        BY <1>6 DEF FailJob
  <2>3. QED BY <1>1, <2>1, <2>2, LeavesKeepsHolders
            DEF QueueOK, LeasesOK, JobsStay, Statuses, AfterFailure
<1>7. CASE HandlerFails(w)
      BY <1>1, <1>7, UnchangedKeeps DEF HandlerFails
<1>8. CASE WorkerDies(w)
  <2>1. \/ jobs[work[w]] = "PROCESSING" /\ lapsed' = lapsed \cup {work[w]}
        \/ UNCHANGED lapsed
        BY <1>8 DEF WorkerDies
  <2>2. UNCHANGED <<jobs, attempts, swept>> /\ pc[w] # "idle" /\ Leaves(w)
        BY <1>8 DEF WorkerDies
  <2>3. QED BY <1>1, <2>1, <2>2, LeavesKeepsHolders DEF QueueOK, LeasesOK, JobsStay
<1>9. QED BY <1>2, <1>3, <1>4, <1>5, <1>6, <1>7, <1>8 DEF JobStep, Claims

\* A step in the table of jobs that no worker takes.
LEMMA RowKeeps ==
  ASSUME RowStep, QueueOK, LeasesOK
  PROVE  QueueOK' /\ LeasesOK' /\ JobsStay
<1>1. ASSUME NEW s \in Sweeps, SweepSelect(s) PROVE QueueOK' /\ LeasesOK' /\ JobsStay
  <2>1. \A j \in Jobs : AfterFailure(j) \in {"QUEUED", "DEAD_LETTER"}
        BY DEF AfterFailure
  <2>2. {<<j, AfterFailure(j)>> : j \in lapsed} \in SUBSET (Jobs \X {"QUEUED", "DEAD_LETTER"})
        BY <2>1 DEF QueueOK
  <2>3. \A p \in {<<j, AfterFailure(j)>> : j \in lapsed} : jobs[p[1]] # "ABSENT"
        BY DEF LeasesOK
  <2>4. /\ swept' = [swept EXCEPT ![s] = {<<j, AfterFailure(j)>> : j \in lapsed}]
        /\ UNCHANGED <<jobs, attempts, holder, lapsed>>
        BY <1>1 DEF SweepSelect
  <2>5. QED BY <2>2, <2>3, <2>4 DEF QueueOK, LeasesOK, JobsStay
<1>2. ASSUME NEW s \in Sweeps, SweepUpdate(s) PROVE QueueOK' /\ LeasesOK' /\ JobsStay
  <2>1. /\ \A j \in Jobs : jobs'[j] \in {"QUEUED", "DEAD_LETTER", jobs[j]}
        /\ jobs' \in [Jobs -> Statuses]
        BY <1>2 DEF SweepUpdate, QueueOK, Statuses
  <2>2. \A j \in Jobs : j \in lapsed' => j \in lapsed /\ jobs'[j] = jobs[j]
        BY <1>2 DEF SweepUpdate
  <2>3. /\ holder' \in [Jobs -> Workers \cup {NoWorker}]
        /\ lapsed' \subseteq lapsed /\ swept' = [swept EXCEPT ![s] = {}] /\ UNCHANGED attempts
        BY <1>2 DEF SweepUpdate, QueueOK
  <2>4. LeasesOK'
    <3>1. \A j \in lapsed' : jobs'[j] = "PROCESSING"
          BY <2>2, <2>3 DEF LeasesOK, QueueOK
    <3>2. ASSUME NEW r \in Sweeps, NEW p \in swept'[r] PROVE jobs'[p[1]] # "ABSENT"
      <4>1. p \in swept[r]
            BY <2>3, <3>2 DEF QueueOK
      <4>2. p[1] \in Jobs /\ jobs[p[1]] # "ABSENT"
            BY <4>1 DEF QueueOK, LeasesOK
      <4>3. QED BY <2>1, <4>2
    <3>3. QED BY <3>1, <3>2 DEF LeasesOK
  <2>5. QED BY <2>1, <2>3, <2>4 DEF QueueOK, JobsStay
<1>3. ASSUME NEW j \in Jobs, LeaseLapses(j) PROVE QueueOK' /\ LeasesOK' /\ JobsStay
      BY <1>3 DEF LeaseLapses, QueueOK, LeasesOK, JobsStay
<1>4. QED BY <1>1, <1>2, <1>3 DEF RowStep

\* The queue.
LEMMA QueueType ==
  ASSUME PipelineOK, [Next]_vars
  PROVE  QueueOK' /\ LeasesOK' /\ JobsStay
<1> USE DEF PipelineOK, TypeOK
<1>1. ASSUME EnqueuesOther, UNCHANGED <<attempts, holder, lapsed, swept>>
      PROVE  QueueOK' /\ LeasesOK' /\ JobsStay
      BY <1>1, EnqueueKeeps, UnchangedKeeps DEF EnqueuesOther, queue
<1>2. ASSUME NEW w \in Workers,
             TransferStep(w) \/ ArchiveStep(w) \/ UploadStep(w)
      PROVE  QueueOK' /\ LeasesOK' /\ JobsStay
      BY <1>1, <1>2, TransferFrame, ArchiveFrame, UploadFrame
<1>3. ASSUME NEW w \in Workers, DubbingStep(w)
      PROVE  QueueOK' /\ LeasesOK' /\ JobsStay
      BY <1>3, DubbingFrame, EnqueueKeeps, UnchangedKeeps DEF queue
<1>4. ASSUME NEW w \in Workers, JobStep(w)
      PROVE  QueueOK' /\ LeasesOK' /\ JobsStay
      BY <1>4, JobQueueKeeps
<1>5. ASSUME NEW w \in Workers,
             FinalizeStep(w) \/ ExtractionTimesOut(w) \/ SynthesisFails(w)
      PROVE  QueueOK' /\ LeasesOK' /\ JobsStay
      BY <1>5, FinalizeFrame, UnchangedKeeps DEF ExtractionTimesOut, SynthesisFails
<1>6. ASSUME NEW a \in Agents, CheckStep(a)
      PROVE  QueueOK' /\ LeasesOK' /\ JobsStay
      BY <1>6, CheckFrame, UnchangedKeeps
<1>7. ASSUME RowStep
      PROVE  QueueOK' /\ LeasesOK' /\ JobsStay
      BY <1>7, RowKeeps
<1>8. CASE CallStep
      BY <1>1, <1>8, CallFrame, EnqueueKeeps
<1>9. CASE UNCHANGED vars
      BY <1>9, UnchangedKeeps DEF vars
<1>10. QED BY <1>2, <1>3, <1>4, <1>5, <1>6, <1>7, <1>8, <1>9, Kinds

\* Whatever is pending, there is a first one.
LEMMA FirstPendingType ==
  ASSUME ConstantsAssumption, Pending # {}
  PROVE  FirstPending \in Pending
<1>1. Pending \subseteq Nat
      BY DEF Pending, PartNumbers, ConstantsAssumption
<1>2. IsWellFoundedOn(OpToRel(<, Nat), Nat)
      BY NatLessThanWellFounded
<1>3. \E n \in Pending : \A k \in Pending : ~(<<k, n>> \in OpToRel(<, Nat))
      BY <1>1, <1>2, WFMin
<1>4. PICK n \in Pending : \A k \in Pending : ~(<<k, n>> \in OpToRel(<, Nat))
      BY <1>3
<1>5. \A k \in Pending : n <= k
  <2>1. ASSUME NEW k \in Pending PROVE n <= k
    <3>1. k \in Nat /\ n \in Nat
          BY <1>1, <1>4
    <3>2. <<k, n>> \in OpToRel(<, Nat) <=> k < n
          BY <3>1, Zenon DEF OpToRel
    <3>3. ~(k < n)
          BY <1>4, <3>2, Zenon
    <3>4. QED BY <3>1, <3>3
  <2>2. QED BY <2>1
<1>6. QED BY <1>5 DEF FirstPending

\* The archive.
LEMMA ArchiveType ==
  ASSUME PipelineOK, [Next]_vars
  PROVE  ArchiveOK'
<1> USE DEF PipelineOK, TypeOK
<1>1. ASSUME UNCHANGED archive PROVE ArchiveOK'
      BY <1>1 DEF archive, ArchiveOK
<1>2. ASSUME NEW w \in Workers, TransferStep(w) PROVE ArchiveOK'
  <2>1. ASSUME Download(w) PROVE ArchiveOK'
    <3>1. (IF part[w] = 0 THEN 1 ELSE part[w]) \in PartNumbers
          BY ConstantsAssumption DEF ConstantsAssumption, PartNumbers, WorkersOK
    <3>2. QED BY <2>1, <3>1 DEF Download, ArchiveOK
  <2>2. ASSUME DiscoverPart(w) \/ MarkPart(w) PROVE ArchiveOK'
        BY <2>2 DEF DiscoverPart, MarkPart, ArchiveOK
  <2>3. QED BY <1>1, <1>2, <2>1, <2>2 DEF TransferStep, LocateVideo, LocatePart,
            ChainTransfer, StoreVideo, EnqueueDirect
<1>3. ASSUME NEW w \in Workers, ArchiveStep(w) \/ ExtractionTimesOut(w) PROVE ArchiveOK'
      BY <1>1, <1>3 DEF ArchiveStep, Extract, ExtractionTimesOut, ChainExtraction,
         InsertLessons, EnqueueDubbing, ArchiveOK, archive
<1>4. ASSUME NEW w \in Workers,
             JobStep(w) \/ DubbingStep(w) \/ UploadStep(w) \/ FinalizeStep(w)
             \/ SynthesisFails(w)
      PROVE  ArchiveOK'
      BY <1>1, <1>4, JobFrame, DubbingFrame, UploadFrame, FinalizeFrame DEF SynthesisFails
<1>5. ASSUME NEW a \in Agents, CheckStep(a) PROVE ArchiveOK'
      BY <1>1, <1>5, CheckFrame
<1>6. ASSUME RowStep PROVE ArchiveOK'
      BY <1>1, <1>6, RowFrame
<1>7. QED BY <1>1, <1>2, <1>3, <1>4, <1>5, <1>6, Kinds, CallFrame DEF vars

\* What a report does to a lesson.
LEMMA RecordedType ==
  ASSUME LessonsOK, NEW l \in Lessons, NEW ok \in BOOLEAN, Recorded(l, ok),
         UNCHANGED <<source, dubbed, stored>>
  PROVE  LessonsOK'
BY DEF LessonsOK, Recorded

\* The lessons.
LEMMA LessonsType ==
  ASSUME PipelineOK, [Next]_vars
  PROVE  LessonsOK'
<1> USE DEF PipelineOK, TypeOK
<1>1. ASSUME UNCHANGED lessons PROVE LessonsOK'
      BY <1>1 DEF lessons, LessonsOK
<1>2. ASSUME NEW w \in Workers, TransferStep(w) PROVE LessonsOK'
  <2>1. ASSUME StoreVideo(w) PROVE LessonsOK'
        BY <2>1 DEF StoreVideo, LessonsOK
  <2>2. QED BY <1>1, <1>2, <2>1 DEF TransferStep, LocateVideo, LocatePart, DiscoverPart,
            Download, MarkPart, ChainTransfer, EnqueueDirect
<1>3. ASSUME NEW w \in Workers, ArchiveStep(w) PROVE LessonsOK'
  <2>1. ASSUME InsertLessons(w) PROVE LessonsOK'
        BY <2>1 DEF InsertLessons, LessonsOK
  <2>2. QED BY <1>1, <1>3, <2>1 DEF ArchiveStep, Extract, ChainExtraction, EnqueueDubbing
<1>4. ASSUME NEW w \in Workers, DubbingStep(w) \/ SynthesisFails(w) PROVE LessonsOK'
  <2>1. ASSUME Dub(w) \/ MarkVerdict(w) \/ SynthesisFails(w) PROVE LessonsOK'
        BY <2>1 DEF Dub, MarkVerdict, SynthesisFails, LessonsOK
  <2>2. ASSUME Judge(w) PROVE LessonsOK'
    <3>1. Lesson(w) \in Lessons
          BY <2>2 DEF Judge, At, InHand, Lesson
    <3>2. Passes(w) \in BOOLEAN
          BY Zenon DEF Passes
    <3>3. QED BY <2>2, <3>1, <3>2, RecordedType DEF Judge
  <2>3. QED BY <1>1, <1>4, <2>1, <2>2 DEF DubbingStep, EnqueueUpload
<1>5. ASSUME NEW w \in Workers, UploadStep(w) PROVE LessonsOK'
  <2>1. ASSUME VerifyStorage(w) PROVE LessonsOK'
    <3>1. mine[w] \in Qualities /\ Lesson(w) \in Lessons
          BY <2>1 DEF VerifyStorage, At, InHand, Lesson
    <3>2. QED BY <2>1, <3>1 DEF VerifyStorage, LessonsOK
  <2>2. QED BY <1>1, <1>5, <2>1 DEF UploadStep, Send, ChainUpload
<1>6. ASSUME CallStep PROVE LessonsOK'
  <2>1. ASSUME NEW l \in Lessons, MarkReview(l) \/ Override(l) PROVE LessonsOK'
        BY <2>1, RecordedType DEF MarkReview, Override
  <2>2. ASSUME NEW l \in Lessons, OverrideMarks(l) PROVE LessonsOK'
        BY <2>2 DEF OverrideMarks, LessonsOK
  <2>3. QED BY <1>1, <1>6, <2>1, <2>2 DEF CallStep, DubLesson, PollEnds, OverrideEnqueues,
            Finalize, FinalizeEnds, EmitReady
<1>7. ASSUME NEW w \in Workers, JobStep(w) \/ FinalizeStep(w) \/ ExtractionTimesOut(w)
      PROVE  LessonsOK'
      BY <1>1, <1>7, JobFrame, FinalizeFrame DEF ExtractionTimesOut
<1>8. ASSUME NEW a \in Agents, CheckStep(a) PROVE LessonsOK'
      BY <1>1, <1>8, CheckFrame
<1>9. ASSUME RowStep PROVE LessonsOK'
      BY <1>1, <1>9, RowFrame
<1>10. QED BY <1>1, <1>2, <1>3, <1>4, <1>5, <1>6, <1>7, <1>8, <1>9, Kinds DEF vars

\* Where releases and the course's status change.
LEMMA ReleaseFrame ==
  ASSUME [Next]_vars
  PROVE  \/ UNCHANGED release
         \/ UNCHANGED releases /\ course' \in {"EXTRACTED", "NEEDS_REVIEW"}
         \/ \E w \in Workers : InsertRelease(w) \/ MarkReady(w)
         \/ EmitReady
<1>1. ASSUME NEW w \in Workers, FinalizeStep(w)
      PROVE  \/ UNCHANGED releases /\ course' \in {"EXTRACTED", "NEEDS_REVIEW"}
             \/ InsertRelease(w) \/ MarkReady(w)
      BY <1>1 DEF FinalizeStep, NeedsReview
<1>2. ASSUME NEW w \in Workers,
             \/ JobStep(w) \/ TransferStep(w) \/ DubbingStep(w) \/ UploadStep(w)
             \/ ExtractionTimesOut(w) \/ SynthesisFails(w)
      PROVE  UNCHANGED release
      BY <1>2, JobFrame, TransferFrame, DubbingFrame, UploadFrame
         DEF ExtractionTimesOut, SynthesisFails
<1>3. ASSUME NEW w \in Workers, ArchiveStep(w)
      PROVE  UNCHANGED release \/ (UNCHANGED releases /\ course' \in {"EXTRACTED", "NEEDS_REVIEW"})
      BY <1>3, ArchiveFrame DEF release
<1>4. ASSUME NEW a \in Agents, CheckStep(a) PROVE UNCHANGED release
      BY <1>4, CheckFrame
<1>5. ASSUME RowStep PROVE UNCHANGED release
      BY <1>5, RowFrame
<1>6. ASSUME CallStep PROVE UNCHANGED release \/ EmitReady
      BY <1>6 DEF CallStep, DubLesson, PollEnds, MarkReview, Override, OverrideMarks,
         OverrideEnqueues, Finalize, FinalizeEnds
<1>7. QED BY <1>1, <1>2, <1>3, <1>4, <1>5, <1>6, Kinds DEF vars

\* The course and its releases.
LEMMA ReleaseType ==
  ASSUME PipelineOK, [Next]_vars
  PROVE  ReleaseOK'
<1>1. ReleaseOK /\ \A a \in Agents : seen[a] \subseteq Lessons
      BY DEF PipelineOK, TypeOK, WorkersOK
<1>2. ASSUME NEW w \in Workers, InsertRelease(w) \/ MarkReady(w) PROVE ReleaseOK'
      BY <1>1, <1>2, Constants DEF InsertRelease, MarkReady, ReleaseOK
<1>3. ASSUME EmitReady PROVE ReleaseOK'
      BY <1>1, <1>3, Constants DEF EmitReady, ReleaseOK, release
<1>4. QED BY <1>1, <1>2, <1>3, ReleaseFrame DEF ReleaseOK, release

\* The callers.
LEMMA OutsideType ==
  ASSUME PipelineOK, [Next]_vars
  PROVE  OutsideOK'
<1> USE DEF PipelineOK, TypeOK, OutsideOK
<1>1. ASSUME UNCHANGED <<outside, bounds>> PROVE OutsideOK'
      BY <1>1 DEF outside, bounds
<1>2. ASSUME NEW w \in Workers, JobStep(w) PROVE OutsideOK'
  <2>1. ASSUME NEW j \in Jobs, ClaimSelect(w, j) PROVE OutsideOK'
        BY <2>1 DEF ClaimSelect, outside
  <2>2. ASSUME HandlerFails(w) \/ WorkerDies(w) PROVE OutsideOK'
        BY <2>2 DEF HandlerFails, WorkerDies, outside
  <2>3. QED BY <1>1, <1>2, <2>1, <2>2 DEF JobStep, Claims, ClaimUpdate, Renew, Complete, FailJob
<1>3. ASSUME NEW w \in Workers, ExtractionTimesOut(w) \/ SynthesisFails(w) PROVE OutsideOK'
      BY <1>3 DEF ExtractionTimesOut, SynthesisFails, outside
<1>4. ASSUME NEW w \in Workers,
             TransferStep(w) \/ ArchiveStep(w) \/ DubbingStep(w) \/ UploadStep(w)
             \/ FinalizeStep(w)
      PROVE  OutsideOK'
      BY <1>1, <1>4, TransferFrame, ArchiveFrame, DubbingFrame, UploadFrame, FinalizeFrame
<1>5. ASSUME NEW a \in Agents, CheckStep(a) PROVE OutsideOK'
      BY <1>1, <1>5, CheckFrame
<1>6. ASSUME RowStep PROVE OutsideOK'
      BY <1>1, <1>6 DEF RowStep, SweepSelect, SweepUpdate, LeaseLapses, outside
<1>7. ASSUME CallStep PROVE OutsideOK'
  <2>1. ASSUME NEW l \in Lessons,
               DubLesson(l) \/ Override(l) \/ OverrideMarks(l)
        PROVE  OutsideOK'
    <3>1. <<l, "poll">> \in Lessons \X {"poll", "approve", "upload"}
          /\ <<l, "approve">> \in Lessons \X {"poll", "approve", "upload"}
          /\ <<l, "upload">> \in Lessons \X {"poll", "approve", "upload"}
          OBVIOUS
    <3>2. /\ \/ requests' = requests \cup {<<l, "poll">>}
            \/ requests' = requests \cup {<<l, "approve">>}
            \/ requests' = (requests \ {<<l, "approve">>}) \cup {<<l, "upload">>}
          /\ calls' = calls \/ calls' = calls + 1
          /\ UNCHANGED <<faults, lapses, contests>>
          BY <2>1 DEF DubLesson, Override, OverrideMarks, bounds
    <3>3. requests' \subseteq Lessons \X {"poll", "approve", "upload"}
          BY <3>1, <3>2
    <3>4. QED BY <3>2, <3>3
  <2>2. ASSUME NEW l \in Lessons,
               PollEnds(l) \/ MarkReview(l) \/ OverrideEnqueues(l)
        PROVE  OutsideOK'
        BY <2>2 DEF PollEnds, MarkReview, OverrideEnqueues, bounds
  <2>3. ASSUME Finalize \/ FinalizeEnds \/ EmitReady PROVE OutsideOK'
        BY <2>3 DEF Finalize, FinalizeEnds, EmitReady, outside, bounds
  <2>4. QED BY <1>7, <2>1, <2>2, <2>3 DEF CallStep
<1>8. QED BY <1>1, <1>2, <1>3, <1>4, <1>5, <1>6, <1>7, Kinds DEF vars

-----------------------------------------------------------------------------
(* The workers, and what they have in hand.                                *)

\* A step of worker w alone.
LEMMA HandsStay ==
  ASSUME PipelineOK, JobsStay, NEW w \in Workers,
         NEW p \in Steps, Go(w, p),
         \A v \in Workers \ {w} : work'[v] = work[v] /\ mine'[v] = mine[v],
         InHand(w)'
  PROVE  \A v \in Workers : InHand(v)'
<1>1. ASSUME NEW v \in Workers, v # w PROVE InHand(v)'
  <2>1. pc'[v] = pc[v] /\ work'[v] = work[v] /\ mine'[v] = mine[v]
        BY <1>1, Constants DEF Go, PipelineOK, TypeOK, WorkersOK
  <2>2. InHand(v)
        BY DEF PipelineOK
  <2>3. QED BY <2>1, <2>2 DEF InHand, JobsStay
<1>2. QED BY <1>1

\* A step that leaves work and the file in hand alone, to a place where nothing is asked of
\* them.
LEMMA PlainStep ==
  ASSUME PipelineOK, JobsStay, NEW w \in Workers, pc[w] # "idle",
         NEW p \in Plain \cup {"check", "publish", "ready"}, Go(w, p), UNCHANGED <<work, mine>>
  PROVE  \A v \in Workers : InHand(v)'
<1>1. pc'[w] = p
      BY Constants DEF Go, PipelineOK, TypeOK, WorkersOK
<1>2. InHand(w)'
      BY <1>1 DEF InHand, PipelineOK, JobsStay, Plain
<1>3. p \in Steps
      BY DEF Steps, Plain
<1>4. QED BY <1>2, <1>3, HandsStay

\* Where a handler begins, and of which jobs.
LEMMA FirstSteps ==
  ASSUME NEW j \in Jobs
  PROVE  /\ FirstStep(j[1]) \in {"locate", "dub", "extract", "insert", "send", "list"}
         /\ FirstStep(j[1]) = "dub" => j \in {"DUBBING", "DUB"} \X Lessons
         /\ FirstStep(j[1]) = "send" => j \in {"UPLOAD"} \X Lessons
<1>1. /\ FirstStep(j[1]) \in {"locate", "dub", "extract", "insert", "send", "list"}
      /\ FirstStep(j[1]) = "dub" => j[1] \in {"DUBBING", "DUB"}
      /\ FirstStep(j[1]) = "send" => j[1] = "UPLOAD"
      BY DEF FirstStep, Jobs, CourseKinds, LessonKinds
<1>2. /\ j[1] \in {"DUBBING", "DUB"} => j \in {"DUBBING", "DUB"} \X Lessons
      /\ j[1] = "UPLOAD" => j \in {"UPLOAD"} \X Lessons
      BY DEF Jobs, CourseKinds
<1>3. QED BY <1>1, <1>2

\* A worker that claims a job gets to where the handler begins.
LEMMA ClaimGoes ==
  ASSUME PipelineOK, NEW w \in Workers, Claims(w)
  PROVE  \E p \in {"claiming", "locate", "dub", "extract", "insert", "send", "list"} : Go(w, p)
<1>1. CASE ClaimUpdate(w)
  <2>1. work[w] \in Jobs
        BY <1>1 DEF ClaimUpdate, PipelineOK, InHand
  <2>2. Go(w, FirstStep(work[w][1]))
        BY <1>1 DEF ClaimUpdate, Go
  <2>3. QED BY <2>1, <2>2, FirstSteps
<1>2. ASSUME NEW j \in Jobs, ClaimSelect(w, j) PROVE Go(w, "claiming")
      BY <1>2 DEF ClaimSelect, Go
<1>3. QED BY <1>1, <1>2 DEF Claims

\* A worker's hands, whatever it does.
LEMMA HandsType ==
  ASSUME PipelineOK, [Next]_vars
  PROVE  \A v \in Workers : InHand(v)'
<1>1. JobsStay
      BY QueueType
<1>2. ASSUME UNCHANGED <<work, mine>>, \A v \in Workers : pc'[v] = pc[v]
      PROVE  \A v \in Workers : InHand(v)'
      BY <1>1, <1>2 DEF PipelineOK, InHand, JobsStay
<1>3. ASSUME NEW w \in Workers, Claims(w)
      PROVE  \A v \in Workers : InHand(v)'
  <2>1. ASSUME NEW j \in Jobs, ClaimSelect(w, j) PROVE \A v \in Workers : InHand(v)'
    <3>1. /\ Go(w, "claiming") /\ work' = [work EXCEPT ![w] = j] /\ UNCHANGED <<mine, jobs>>
          /\ Claimable(j)
          BY <2>1 DEF ClaimSelect, Go, scratch, queue
    <3>2. jobs[j] # "ABSENT"
          BY <3>1 DEF Claimable, PipelineOK, LeasesOK
    <3>3. pc'[w] = "claiming" /\ work'[w] = j
          BY <3>1, Constants DEF Go, PipelineOK, TypeOK, WorkersOK
    <3>4. InHand(w)'
          BY <3>1, <3>2, <3>3 DEF InHand
    <3>5. \A v \in Workers \ {w} : work'[v] = work[v] /\ mine'[v] = mine[v]
          BY <3>1 DEF PipelineOK, TypeOK, WorkersOK
    <3>6. "claiming" \in Steps
          BY DEF Steps
    <3>7. QED BY <1>1, <3>1, <3>4, <3>5, <3>6, HandsStay
  <2>2. ASSUME ClaimUpdate(w) PROVE \A v \in Workers : InHand(v)'
    <3>1. /\ pc[w] = "claiming" /\ Go(w, FirstStep(work[w][1])) /\ UNCHANGED <<work, mine>>
          BY <2>2 DEF ClaimUpdate, Go, scratch
    <3>2. work[w] \in Jobs /\ jobs[work[w]] # "ABSENT"
          BY <3>1 DEF PipelineOK, InHand
    <3>3. pc'[w] = FirstStep(work[w][1])
          BY <3>1, Constants DEF Go, PipelineOK, TypeOK, WorkersOK
    <3>4. InHand(w)'
          BY <1>1, <3>1, <3>2, <3>3, FirstSteps DEF InHand, JobsStay
    <3>5. FirstStep(work[w][1]) \in Steps
          BY <3>2, FirstSteps DEF Steps
    <3>6. QED BY <1>1, <3>1, <3>4, <3>5, HandsStay
  <2>3. QED BY <1>3, <2>1, <2>2 DEF Claims
<1>4. ASSUME NEW w \in Workers, Leaves(w)
      PROVE  \A v \in Workers : InHand(v)'
  <2>1. Go(w, "idle") /\ \A v \in Workers \ {w} : work'[v] = work[v] /\ mine'[v] = mine[v]
        BY <1>4 DEF Leaves, Go, PipelineOK, TypeOK, WorkersOK
  <2>2. pc'[w] = "idle"
        BY <2>1, Constants DEF Go, PipelineOK, TypeOK, WorkersOK
  <2>3. InHand(w)'
        BY <2>2 DEF InHand
  <2>4. "idle" \in Steps
        BY DEF Steps
  <2>5. QED BY <1>1, <2>1, <2>3, <2>4, HandsStay
<1>5. ASSUME NEW w \in Workers, JobStep(w)
      PROVE  \A v \in Workers : InHand(v)'
  <2>1. ASSUME HandlerFails(w) PROVE \A v \in Workers : InHand(v)'
        BY <1>1, <2>1, PlainStep DEF HandlerFails, Busy, Go, scratch, Plain
  <2>2. ASSUME Renew(w) PROVE \A v \in Workers : InHand(v)'
        BY <1>2, <2>2 DEF Renew, workers, scratch
  <2>3. QED BY <1>3, <1>4, <1>5, <2>1, <2>2 DEF JobStep, Complete, FailJob, WorkerDies
<1>6. ASSUME NEW w \in Workers,
             TransferStep(w) \/ ArchiveStep(w) \/ FinalizeStep(w) \/ CheckStep(w)
      PROVE  \A v \in Workers : InHand(v)'
  <2>1. UNCHANGED <<work, mine>> /\ pc[w] # "idle"
        BY <1>6, TransferFrame, ArchiveFrame, FinalizeFrame, CheckFrame, Constants DEF scratch
  <2>2. \E p \in Plain \cup {"check", "publish", "ready"} : Go(w, p)
        BY <1>6, TransferFrame, ArchiveFrame, FinalizeFrame, CheckFrame, Constants DEF Plain
  <2>3. QED BY <1>1, <2>1, <2>2, PlainStep
<1>7. ASSUME NEW w \in Workers, ExtractionTimesOut(w) \/ SynthesisFails(w)
      PROVE  \A v \in Workers : InHand(v)'
  <2>1. Go(w, "failing") /\ pc[w] # "idle" /\ UNCHANGED <<work, mine>>
        BY <1>7 DEF ExtractionTimesOut, SynthesisFails, At, scratch
  <2>2. QED BY <1>1, <2>1, PlainStep DEF Plain
<1>8. ASSUME NEW w \in Workers, DubbingStep(w)
      PROVE  \A v \in Workers : InHand(v)'
  <2>1. pc[w] \in {"dub", "judge", "pass", "reject", "upload"}
        BY <1>8 DEF DubbingStep, Dub, Judge, MarkVerdict, EnqueueUpload, At
  <2>2. PICK p \in {"judge", "pass", "reject", "upload", "failing", "done"} : Go(w, p)
        BY <1>8 DEF DubbingStep, Dub, Judge, MarkVerdict, EnqueueUpload, Go, AfterReject
  <2>3. UNCHANGED work /\ \A v \in Workers \ {w} : mine'[v] = mine[v]
        BY <1>8 DEF DubbingStep, Dub, Judge, MarkVerdict, EnqueueUpload, scratch, PipelineOK,
           TypeOK, WorkersOK
  <2>4. pc'[w] = p
        BY <2>2, Constants DEF Go, PipelineOK, TypeOK, WorkersOK
  <2>5. InHand(w)'
        BY <1>1, <2>1, <2>2, <2>3, <2>4 DEF InHand, PipelineOK, JobsStay
  <2>6. p \in Steps
        BY DEF Steps
  <2>7. QED BY <1>1, <2>2, <2>3, <2>5, <2>6, HandsStay
<1>9. ASSUME NEW w \in Workers, UploadStep(w)
      PROVE  \A v \in Workers : InHand(v)'
  <2>1. pc[w] \in {"send", "verify", "last"}
        BY <1>9 DEF UploadStep, Send, VerifyStorage, ChainUpload, At
  <2>2. PICK p \in {"verify", "last", "failing", "done"} : Go(w, p)
        BY <1>9 DEF UploadStep, Send, VerifyStorage, ChainUpload, Go, AfterSend
  <2>3. UNCHANGED work /\ \A v \in Workers \ {w} : mine'[v] = mine[v]
        BY <1>9 DEF UploadStep, Send, VerifyStorage, ChainUpload, scratch, PipelineOK, TypeOK,
           WorkersOK
  <2>4. pc'[w] = p
        BY <2>2, Constants DEF Go, PipelineOK, TypeOK, WorkersOK
  <2>5. p = "verify" => mine'[w] \in Qualities
    <3>1. SUFFICES ASSUME p = "verify" PROVE mine'[w] \in Qualities
          OBVIOUS
    <3>2. Send(w)
      <4>1. ASSUME Go(w, "last") \/ Go(w, "done") PROVE FALSE
            BY <2>4, <3>1, <4>1, Constants DEF Go, PipelineOK, TypeOK, WorkersOK
      <4>2. QED BY <1>9, <4>1 DEF UploadStep, VerifyStorage, ChainUpload
    <3>3. Lesson(w) \in Lessons
          BY <2>1 DEF PipelineOK, InHand, Lesson
    <3>4. /\ mine' = [mine EXCEPT ![w] = dubbed[Lesson(w)]] /\ pc'[w] = AfterSend(w)
          BY <3>2, Constants DEF Send, Go, PipelineOK, TypeOK, WorkersOK
    <3>5. QED BY <2>4, <3>1, <3>3, <3>4
              DEF AfterSend, PipelineOK, TypeOK, WorkersOK, LessonsOK
  <2>6. InHand(w)'
        BY <1>1, <2>1, <2>2, <2>3, <2>4, <2>5 DEF InHand, PipelineOK, JobsStay
  <2>7. p \in Steps
        BY DEF Steps
  <2>8. QED BY <1>1, <2>2, <2>3, <2>6, <2>7, HandsStay
<1>10. ASSUME CallStep \/ CheckStep(WF04)
       PROVE  \A v \in Workers : InHand(v)'
  <2>1. UNCHANGED <<work, mine>> /\ (UNCHANGED pc \/ \E p : Go(WF04, p))
        BY <1>10, CallFrame, CheckFrame, Constants
  <2>2. \A v \in Workers : pc'[v] = pc[v]
        BY <2>1, Constants DEF Go, PipelineOK, TypeOK, WorkersOK
  <2>3. QED BY <1>2, <2>1, <2>2
<1>11. ASSUME RowStep
       PROVE  \A v \in Workers : InHand(v)'
       BY <1>2, <1>11, RowFrame DEF workers, scratch
<1>12. ASSUME UNCHANGED vars
       PROVE  \A v \in Workers : InHand(v)'
       BY <1>2, <1>12 DEF vars, workers, scratch
<1>13. QED BY <1>5, <1>6, <1>7, <1>8, <1>9, <1>10, <1>11, <1>12, Kinds, Constants

\* The workers' variables.
LEMMA WorkersType ==
  ASSUME PipelineOK, [Next]_vars
  PROVE  WorkersOK'
<1> USE DEF PipelineOK, TypeOK, WorkersOK
<1>1. ASSUME UNCHANGED workers PROVE WorkersOK'
      BY <1>1 DEF workers, scratch
<1>2. ASSUME NEW a \in Agents, NEW p \in Steps, Go(a, p), UNCHANGED <<work, scratch>>
      PROVE  WorkersOK'
      BY <1>2 DEF Go, scratch
<1>3. ASSUME NEW w \in Workers, JobStep(w) PROVE WorkersOK'
  <2>1. ASSUME Leaves(w) PROVE WorkersOK'
        BY <2>1, Constants DEF Leaves, Steps
  <2>2. ASSUME HandlerFails(w) PROVE WorkersOK'
        BY <1>2, <2>2, Constants DEF HandlerFails, Go, Steps
  <2>3. ASSUME Claims(w) PROVE WorkersOK'
    <3>1. PICK p \in {"claiming", "locate", "dub", "extract", "insert", "send", "list"} :
            Go(w, p)
          BY <2>3, ClaimGoes
    <3>2. p \in Steps
          BY DEF Steps
    <3>3. UNCHANGED scratch /\ (UNCHANGED work \/ \E j \in Jobs : work' = [work EXCEPT ![w] = j])
          BY <2>3 DEF Claims, ClaimSelect, ClaimUpdate
    <3>4. QED BY <3>1, <3>2, <3>3, Constants DEF Go, scratch
  <2>4. ASSUME Renew(w) PROVE WorkersOK'
        BY <1>1, <2>4 DEF Renew
  <2>5. QED BY <1>3, <2>1, <2>2, <2>3, <2>4 DEF JobStep, Complete, FailJob, WorkerDies
<1>4. ASSUME NEW w \in Workers, TransferStep(w) PROVE WorkersOK'
  <2>1. PICK p \in {"download", "failing", "discover", "chain", "mark", "done", "direct"} :
          Go(w, p)
        BY <1>4, TransferFrame
  <2>2. p \in Steps
        BY DEF Steps
  <2>3. ASSUME LocatePart(w) PROVE WorkersOK'
    <3>1. FirstPending \in PartNumbers
          BY <2>3, FirstPendingType, ConstantsAssumption DEF LocatePart, Pending
    <3>2. QED BY <2>1, <2>2, <2>3, <3>1, Constants DEF LocatePart, Go
  <2>4. QED BY <1>2, <1>4, <2>1, <2>2, <2>3, Constants
            DEF TransferStep, LocateVideo, DiscoverPart, Download, MarkPart, ChainTransfer,
                StoreVideo, EnqueueDirect
<1>5. ASSUME NEW w \in Workers, ArchiveStep(w) PROVE WorkersOK'
  <2>1. PICK p \in {"extracted", "failing", "done", "enqueue"} : Go(w, p)
        BY <1>5, ArchiveFrame
  <2>2. p \in Steps
        BY DEF Steps
  <2>3. todo' \in [Agents -> SUBSET Lessons]
    <3>1. ASSUME InsertLessons(w) PROVE todo' \in [Agents -> SUBSET Lessons]
          BY <3>1 DEF InsertLessons
    <3>2. ASSUME EnqueueDubbing(w) PROVE todo' \in [Agents -> SUBSET Lessons]
          BY <3>2, Constants DEF EnqueueDubbing
    <3>3. QED BY <1>5, <3>1, <3>2 DEF ArchiveStep, Extract, ChainExtraction, scratch
  <2>4. QED BY <1>5, <2>1, <2>2, <2>3, ArchiveFrame, Constants DEF Go
<1>6. ASSUME NEW w \in Workers, DubbingStep(w) \/ UploadStep(w) PROVE WorkersOK'
  <2>1. PICK p \in {"judge", "pass", "reject", "upload", "verify", "last", "failing", "done"} :
          Go(w, p)
        BY <1>6 DEF DubbingStep, Dub, Judge, MarkVerdict, EnqueueUpload, UploadStep, Send,
           VerifyStorage, ChainUpload, Go, AfterReject, AfterSend
  <2>2. p \in Steps
        BY DEF Steps
  <2>3. mine' \in [Workers -> Qualities \cup {"NONE"}]
    <3>1. ASSUME Send(w) PROVE mine' \in [Workers -> Qualities \cup {"NONE"}]
      <4>1. Lesson(w) \in Lessons
            BY <3>1 DEF Send, At, InHand, Lesson
      <4>2. QED BY <3>1, <4>1 DEF Send, LessonsOK
    <3>2. QED BY <1>6, <3>1 DEF DubbingStep, Dub, Judge, MarkVerdict, EnqueueUpload,
              UploadStep, VerifyStorage, ChainUpload, scratch
  <2>4. QED BY <1>6, <2>1, <2>2, <2>3, DubbingFrame, UploadFrame, Constants DEF Go
<1>7. ASSUME NEW w \in Workers,
             FinalizeStep(w) \/ ExtractionTimesOut(w) \/ SynthesisFails(w)
      PROVE  WorkersOK'
      BY <1>2, <1>7, FinalizeFrame, Constants DEF ExtractionTimesOut, SynthesisFails, Steps
<1>8. ASSUME NEW a \in Agents, CheckStep(a) PROVE WorkersOK'
  <2>1. PICK p \in {"review", "check", "publish"} : Go(a, p)
        BY <1>8, CheckFrame
  <2>2. p \in Steps
        BY DEF Steps
  <2>3. todo' \in [Agents -> SUBSET Lessons] /\ seen' \in [Agents -> SUBSET Lessons]
        BY <1>8 DEF CheckStep, ListLessons, CheckLesson, Listed, Existing
  <2>4. QED BY <1>8, <2>1, <2>2, <2>3, CheckFrame DEF Go
<1>9. ASSUME CallStep PROVE WorkersOK'
  <2>1. UNCHANGED seen
        BY <1>9 DEF CallStep, DubLesson, PollEnds, MarkReview, Override, OverrideMarks,
           OverrideEnqueues, Finalize, FinalizeEnds, EmitReady, workers, scratch
  <2>2. QED BY <1>9, <2>1, CallFrame, Constants DEF Go, Steps
<1>10. ASSUME RowStep PROVE WorkersOK'
      BY <1>1, <1>10, RowFrame
<1>11. QED BY <1>1, <1>3, <1>4, <1>5, <1>6, <1>7, <1>8, <1>9, <1>10, Kinds DEF vars

\* The initial states.
LEMMA InitType == Init => PipelineOK
<1>1. SUFFICES ASSUME Init PROVE PipelineOK
      OBVIOUS
<1>2. QueueOK /\ LeasesOK
      BY <1>1 DEF Init, QueueOK, LeasesOK, Statuses
<1>3. ArchiveOK
  <2>1. /\ files = {} /\ extracted = FALSE
        /\ \E first \in FirstJobs : parts = [n \in PartNumbers |->
              IF "TRANSFER" \in first THEN "PENDING" ELSE "ABSENT"]
        BY <1>1 DEF Init
  <2>2. parts \in [PartNumbers -> {"ABSENT", "PENDING", "DOWNLOADED"}]
        BY <2>1
  <2>3. QED BY <2>1, <2>2 DEF ArchiveOK
<1>4. LessonsOK
      BY <1>1 DEF Init, LessonsOK
<1>5. ReleaseOK /\ OutsideOK
      BY <1>1 DEF Init, ReleaseOK, OutsideOK
<1>6. WorkersOK
      BY <1>1 DEF Init, WorkersOK, Steps
<1>7. \A w \in Workers : InHand(w)
      BY <1>1, Constants DEF Init, InHand
<1>8. QED BY <1>2, <1>3, <1>4, <1>5, <1>6, <1>7 DEF PipelineOK, TypeOK

\* Every step.
LEMMA StepType == PipelineOK /\ [Next]_vars => PipelineOK'
BY QueueType, ArchiveType, LessonsType, ReleaseType, WorkersType, OutsideType, HandsType
   DEF PipelineOK, TypeOK

\* A worker has in hand what the steps of its handler are about.
THEOREM HandsCorrect == Spec => []PipelineOK
BY InitType, StepType, PTL DEF Spec

\* Every variable keeps its type, whatever jobs are taken over, given up or done twice.
THEOREM TypeCorrect == Spec => []TypeOK
<1>1. PipelineOK => TypeOK
      BY DEF PipelineOK
<1>2. QED BY HandsCorrect, <1>1, PTL

-----------------------------------------------------------------------------
(* Who moves in a step, and what becomes of the others.                    *)

\* Agent a does not move.
Rests(a) ==
  /\ pc'[a] = pc[a] /\ todo'[a] = todo[a] /\ seen'[a] = seen[a]
  /\ a \in Workers => work'[a] = work[a] /\ mine'[a] = mine[a]

\* A step of worker w, the completeness check apart.
StepOf(w) ==
  \/ JobStep(w) \/ TransferStep(w) \/ ArchiveStep(w) \/ DubbingStep(w)
  \/ UploadStep(w) \/ FinalizeStep(w) \/ ExtractionTimesOut(w) \/ SynthesisFails(w)

\* Where a step of a handler goes.
LEMMA StepGoes ==
  ASSUME NEW w \in Workers, StepOf(w)
  PROVE  UNCHANGED pc \/ \E p : Go(w, p)
<1>1. ASSUME JobStep(w) PROVE UNCHANGED pc \/ \E p : Go(w, p)
      BY <1>1 DEF JobStep, Claims, ClaimSelect, ClaimUpdate, Renew, Complete, FailJob,
         HandlerFails, WorkerDies, Leaves, Go, workers
<1>2. ASSUME DubbingStep(w) \/ UploadStep(w) PROVE \E p : Go(w, p)
      BY <1>2 DEF DubbingStep, Dub, Judge, MarkVerdict, EnqueueUpload, UploadStep, Send,
         VerifyStorage, ChainUpload
<1>3. QED BY <1>1, <1>2, TransferFrame, ArchiveFrame, FinalizeFrame
          DEF StepOf, ExtractionTimesOut, SynthesisFails

\* A worker that moves leaves the others where they are.
LEMMA OthersRest ==
  ASSUME PipelineOK, NEW w \in Workers, StepOf(w), NEW a \in Agents, a # w
  PROVE  Rests(a)
<1> USE DEF PipelineOK, TypeOK, WorkersOK
<1>1. pc'[a] = pc[a]
      BY StepGoes DEF Go
<1>2. /\ \/ UNCHANGED todo \/ \E s : todo' = [todo EXCEPT ![w] = s]
      /\ \/ UNCHANGED seen \/ \E s : seen' = [seen EXCEPT ![w] = s]
      /\ \/ UNCHANGED work \/ \E j : work' = [work EXCEPT ![w] = j]
      /\ \/ UNCHANGED mine \/ \E q : mine' = [mine EXCEPT ![w] = q]
  <2> DEFINE Moves == /\ \/ UNCHANGED todo \/ \E s : todo' = [todo EXCEPT ![w] = s]
                      /\ \/ UNCHANGED seen \/ \E s : seen' = [seen EXCEPT ![w] = s]
                      /\ \/ UNCHANGED work \/ \E j : work' = [work EXCEPT ![w] = j]
                      /\ \/ UNCHANGED mine \/ \E q : mine' = [mine EXCEPT ![w] = q]
  <2>1. ASSUME JobStep(w) PROVE Moves
        BY <2>1 DEF JobStep, Claims, ClaimSelect, ClaimUpdate, Renew, Complete, FailJob,
           HandlerFails, WorkerDies, Leaves, workers, scratch
  <2>2. ASSUME ArchiveStep(w) PROVE Moves
        BY <2>2, ArchiveFrame DEF ArchiveStep, Extract, ChainExtraction, InsertLessons,
           EnqueueDubbing, scratch
  <2>3. ASSUME DubbingStep(w) PROVE Moves
        BY <2>3, DubbingFrame DEF DubbingStep, Dub, Judge, MarkVerdict, EnqueueUpload, scratch
  <2>4. ASSUME UploadStep(w) PROVE Moves
        BY <2>4, UploadFrame DEF UploadStep, Send, VerifyStorage, ChainUpload, scratch
  <2>5. ASSUME TransferStep(w) PROVE Moves
        BY <2>5, TransferFrame
  <2>6. ASSUME FinalizeStep(w) \/ ExtractionTimesOut(w) \/ SynthesisFails(w) PROVE Moves
        BY <2>6, FinalizeFrame DEF ExtractionTimesOut, SynthesisFails, scratch
  <2>7. QED BY <2>1, <2>2, <2>3, <2>4, <2>5, <2>6 DEF StepOf
<1>3. todo'[a] = todo[a] /\ seen'[a] = seen[a]
      BY <1>2
<1>4. ASSUME a \in Workers PROVE work'[a] = work[a] /\ mine'[a] = mine[a]
      BY <1>2, <1>4
<1>5. QED BY <1>1, <1>3, <1>4 DEF Rests

\* So does one that checks.
LEMMA OthersRestInCheck ==
  ASSUME PipelineOK, NEW b \in Agents, CheckStep(b), NEW a \in Agents, a # b
  PROVE  Rests(a)
<1> USE DEF PipelineOK, TypeOK, WorkersOK
<1>1. pc'[a] = pc[a] /\ UNCHANGED <<work, mine>>
      BY CheckFrame DEF Go
<1>2. todo'[a] = todo[a] /\ seen'[a] = seen[a]
      BY DEF CheckStep, ListLessons, CheckLesson
<1>3. QED BY <1>1, <1>2 DEF Rests

\* So does a heartbeat, whoever sends it.
LEMMA RenewRests ==
  ASSUME NEW w \in Workers, Renew(w), NEW a \in Agents
  PROVE  Rests(a)
BY DEF Renew, workers, scratch, Rests

\* A worker rests, or the step is its own.
LEMMA WorkerMoves ==
  ASSUME PipelineOK, [Next]_vars, NEW w \in Workers
  PROVE  Rests(w) \/ StepOf(w) \/ CheckStep(w)
<1>1. ASSUME NEW v \in Workers, StepOf(v) PROVE Rests(w) \/ StepOf(w)
      BY <1>1, OthersRest, Constants
<1>2. ASSUME NEW a \in Agents, CheckStep(a) PROVE Rests(w) \/ CheckStep(w)
      BY <1>2, OthersRestInCheck, Constants
<1>3. ASSUME CallStep PROVE Rests(w)
  <2>1. UNCHANGED <<work, mine, todo, seen>>
        BY <1>3, CallFrame
  <2>2. pc'[w] = pc[w]
        BY <1>3, CallFrame, Constants DEF Go, PipelineOK, TypeOK, WorkersOK
  <2>3. QED BY <2>1, <2>2 DEF Rests
<1>4. ASSUME RowStep PROVE Rests(w)
      BY <1>4, RowFrame DEF workers, scratch, Rests
<1>5. ASSUME UNCHANGED vars PROVE Rests(w)
      BY <1>5 DEF vars, workers, scratch, Rests
<1>6. QED BY <1>1, <1>2, <1>3, <1>4, <1>5, Kinds DEF StepOf

\* What is enqueued, and by whom.
Enqueued(j) ==
  \/ \E w \in Workers :
       \/ ChainTransfer(w) /\ j = NextJob
       \/ EnqueueDirect(w) /\ j = <<"DUBBING", Lesson(w)>>
       \/ ChainExtraction(w) /\ j = CourseJob("INVENTORY")
       \/ EnqueueDubbing(w) /\ \E l \in todo[w] : j = <<"DUBBING", l>>
       \/ EnqueueUpload(w) /\ j = <<"UPLOAD", Lesson(w)>>
       \/ ChainUpload(w) /\ j = CourseJob("FINALIZE")
  \/ \E l \in Lessons :
       \/ DubLesson(l) /\ j = <<"DUB", l>>
       \/ OverrideEnqueues(l) /\ j = <<"UPLOAD", l>>

\* Worker w gets the row of job j.
Takes(w, j) == ClaimUpdate(w) /\ work[w] = j /\ Claimable(j)

\* A sweep updates the row of job j.
SweptUp(j) == \E s \in Sweeps : SweepUpdate(s) /\ (Reclaims(s, j) \/ GivesUp(s, j))

\* What becomes of a job in a step.
LEMMA JobMoves ==
  ASSUME PipelineOK, [Next]_vars, NEW j \in Jobs
  PROVE  \/ jobs'[j] = jobs[j]
         \/ jobs[j] = "ABSENT" /\ jobs'[j] = "QUEUED" /\ Enqueued(j)
         \/ jobs'[j] = "PROCESSING" /\ \E w \in Workers : Takes(w, j)
         \/ \E w \in Workers : /\ work[w] = j
                               /\ (Complete(w) /\ jobs'[j] = "COMPLETED") \/ FailJob(w)
         \/ SweptUp(j)
<1> USE DEF PipelineOK, TypeOK, QueueOK
<1> DEFINE Moves == \/ jobs'[j] = jobs[j]
                    \/ jobs[j] = "ABSENT" /\ jobs'[j] = "QUEUED" /\ Enqueued(j)
                    \/ jobs'[j] = "PROCESSING" /\ \E w \in Workers : Takes(w, j)
                    \/ \E w \in Workers : /\ work[w] = j
                                          /\ (Complete(w) /\ jobs'[j] = "COMPLETED") \/ FailJob(w)
                    \/ SweptUp(j)
<1>1. ASSUME NEW ks, Enqueue(ks), j \in ks => Enqueued(j) PROVE Moves
      BY <1>1 DEF Enqueue
<1>2. ASSUME UNCHANGED jobs PROVE Moves
      BY <1>2
<1>3. ASSUME NEW w \in Workers, JobStep(w) PROVE Moves
  <2>1. ASSUME Claims(w) PROVE Moves
    <3>1. \/ UNCHANGED jobs
          \/ /\ ClaimUpdate(w) /\ Claimable(work[w])
             /\ jobs' = [jobs EXCEPT ![work[w]] = "PROCESSING"]
          BY <2>1 DEF Claims, ClaimSelect, ClaimUpdate, queue
    <3>2. QED BY <3>1 DEF Takes
  <2>2. ASSUME Complete(w) PROVE Moves
    <3>1. UNCHANGED jobs \/ jobs' = [jobs EXCEPT ![work[w]] = "COMPLETED"]
          BY <2>2 DEF Complete
    <3>2. QED BY <2>2, <3>1
  <2>3. ASSUME FailJob(w) PROVE Moves
    <3>1. UNCHANGED jobs \/ jobs' = [jobs EXCEPT ![work[w]] = AfterFailure(work[w])]
          BY <2>3 DEF FailJob
    <3>2. QED BY <2>3, <3>1
  <2>4. QED BY <1>2, <1>3, <2>1, <2>2, <2>3 DEF JobStep, Renew, HandlerFails, WorkerDies, queue
<1>4. ASSUME NEW w \in Workers, TransferStep(w) PROVE Moves
  <2>1. ASSUME ChainTransfer(w) PROVE Moves
    <3>1. Enqueue({NextJob})
          BY <2>1 DEF ChainTransfer
    <3>2. j \in {NextJob} => Enqueued(j)
          BY <2>1 DEF Enqueued
    <3>3. QED BY <1>1, <3>1, <3>2
  <2>2. ASSUME EnqueueDirect(w) PROVE Moves
    <3>1. Enqueue({<<"DUBBING", Lesson(w)>>})
          BY <2>2 DEF EnqueueDirect
    <3>2. j \in {<<"DUBBING", Lesson(w)>>} => Enqueued(j)
          BY <2>2 DEF Enqueued
    <3>3. QED BY <1>1, <3>1, <3>2
  <2>3. QED BY <1>2, <1>4, <2>1, <2>2 DEF TransferStep, LocateVideo, LocatePart, DiscoverPart,
            Download, MarkPart, StoreVideo, queue
<1>5. ASSUME NEW w \in Workers, ArchiveStep(w) PROVE Moves
  <2>1. ASSUME ChainExtraction(w) PROVE Moves
    <3>1. Enqueue({CourseJob("INVENTORY")})
          BY <2>1 DEF ChainExtraction
    <3>2. j \in {CourseJob("INVENTORY")} => Enqueued(j)
          BY <2>1 DEF Enqueued
    <3>3. QED BY <1>1, <3>1, <3>2
  <2>2. ASSUME EnqueueDubbing(w) PROVE Moves
    <3>1. PICK l \in todo[w] : Enqueue({<<"DUBBING", l>>})
          BY <2>2 DEF EnqueueDubbing
    <3>2. j \in {<<"DUBBING", l>>} => Enqueued(j)
          BY <2>2 DEF Enqueued
    <3>3. QED BY <1>1, <3>1, <3>2
  <2>3. QED BY <1>2, <1>5, <2>1, <2>2 DEF ArchiveStep, Extract, InsertLessons, queue
<1>6. ASSUME NEW w \in Workers, DubbingStep(w) PROVE Moves
  <2>1. ASSUME EnqueueUpload(w) PROVE Moves
    <3>1. Enqueue({<<"UPLOAD", Lesson(w)>>})
          BY <2>1 DEF EnqueueUpload
    <3>2. j \in {<<"UPLOAD", Lesson(w)>>} => Enqueued(j)
          BY <2>1 DEF Enqueued
    <3>3. QED BY <1>1, <3>1, <3>2
  <2>2. QED BY <1>2, <1>6, <2>1, DubbingFrame
<1>7. ASSUME NEW w \in Workers, UploadStep(w) PROVE Moves
  <2>1. ASSUME ChainUpload(w) PROVE Moves
    <3>1. Enqueue(IF AllUploaded THEN {CourseJob("FINALIZE")} ELSE {})
          BY <2>1 DEF ChainUpload
    <3>2. j \in (IF AllUploaded THEN {CourseJob("FINALIZE")} ELSE {}) => Enqueued(j)
          BY <2>1 DEF Enqueued
    <3>3. QED BY <1>1, <3>1, <3>2
  <2>2. QED BY <1>2, <1>7, <2>1 DEF UploadStep, Send, VerifyStorage, queue
<1>8. ASSUME CallStep PROVE Moves
  <2>1. ASSUME NEW l \in Lessons, DubLesson(l) PROVE Moves
    <3>1. Enqueue({<<"DUB", l>>})
          BY <2>1 DEF DubLesson
    <3>2. j \in {<<"DUB", l>>} => Enqueued(j)
          BY <2>1 DEF Enqueued
    <3>3. QED BY <1>1, <3>1, <3>2
  <2>2. ASSUME NEW l \in Lessons, OverrideEnqueues(l) PROVE Moves
    <3>1. Enqueue({<<"UPLOAD", l>>})
          BY <2>2 DEF OverrideEnqueues
    <3>2. j \in {<<"UPLOAD", l>>} => Enqueued(j)
          BY <2>2 DEF Enqueued
    <3>3. QED BY <1>1, <3>1, <3>2
  <2>3. QED BY <1>2, <1>8, <2>1, <2>2 DEF CallStep, PollEnds, MarkReview, Override,
            OverrideMarks, Finalize, FinalizeEnds, EmitReady, queue
<1>9. ASSUME NEW w \in Workers,
             FinalizeStep(w) \/ ExtractionTimesOut(w) \/ SynthesisFails(w)
      PROVE  Moves
      BY <1>2, <1>9, FinalizeFrame DEF ExtractionTimesOut, SynthesisFails, queue
<1>10. ASSUME NEW a \in Agents, CheckStep(a) PROVE Moves
       BY <1>2, <1>10, CheckFrame DEF queue
<1>11. ASSUME NEW s \in Sweeps, SweepUpdate(s) PROVE Moves
       BY <1>11 DEF SweepUpdate, SweptUp
<1>12. ASSUME RowStep PROVE Moves
       BY <1>2, <1>11, <1>12 DEF RowStep, SweepSelect, LeaseLapses
<1>13. ASSUME UNCHANGED vars PROVE Moves
       BY <1>2, <1>13 DEF vars, queue
<1> HIDE DEF Moves
<1>14. Moves
       BY <1>3, <1>4, <1>5, <1>6, <1>7, <1>8, <1>9, <1>10, <1>12, <1>13, Kinds
<1>15. QED BY <1>14 DEF Moves

\* A row is new only if it was enqueued.
LEMMA NewJobs ==
  ASSUME PipelineOK, [Next]_vars, NEW j \in Jobs, jobs[j] = "ABSENT", jobs'[j] # "ABSENT"
  PROVE  Enqueued(j)
<1>1. ASSUME NEW w \in Workers, Takes(w, j) PROVE FALSE
      BY <1>1 DEF Takes, Claimable, PipelineOK, LeasesOK
<1>2. ASSUME NEW w \in Workers, work[w] = j, Complete(w) \/ FailJob(w) PROVE FALSE
      BY <1>2 DEF Complete, FailJob, PipelineOK, InHand
<1>3. ASSUME SweptUp(j) PROVE FALSE
  <2>1. PICK s \in Sweeps : <<j, "QUEUED">> \in swept[s] \/ <<j, "DEAD_LETTER">> \in swept[s]
        BY <1>3 DEF SweptUp, Reclaims, GivesUp
  <2>2. PICK p \in swept[s] : p[1] = j
        BY <2>1
  <2>3. QED BY <2>2 DEF PipelineOK, LeasesOK
<1>4. QED BY <1>1, <1>2, <1>3, JobMoves

\* Where new requests come from.
LEMMA NewRequests ==
  ASSUME [Next]_vars
  PROVE  \/ requests' \subseteq requests
         \/ \E l \in Lessons : Override(l) \/ DubLesson(l) \/ OverrideMarks(l)
<1>1. ASSUME NEW w \in Workers, StepOf(w) PROVE UNCHANGED requests
      BY <1>1, JobFrame, TransferFrame, ArchiveFrame, DubbingFrame, UploadFrame,
         FinalizeFrame DEF StepOf, ExtractionTimesOut, SynthesisFails, outside
<1>2. ASSUME NEW a \in Agents, CheckStep(a) PROVE UNCHANGED requests
      BY <1>2, CheckFrame DEF outside
<1>3. ASSUME RowStep PROVE UNCHANGED requests
      BY <1>3, RowFrame DEF outside
<1>4. ASSUME CallStep
      PROVE  \/ requests' \subseteq requests
             \/ \E l \in Lessons : Override(l) \/ DubLesson(l) \/ OverrideMarks(l)
      BY <1>4 DEF CallStep, PollEnds, MarkReview, OverrideEnqueues, Finalize, FinalizeEnds,
         EmitReady, outside
<1>5. QED BY <1>1, <1>2, <1>3, <1>4, Kinds DEF StepOf, vars, outside

-----------------------------------------------------------------------------
(* The QC gate: what is stored had a report that passed.                   *)

\* Whoever is about to have a lesson uploaded has its report.
PassedInv ==
  /\ StoredHadPass
  /\ \A l \in Lessons : jobs[<<"UPLOAD", l>>] # "ABSENT" => l \in passed
  /\ \A w \in Workers : pc[w] \in {"pass", "upload"} => Lesson(w) \in passed
  /\ \A l \in Lessons : <<l, "approve">> \in requests \/ <<l, "upload">> \in requests
                          => l \in passed

\* Where reports are recorded.
LEMMA ReportFrame ==
  ASSUME [Next]_vars
  PROVE  \/ UNCHANGED <<report, passed>>
         \/ \E w \in Workers : Judge(w)
         \/ \E l \in Lessons : MarkReview(l) \/ Override(l)
<1>1. ASSUME NEW w \in Workers,
             \/ JobStep(w) \/ TransferStep(w) \/ ArchiveStep(w) \/ UploadStep(w)
             \/ FinalizeStep(w) \/ ExtractionTimesOut(w) \/ SynthesisFails(w)
      PROVE  UNCHANGED <<report, passed>>
      BY <1>1, JobFrame, TransferFrame, ArchiveFrame, UploadFrame, FinalizeFrame
         DEF ExtractionTimesOut, SynthesisFails, lessons
<1>2. ASSUME NEW w \in Workers, DubbingStep(w)
      PROVE  UNCHANGED <<report, passed>> \/ Judge(w)
      BY <1>2 DEF DubbingStep, Dub, MarkVerdict, EnqueueUpload, lessons
<1>3. ASSUME NEW a \in Agents, CheckStep(a) PROVE UNCHANGED <<report, passed>>
      BY <1>3, CheckFrame DEF lessons
<1>4. ASSUME RowStep PROVE UNCHANGED <<report, passed>>
      BY <1>4, RowFrame DEF lessons
<1>5. ASSUME CallStep
      PROVE  UNCHANGED <<report, passed>> \/ \E l \in Lessons : MarkReview(l) \/ Override(l)
      BY <1>5 DEF CallStep, DubLesson, PollEnds, OverrideMarks, OverrideEnqueues, Finalize,
         FinalizeEnds, EmitReady, lessons
<1>6. QED BY <1>1, <1>2, <1>3, <1>4, <1>5, Kinds DEF vars, lessons

\* A report that passed is never taken back.
LEMMA PassedStays ==
  ASSUME [Next]_vars
  PROVE  passed \subseteq passed'
BY ReportFrame DEF Judge, MarkReview, Override, Recorded

\* Where objects are stored.
LEMMA StoredFrame ==
  ASSUME [Next]_vars
  PROVE  UNCHANGED stored \/ \E w \in Workers : VerifyStorage(w)
<1>1. ASSUME NEW w \in Workers,
             \/ JobStep(w) \/ TransferStep(w) \/ ArchiveStep(w) \/ DubbingStep(w)
             \/ FinalizeStep(w) \/ ExtractionTimesOut(w) \/ SynthesisFails(w)
      PROVE  UNCHANGED stored
      BY <1>1, JobFrame, TransferFrame, ArchiveFrame, DubbingFrame, FinalizeFrame
         DEF ExtractionTimesOut, SynthesisFails, lessons
<1>2. ASSUME NEW w \in Workers, UploadStep(w) PROVE UNCHANGED stored \/ VerifyStorage(w)
      BY <1>2 DEF UploadStep, Send, ChainUpload, lessons
<1>3. ASSUME NEW a \in Agents, CheckStep(a) PROVE UNCHANGED stored
      BY <1>3, CheckFrame DEF lessons
<1>4. ASSUME RowStep PROVE UNCHANGED stored
      BY <1>4, RowFrame DEF lessons
<1>5. QED BY <1>1, <1>2, <1>3, <1>4, Kinds, CallFrame DEF vars, lessons

\* Where an agent gets to the steps that a verdict or a check leads to.
LEMMA ArrivalFrame ==
  ASSUME PipelineOK, [Next]_vars, NEW a \in Agents,
         pc'[a] \in {"pass", "upload", "check", "publish", "ready"}
  PROVE  \/ Rests(a)
         \/ a \in Workers /\ (Judge(a) \/ MarkVerdict(a) \/ InsertRelease(a))
         \/ CheckStep(a)
<1> USE DEF PipelineOK, TypeOK, WorkersOK
<1>1. ASSUME NEW w \in Workers, StepOf(w)
      PROVE  Rests(a) \/ (a = w /\ (Judge(w) \/ MarkVerdict(w) \/ InsertRelease(w)))
  <2>1. ASSUME a = w, ~Renew(w) PROVE Judge(w) \/ MarkVerdict(w) \/ InsertRelease(w)
    <3>1. ASSUME NEW p \in Steps \ {"pass", "upload", "check", "publish", "ready"}, Go(w, p)
          PROVE  FALSE
          BY <2>1, <3>1 DEF Go
    <3>2. ASSUME JobStep(w) PROVE FALSE
      <4>1. ASSUME Claims(w) PROVE FALSE
            BY <3>1, <4>1, ClaimGoes DEF Steps
      <4>2. ASSUME Leaves(w) \/ HandlerFails(w) PROVE FALSE
            BY <3>1, <4>2 DEF Leaves, HandlerFails, Go, Steps
      <4>3. QED BY <2>1, <3>2, <4>1, <4>2 DEF JobStep, Complete, FailJob, WorkerDies
    <3>3. ASSUME DubbingStep(w) \/ UploadStep(w) PROVE Judge(w) \/ MarkVerdict(w)
      <4>1. \/ Judge(w) \/ MarkVerdict(w)
            \/ \E p \in {"judge", "verify", "last", "failing", "done"} : Go(w, p)
            BY <3>3 DEF DubbingStep, Dub, EnqueueUpload, UploadStep, Send, VerifyStorage,
               ChainUpload, Go, AfterSend
      <4>2. QED BY <3>1, <4>1 DEF Steps
    <3>4. ASSUME FinalizeStep(w) PROVE InsertRelease(w)
          BY <3>1, <3>4 DEF FinalizeStep, NeedsReview, MarkReady, Steps
    <3>5. ASSUME TransferStep(w) \/ ArchiveStep(w) \/ ExtractionTimesOut(w) \/ SynthesisFails(w)
          PROVE  FALSE
      <4>1. \E p \in {"download", "failing", "discover", "chain", "mark", "done", "direct",
                      "extracted", "enqueue"} : Go(w, p)
            BY <3>5, TransferFrame, ArchiveFrame DEF ExtractionTimesOut, SynthesisFails
      <4>2. QED BY <3>1, <4>1 DEF Steps
    <3>6. QED BY <1>1, <3>2, <3>3, <3>4, <3>5 DEF StepOf
  <2>2. QED BY <1>1, <2>1, OthersRest, RenewRests
<1>2. ASSUME NEW b \in Agents, CheckStep(b) PROVE Rests(a) \/ CheckStep(a)
      BY <1>2, OthersRestInCheck
<1>3. ASSUME CallStep PROVE Rests(a)
  <2>1. UNCHANGED <<todo, seen, work, mine>>
        BY <1>3, CallFrame
  <2>2. pc'[a] = pc[a]
        BY <1>3, CallFrame, Constants DEF Go
  <2>3. QED BY <2>1, <2>2 DEF Rests
<1>4. ASSUME RowStep PROVE Rests(a)
      BY <1>4, RowFrame DEF workers, scratch, Rests
<1>5. ASSUME UNCHANGED vars PROVE Rests(a)
      BY <1>5 DEF vars, workers, scratch, Rests
<1>6. QED BY <1>1, <1>2, <1>3, <1>4, <1>5, Kinds DEF StepOf

\* An agent gets to its check, and on with it, by a step of it.
LEMMA CheckArrival ==
  ASSUME PipelineOK, [Next]_vars, NEW a \in Agents, pc'[a] \in {"check", "publish"}
  PROVE  Rests(a) \/ CheckStep(a)
<1>1. ASSUME a \in Workers, Judge(a) \/ MarkVerdict(a) \/ InsertRelease(a) PROVE FALSE
  <2>1. \E p \in {"pass", "reject", "upload", "failing", "ready"} : Go(a, p)
        BY <1>1 DEF Judge, MarkVerdict, InsertRelease, AfterReject, Go
  <2>2. QED BY <2>1 DEF Go, PipelineOK, TypeOK, WorkersOK
<1>2. QED BY <1>1, ArrivalFrame

\* Where UPLOAD jobs come from.
LEMMA UploadJobs ==
  ASSUME PipelineOK, [Next]_vars, NEW l \in Lessons,
         jobs[<<"UPLOAD", l>>] = "ABSENT", jobs'[<<"UPLOAD", l>>] # "ABSENT"
  PROVE  \/ \E w \in Workers : EnqueueUpload(w) /\ Lesson(w) = l
         \/ OverrideEnqueues(l)
<1>1. Enqueued(<<"UPLOAD", l>>)
      BY NewJobs, Constants DEF LessonKinds
<1>2. QED BY <1>1 DEF Enqueued, NextJob, CourseJob

\* The invariant is kept.
LEMMA PassedStep ==
  ASSUME PipelineOK, PassedInv, [Next]_vars
  PROVE  PassedInv'
<1>1. passed \subseteq passed'
      BY PassedStays
<1>2. StoredHadPass'
  <2>1. ASSUME NEW w \in Workers, VerifyStorage(w) PROVE Lesson(w) \in passed
    <3>1. work[w] \in {"UPLOAD"} \X Lessons /\ jobs[work[w]] # "ABSENT"
          BY <2>1 DEF VerifyStorage, At, PipelineOK, InHand
    <3>2. work[w] = <<"UPLOAD", Lesson(w)>> /\ Lesson(w) \in Lessons
          BY <3>1 DEF Lesson
    <3>3. QED BY <3>1, <3>2 DEF PassedInv
  <2>2. ASSUME NEW w \in Workers, VerifyStorage(w) PROVE StoredHadPass'
        BY <1>1, <2>1, <2>2 DEF VerifyStorage, PassedInv, StoredHadPass, PipelineOK, TypeOK,
           LessonsOK
  <2>3. QED BY <1>1, <2>2, StoredFrame DEF PassedInv, StoredHadPass
<1>3. ASSUME NEW l \in Lessons, jobs'[<<"UPLOAD", l>>] # "ABSENT" PROVE l \in passed'
  <2>1. CASE jobs[<<"UPLOAD", l>>] # "ABSENT"
        BY <1>1, <2>1 DEF PassedInv
  <2>2. CASE jobs[<<"UPLOAD", l>>] = "ABSENT"
    <3>1. ASSUME NEW w \in Workers, EnqueueUpload(w), Lesson(w) = l PROVE l \in passed
          BY <3>1 DEF EnqueueUpload, At, PassedInv
    <3>2. ASSUME OverrideEnqueues(l) PROVE l \in passed
          BY <3>2 DEF OverrideEnqueues, PassedInv
    <3>3. QED BY <1>1, <1>3, <2>2, <3>1, <3>2, UploadJobs
  <2>3. QED BY <2>1, <2>2
<1>4. ASSUME NEW w \in Workers, pc'[w] \in {"pass", "upload"} PROVE Lesson(w)' \in passed'
  <2>1. CASE pc'[w] = pc[w] /\ work'[w] = work[w]
        BY <1>1, <1>4, <2>1 DEF PassedInv, Lesson
  <2>2. ASSUME Judge(w) PROVE Lesson(w)' \in passed'
    <3>1. /\ Recorded(Lesson(w), Passes(w)) /\ UNCHANGED work
          /\ Go(w, IF Passes(w) THEN "pass" ELSE "reject")
          BY <2>2 DEF Judge
    <3>2. Passes(w)
          BY <1>4, <3>1, Constants DEF Go, PipelineOK, TypeOK, WorkersOK
    <3>3. Lesson(w)' = Lesson(w)
          BY <3>1 DEF Lesson
    <3>4. Lesson(w) \in passed'
          BY <3>1, <3>2 DEF Recorded
    <3>5. QED BY <3>3, <3>4
  <2>3. ASSUME MarkVerdict(w) PROVE Lesson(w)' \in passed'
    <3>1. /\ UNCHANGED work
          /\ Go(w, IF At(w, "pass") THEN "upload" ELSE AfterReject)
          BY <2>3 DEF MarkVerdict
    <3>2. At(w, "pass")
          BY <1>4, <3>1, Constants DEF Go, AfterReject, PipelineOK, TypeOK, WorkersOK
    <3>3. Lesson(w)' = Lesson(w)
          BY <3>1 DEF Lesson
    <3>4. QED BY <1>1, <3>2, <3>3 DEF At, PassedInv
  <2>4. ASSUME InsertRelease(w) PROVE FALSE
        BY <1>4, <2>4, Constants DEF InsertRelease, Go, PipelineOK, TypeOK, WorkersOK
  <2>5. ASSUME CheckStep(w) PROVE FALSE
    <3>1. PICK p \in {"review", "check", "publish"} : Go(w, p)
          BY <2>5, CheckFrame, Constants
    <3>2. QED BY <1>4, <3>1, Constants DEF Go, PipelineOK, TypeOK, WorkersOK
  <2>6. QED BY <1>4, <2>1, <2>2, <2>3, <2>4, <2>5, ArrivalFrame, Constants DEF Rests
<1>5. ASSUME NEW l \in Lessons, <<l, "approve">> \in requests' \/ <<l, "upload">> \in requests'
      PROVE  l \in passed'
  <2>1. CASE <<l, "approve">> \in requests \/ <<l, "upload">> \in requests
        BY <1>1, <2>1 DEF PassedInv
  <2>2. ASSUME NEW k \in Lessons, Override(k),
               <<l, "approve">> \notin requests, <<l, "upload">> \notin requests
        PROVE  l \in passed'
        BY <1>5, <2>2 DEF Override, Recorded
  <2>3. ASSUME NEW k \in Lessons, DubLesson(k) \/ OverrideMarks(k) PROVE \/ l \in passed'
            \/ <<l, "approve">> \in requests \/ <<l, "upload">> \in requests
        BY <1>5, <2>3 DEF DubLesson, OverrideMarks
  <2>4. QED BY <1>5, <2>1, <2>2, <2>3, NewRequests
<1>6. QED BY <1>2, <1>3, <1>4, <1>5 DEF PassedInv

\* Nothing gets into storage without a report that passed: for whatever workers share the
\* lesson's file, whichever leases lapse, whoever overrides.
THEOREM GateCorrect == Spec => []StoredHadPass
<1>1. Init => PassedInv
  <2>1. SUFFICES ASSUME Init PROVE PassedInv
        OBVIOUS
  <2>2. \A l \in Lessons : jobs[<<"UPLOAD", l>>] = "ABSENT"
    <3>1. \A l \in Lessons : <<"UPLOAD", l>> \in Jobs
          BY Constants DEF LessonKinds
    <3>2. \A first \in FirstJobs : "UPLOAD" \notin first
          BY FirstJobsAssumption DEF FirstJobsAssumption
    <3>3. QED BY <2>1, <3>1, <3>2 DEF Init
  <2>3. QED BY <2>1, <2>2, Constants DEF Init, PassedInv, StoredHadPass
<1>2. PipelineOK /\ PassedInv /\ [Next]_vars => PassedInv'
      BY PassedStep
<1>3. PassedInv => StoredHadPass
      BY DEF PassedInv
<1>4. QED BY <1>1, <1>2, <1>3, HandsCorrect, PTL DEF Spec

-----------------------------------------------------------------------------
(* Releases are complete.                                                  *)

\* A lesson that a release may have.
Releasable(l) == l \in passed /\ stored[l] # {}

\* What a completeness check has read stays so until its release is there.
ReleaseInv ==
  /\ ReleaseComplete
  /\ \A l \in Lessons : report[l] = "PASSED" => l \in passed
  /\ \A a \in Agents : pc[a] \in {"check", "publish"} => \A l \in seen[a] : Releasable(l)
  /\ \A a \in Agents : pc[a] = "publish" => seen[a] # {}
  /\ \A a \in Agents : pc[a] = "ready" => releases # {}

\* A lesson that may be released may always be.
LEMMA ReleasableStays ==
  ASSUME PipelineOK, [Next]_vars, NEW l \in Lessons, Releasable(l)
  PROVE  Releasable(l)'
<1>1. stored'[l] # {}
  <2>1. ASSUME NEW w \in Workers, VerifyStorage(w) PROVE stored'[l] # {}
        BY <2>1 DEF VerifyStorage, Releasable, PipelineOK, TypeOK, LessonsOK
  <2>2. QED BY <2>1, StoredFrame DEF Releasable
<1>2. QED BY <1>1, PassedStays DEF Releasable

\* A report that passed makes its lesson one that has passed.
LEMMA ReportStep ==
  ASSUME PipelineOK, ReleaseInv, [Next]_vars, NEW l \in Lessons, report'[l] = "PASSED"
  PROVE  l \in passed'
<1>1. CASE UNCHANGED <<report, passed>>
      BY <1>1 DEF ReleaseInv
<1>2. ASSUME NEW k, NEW ok, Recorded(k, ok) PROVE l \in passed'
      BY <1>2 DEF Recorded, ReleaseInv, PipelineOK, TypeOK, LessonsOK
<1>3. QED BY <1>1, <1>2, ReportFrame DEF Judge, MarkReview, Override

\* Releases are never withdrawn.
LEMMA ReleasesStay ==
  ASSUME [Next]_vars
  PROVE  releases \subseteq releases'
BY ReleaseFrame DEF InsertRelease, MarkReady, EmitReady, release

\* Every release that is inserted is what a check has read.
LEMMA ReleasesStep ==
  ASSUME PipelineOK, ReleaseInv, [Next]_vars
  PROVE  ReleaseComplete'
<1>1. ASSUME NEW r \in releases PROVE r # {} /\ \A l \in r : Releasable(l)
      BY <1>1 DEF ReleaseInv, ReleaseComplete, Releasable
<1>2. ASSUME NEW a \in Agents, pc[a] = "publish"
      PROVE  seen[a] # {} /\ \A l \in seen[a] : Releasable(l)
      BY <1>2 DEF ReleaseInv
<1>3. ASSUME NEW r \in releases', r \notin releases
      PROVE  \E a \in Agents : pc[a] = "publish" /\ r = seen[a]
      BY <1>3, ReleaseFrame, Constants DEF InsertRelease, MarkReady, EmitReady, release, At
<1>4. ASSUME NEW r \in releases'
      PROVE  r # {} /\ \A l \in r : Releasable(l)'
  <2>1. r # {} /\ r \subseteq Lessons /\ \A l \in r : Releasable(l)
        BY <1>1, <1>2, <1>3 DEF PipelineOK, TypeOK, ReleaseOK, WorkersOK
  <2>2. QED BY <2>1, ReleasableStays
<1>5. course' = "READY" => releases' # {}
  <2>1. ASSUME NEW w \in Workers, MarkReady(w) PROVE releases' # {}
        BY <2>1, Constants DEF MarkReady, At, ReleaseInv
  <2>2. ASSUME NEW w \in Workers, InsertRelease(w) PROVE releases' # {}
        BY <2>2 DEF InsertRelease
  <2>3. ASSUME EmitReady PROVE course' = "READY" => releases' # {}
        BY <2>3 DEF EmitReady, release, ReleaseInv, ReleaseComplete
  <2>4. QED BY <2>1, <2>2, <2>3, ReleaseFrame DEF release, ReleaseInv, ReleaseComplete
<1>6. QED BY <1>4, <1>5 DEF ReleaseComplete, Releasable

\* A check goes on only with a lesson that may be released.
LEMMA CheckGoesOn ==
  ASSUME PipelineOK, ReleaseInv, NEW a \in Agents, CheckStep(a),
         pc'[a] \in {"check", "publish"}
  PROVE  /\ \A l \in seen'[a] : Releasable(l)
         /\ pc'[a] = "publish" => seen'[a] # {}
<1>1. CASE ListLessons(a)
  <2>1. seen'[a] = {} /\ pc'[a] # "publish"
        BY <1>1 DEF ListLessons, Go, PipelineOK, TypeOK, WorkersOK
  <2>2. QED BY <2>1
<1>2. CASE CheckLesson(a)
  <2>1. PICK l \in todo[a] :
          /\ seen' = [seen EXCEPT ![a] = @ \cup {l}]
          /\ Go(a, IF ~LessonComplete(l) THEN "review"
                   ELSE IF todo[a] = {l} THEN "publish" ELSE "check")
        BY <1>2 DEF CheckLesson
  <2>2. seen'[a] = seen[a] \cup {l}
        BY <2>1 DEF PipelineOK, TypeOK, WorkersOK
  <2>3. LessonComplete(l)
        BY <2>1 DEF Go, PipelineOK, TypeOK, WorkersOK
  <2>4. l \in Lessons
        BY <2>1 DEF PipelineOK, TypeOK, WorkersOK
  <2>5. Releasable(l)
        BY <2>3, <2>4 DEF LessonComplete, ReleaseInv, Releasable
  <2>6. \A k \in seen[a] : Releasable(k)
        BY <1>2 DEF CheckLesson, At, ReleaseInv
  <2>7. QED BY <2>2, <2>5, <2>6
<1>3. QED BY <1>1, <1>2 DEF CheckStep

\* The invariant is kept.
LEMMA ReleaseStep ==
  ASSUME PipelineOK, ReleaseInv, [Next]_vars
  PROVE  ReleaseInv'
<1>1. ASSUME NEW a \in Agents, pc'[a] \in {"check", "publish"}
      PROVE  /\ \A l \in seen'[a] : Releasable(l)'
             /\ pc'[a] = "publish" => seen'[a] # {}
  <2>1. /\ \A l \in seen'[a] : Releasable(l)
        /\ pc'[a] = "publish" => seen'[a] # {}
    <3>1. CASE Rests(a)
          BY <1>1, <3>1 DEF Rests, ReleaseInv
    <3>2. CASE CheckStep(a)
          BY <1>1, <3>2, CheckGoesOn
    <3>3. QED BY <1>1, <3>1, <3>2, CheckArrival
  <2>2. seen'[a] \subseteq Lessons
        BY StepType DEF PipelineOK, TypeOK, WorkersOK
  <2>3. QED BY <2>1, <2>2, ReleasableStays
<1>2. ASSUME NEW a \in Agents, pc'[a] = "ready" PROVE releases' # {}
  <2>1. CASE pc'[a] = pc[a]
        BY <1>2, <2>1, ReleasesStay DEF ReleaseInv
  <2>2. CASE a \in Workers /\ InsertRelease(a)
        BY <2>2 DEF InsertRelease
  <2>3. ASSUME a \in Workers, Judge(a) \/ MarkVerdict(a) PROVE FALSE
    <3>1. \E p \in {"pass", "reject", "upload", "failing"} : Go(a, p)
          BY <2>3 DEF Judge, MarkVerdict, AfterReject, Go
    <3>2. QED BY <1>2, <3>1 DEF Go, PipelineOK, TypeOK, WorkersOK
  <2>4. ASSUME CheckStep(a) PROVE FALSE
    <3>1. PICK p \in {"review", "check", "publish"} : Go(a, p)
          BY <2>4, CheckFrame
    <3>2. QED BY <1>2, <3>1 DEF Go, PipelineOK, TypeOK, WorkersOK
  <2>5. QED BY <1>2, <2>1, <2>2, <2>3, <2>4, ArrivalFrame DEF Rests
<1>3. QED BY <1>1, <1>2, ReleasesStep, ReportStep DEF ReleaseInv

\* A release has lessons, and every one of them a report that passed and a stored object;
\* a READY course has a release.
THEOREM ReleaseCorrect == Spec => []ReleaseComplete
<1>1. Init => ReleaseInv
      BY Constants DEF Init, ReleaseInv, ReleaseComplete
<1>2. PipelineOK /\ ReleaseInv /\ [Next]_vars => ReleaseInv'
      BY ReleaseStep
<1>3. ReleaseInv => ReleaseComplete
      BY DEF ReleaseInv
<1>4. QED BY <1>1, <1>2, <1>3, HandsCorrect, PTL DEF Spec

-----------------------------------------------------------------------------
(* As long as nothing fails, no lease lapses and no claim is contested,    *)
(* every job in execution has one worker.                                  *)

\* The jobs that workers execute are PROCESSING and bear their tokens, so no two are the
\* same; those that they claim still wait, and each has one worker that claims it.
Exclusive ==
  /\ lapsed = {} /\ \A s \in Sweeps : swept[s] = {}
  /\ \A w \in Workers :
       /\ pc[w] \notin {"idle", "claiming"} =>
            jobs[work[w]] = "PROCESSING" /\ holder[work[w]] = w
       /\ pc[w] = "claiming" => jobs[work[w]] = "QUEUED"
  /\ \A v, w \in Workers : pc[v] = "claiming" /\ pc[w] = "claiming" /\ work[v] = work[w] => v = w

ExclusiveInv == Undisturbed => Exclusive

\* What was disturbed remains so, and a step that disturbs nothing is no fault.
LEMMA CalmSteps ==
  ASSUME PipelineOK, [Next]_vars, Undisturbed'
  PROVE  /\ Undisturbed
         /\ \A w \in Workers : /\ ~HandlerFails(w) /\ ~WorkerDies(w)
                               /\ ~ExtractionTimesOut(w) /\ ~SynthesisFails(w)
         /\ \A j \in Jobs : ~LeaseLapses(j)
         /\ \A w \in Workers : \A j \in Jobs : ClaimSelect(w, j) => ~Contested(j)
         /\ calls' = 0 => calls = 0
<1> USE DEF PipelineOK, TypeOK, OutsideOK, Undisturbed
<1> DEFINE Grows == /\ faults <= faults' /\ lapses <= lapses' /\ contests <= contests'
                    /\ calls <= calls'
                    /\ faults' \in Nat /\ lapses' \in Nat /\ contests' \in Nat /\ calls' \in Nat
<1>1. ASSUME UNCHANGED <<outside, bounds>> PROVE Grows
      BY <1>1 DEF outside, bounds
<1>2. ASSUME NEW w \in Workers, HandlerFails(w) \/ WorkerDies(w) \/ ExtractionTimesOut(w)
                                \/ SynthesisFails(w)
      PROVE  Grows /\ faults' = faults + 1
      BY <1>2 DEF HandlerFails, WorkerDies, ExtractionTimesOut, SynthesisFails, outside
<1>3. ASSUME NEW j \in Jobs, LeaseLapses(j) PROVE Grows /\ lapses' = lapses + 1
      BY <1>3 DEF LeaseLapses, outside
<1>4. ASSUME CallStep PROVE Grows
  <2>1. UNCHANGED bounds
        BY <1>4, CallFrame
  <2>2. calls' = calls \/ calls' = calls + 1
        BY <1>4 DEF CallStep, DubLesson, PollEnds, MarkReview, Override, OverrideMarks,
           OverrideEnqueues, Finalize, FinalizeEnds, EmitReady, outside
  <2>3. QED BY <2>1, <2>2 DEF bounds
<1>5. ASSUME NEW w \in Workers, JobStep(w) PROVE Grows
  <2>1. ASSUME NEW j \in Jobs, ClaimSelect(w, j) PROVE Grows
        BY <2>1 DEF ClaimSelect, outside
  <2>2. QED BY <1>1, <1>2, <1>5, <2>1 DEF JobStep, Claims, ClaimUpdate, Renew, Complete, FailJob
<1>6. ASSUME NEW w \in Workers,
             TransferStep(w) \/ ArchiveStep(w) \/ DubbingStep(w) \/ UploadStep(w)
             \/ FinalizeStep(w)
      PROVE  Grows
      BY <1>1, <1>6, TransferFrame, ArchiveFrame, DubbingFrame, UploadFrame, FinalizeFrame
<1>7. ASSUME NEW a \in Agents, CheckStep(a) PROVE Grows
      BY <1>1, <1>7, CheckFrame
<1>8. ASSUME RowStep PROVE Grows
      BY <1>1, <1>3, <1>8 DEF RowStep, SweepSelect, SweepUpdate
<1>9. ASSUME UNCHANGED vars PROVE Grows
      BY <1>1, <1>9 DEF vars
<1>10. Grows
  <2> HIDE DEF Grows
  <2> QED BY <1>2, <1>3, <1>4, <1>5, <1>6, <1>7, <1>8, <1>9, Kinds
<1>11. Undisturbed /\ (calls' = 0 => calls = 0)
       BY <1>10
<1>12. \A w \in Workers : ~HandlerFails(w) /\ ~WorkerDies(w)
                          /\ ~ExtractionTimesOut(w) /\ ~SynthesisFails(w)
       BY <1>2
<1>13. \A j \in Jobs : ~LeaseLapses(j)
       BY <1>3
<1>14. \A w \in Workers : \A j \in Jobs : ClaimSelect(w, j) => ~Contested(j)
  <2>1. ASSUME NEW w \in Workers, NEW j \in Jobs, ClaimSelect(w, j), Contested(j)
        PROVE  contests' = contests + 1
        BY <2>1 DEF ClaimSelect
  <2>2. contests \in Nat /\ contests' = 0
        OBVIOUS
  <2>3. QED BY <2>1, <2>2
<1>15. QED BY <1>11, <1>12, <1>13, <1>14

\* What a worker that is left with a job has done with it.
LEMMA CalmJobStep ==
  ASSUME PipelineOK, Exclusive, [Next]_vars, Undisturbed', NEW w \in Workers, JobStep(w),
         pc'[w] # "idle"
  PROVE  \/ \E j \in Jobs : ClaimSelect(w, j) /\ jobs[j] = "QUEUED" /\ ~Contested(j)
         \/ Takes(w, work[w])
<1>1. ASSUME Leaves(w) PROVE FALSE
      BY <1>1, Constants DEF Leaves, PipelineOK, TypeOK, WorkersOK
<1>2. ~Renew(w)
      BY DEF Renew, Exclusive
<1>3. ASSUME ClaimUpdate(w) PROVE Takes(w, work[w])
      BY <1>3 DEF ClaimUpdate, Takes, Claimable, Exclusive
<1>4. ASSUME NEW j \in Jobs, ClaimSelect(w, j) PROVE jobs[j] = "QUEUED" /\ ~Contested(j)
  <2>1. ~Contested(j)
        BY <1>4, CalmSteps
  <2>2. jobs[j] = "QUEUED"
        BY <1>4 DEF ClaimSelect, Claimable, Exclusive
  <2>3. QED BY <2>1, <2>2
<1>5. QED BY <1>1, <1>2, <1>3, <1>4, CalmSteps DEF JobStep, Claims, Complete, FailJob

\* The rows' tokens, and that no lease runs out.
LEMMA CalmQueue ==
  ASSUME PipelineOK, Exclusive, [Next]_vars, Undisturbed'
  PROVE  /\ lapsed' = {} /\ \A s \in Sweeps : swept'[s] = {}
         /\ \A j \in Jobs : \/ holder'[j] = holder[j]
                            \/ \E w \in Workers : Takes(w, j) /\ holder'[j] = w
                            \/ \E w \in Workers : holder[j] = w /\ Leaves(w)
<1> USE DEF PipelineOK, TypeOK, QueueOK, Exclusive
<1> DEFINE Calm == /\ lapsed' = {} /\ \A s \in Sweeps : swept'[s] = {}
                   /\ \A j \in Jobs : \/ holder'[j] = holder[j]
                                      \/ \E w \in Workers : Takes(w, j) /\ holder'[j] = w
                                      \/ \E w \in Workers : holder[j] = w /\ Leaves(w)
<1>1. ASSUME UNCHANGED <<holder, lapsed, swept>> PROVE Calm
      BY <1>1
<1>2. ASSUME NEW w \in Workers, ClaimUpdate(w) PROVE Calm
  <2>1. \/ /\ Claimable(work[w]) /\ holder' = [holder EXCEPT ![work[w]] = w]
           /\ lapsed' = lapsed \ {work[w]}
        \/ UNCHANGED <<holder, lapsed>>
        BY <1>2 DEF ClaimUpdate
  <2>2. UNCHANGED swept
        BY <1>2 DEF ClaimUpdate
  <2>3. QED BY <1>2, <2>1, <2>2 DEF Takes
<1>3. ASSUME NEW w \in Workers, Complete(w) \/ FailJob(w) PROVE Calm
  <2>1. Leaves(w) /\ UNCHANGED swept /\ (UNCHANGED lapsed \/ lapsed' = lapsed \ {work[w]})
        BY <1>3 DEF Complete, FailJob
  <2>2. holder' = [j \in Jobs |-> IF holder[j] = w THEN NoWorker ELSE holder[j]]
        BY <2>1 DEF Leaves
  <2>3. QED BY <2>1, <2>2
<1>4. ASSUME NEW w \in Workers, JobStep(w) PROVE Calm
  <2>1. ~Renew(w)
        BY DEF Renew
  <2>2. ASSUME NEW j \in Jobs, ClaimSelect(w, j) PROVE Calm
        BY <1>1, <2>2 DEF ClaimSelect, queue
  <2> HIDE DEF Calm
  <2>3. QED BY <1>2, <1>3, <1>4, <2>1, <2>2, CalmSteps DEF JobStep, Claims
<1>5. ASSUME NEW w \in Workers,
             TransferStep(w) \/ ArchiveStep(w) \/ DubbingStep(w) \/ UploadStep(w)
             \/ FinalizeStep(w)
      PROVE  UNCHANGED <<holder, lapsed, swept>>
      BY <1>5, TransferFrame, ArchiveFrame, DubbingFrame, UploadFrame, FinalizeFrame DEF queue
<1>6. ASSUME NEW a \in Agents, CheckStep(a) PROVE UNCHANGED <<holder, lapsed, swept>>
      BY <1>6, CheckFrame DEF queue
<1>7. ASSUME CallStep PROVE UNCHANGED <<holder, lapsed, swept>>
      BY <1>7, CallFrame
<1>8. ASSUME NEW s \in Sweeps, SweepSelect(s) \/ SweepUpdate(s) PROVE FALSE
      BY <1>8 DEF SweepSelect, SweepUpdate
<1>9. ASSUME UNCHANGED vars PROVE UNCHANGED <<holder, lapsed, swept>>
      BY <1>9 DEF vars, queue
<1> HIDE DEF Calm
<1>10. Calm
       BY <1>1, <1>4, <1>5, <1>6, <1>7, <1>8, <1>9, CalmSteps, Kinds DEF RowStep
<1>11. QED BY <1>10 DEF Calm

\* A job that a worker executes remains its job.
LEMMA ExecutionStays ==
  ASSUME PipelineOK, Exclusive, [Next]_vars, Undisturbed', NEW w \in Workers,
         pc[w] \notin {"idle", "claiming"}, work'[w] = work[w], pc'[w] # "idle"
  PROVE  jobs'[work'[w]] = "PROCESSING" /\ holder'[work'[w]] = w
<1>1. work[w] \in Jobs /\ jobs[work[w]] = "PROCESSING" /\ holder[work[w]] = w
      BY DEF Exclusive, PipelineOK, InHand
<1>2. ~Leaves(w)
      BY Constants DEF Leaves, PipelineOK, TypeOK, WorkersOK
<1>3. ASSUME NEW v \in Workers, work[v] = work[w], Complete(v) \/ FailJob(v) PROVE FALSE
  <2>1. pc[v] \notin {"idle", "claiming"} /\ Leaves(v)
        BY <1>3 DEF Complete, FailJob
  <2>2. v = w
        BY <1>1, <1>3, <2>1 DEF Exclusive
  <2>3. QED BY <1>2, <2>1, <2>2
<1>4. ASSUME NEW v \in Workers, Takes(v, work[w]) PROVE FALSE
      BY <1>1, <1>4 DEF Takes, Claimable, Exclusive
<1>5. ~SweptUp(work[w])
      BY DEF SweptUp, SweepUpdate, Exclusive
<1>6. jobs'[work[w]] = "PROCESSING"
      BY <1>1, <1>3, <1>4, <1>5, JobMoves
<1>7. holder'[work[w]] = w
      BY <1>1, <1>2, <1>4, CalmQueue
<1>8. QED BY <1>6, <1>7

\* A worker gets to its claim by selecting a row.
LEMMA ClaimArrival ==
  ASSUME PipelineOK, Exclusive, [Next]_vars, Undisturbed', NEW w \in Workers,
         pc'[w] = "claiming"
  PROVE  Rests(w) \/ \E j \in Jobs : ClaimSelect(w, j) /\ jobs[j] = "QUEUED" /\ ~Contested(j)
<1>1. ASSUME NEW p, Go(w, p) PROVE p = "claiming"
      BY <1>1, Constants DEF Go, PipelineOK, TypeOK, WorkersOK
<1>2. ASSUME TransferStep(w) \/ ArchiveStep(w) \/ DubbingStep(w) \/ UploadStep(w)
             \/ FinalizeStep(w) \/ CheckStep(w)
      PROVE  FALSE
  <2>1. ASSUME DubbingStep(w) \/ UploadStep(w)
        PROVE  \E p \in Steps \ {"claiming"} : Go(w, p)
        BY <2>1 DEF DubbingStep, Dub, Judge, MarkVerdict, EnqueueUpload, UploadStep, Send,
           VerifyStorage, ChainUpload, Go, AfterReject, AfterSend, Steps
  <2>2. \E p \in Steps \ {"claiming"} : Go(w, p)
        BY <1>2, <2>1, TransferFrame, ArchiveFrame, FinalizeFrame, CheckFrame, Constants DEF Steps
  <2>3. QED BY <1>1, <2>2
<1>3. ASSUME Takes(w, work[w]) PROVE FALSE
  <2>1. work[w] \in Jobs /\ Go(w, FirstStep(work[w][1]))
        BY <1>3 DEF Takes, ClaimUpdate, Go, PipelineOK, InHand
  <2>2. QED BY <1>1, <2>1, FirstSteps
<1>4. QED BY <1>2, <1>3, CalmSteps, CalmJobStep, WorkerMoves DEF StepOf

\* A job that a worker claims waits until the worker takes it.
LEMMA ClaimStays ==
  ASSUME PipelineOK, Exclusive, [Next]_vars, Undisturbed', NEW w \in Workers,
         pc'[w] = "claiming"
  PROVE  jobs'[work'[w]] = "QUEUED"
<1>1. CASE Rests(w)
  <2>1. pc[w] = "claiming" /\ work'[w] = work[w]
        BY <1>1 DEF Rests
  <2>2. work[w] \in Jobs /\ jobs[work[w]] = "QUEUED"
        BY <2>1 DEF Exclusive, PipelineOK, InHand
  <2>3. ASSUME NEW v \in Workers, Takes(v, work[w]) PROVE FALSE
    <3>1. v = w
          BY <2>1, <2>3 DEF Takes, ClaimUpdate, Exclusive
    <3>2. Go(w, FirstStep(work[w][1]))
          BY <2>3, <3>1 DEF Takes, ClaimUpdate, Go
    <3>3. pc'[w] = FirstStep(work[w][1])
          BY <3>2, Constants DEF Go, PipelineOK, TypeOK, WorkersOK
    <3>4. QED BY <2>2, <3>3, FirstSteps
  <2>4. ASSUME NEW v \in Workers, work[v] = work[w], Complete(v) \/ FailJob(v) PROVE FALSE
        BY <2>2, <2>4 DEF Complete, FailJob, Exclusive
  <2>5. ~SweptUp(work[w])
        BY DEF SweptUp, SweepUpdate, Exclusive
  <2>6. QED BY <2>1, <2>2, <2>3, <2>4, <2>5, JobMoves
<1>2. ASSUME NEW j \in Jobs, ClaimSelect(w, j), jobs[j] = "QUEUED" PROVE jobs'[work'[w]] = "QUEUED"
      BY <1>2 DEF ClaimSelect, queue, PipelineOK, TypeOK, WorkersOK
<1>3. QED BY <1>1, <1>2, ClaimArrival

\* No two workers claim a job.
LEMMA ClaimsDiffer ==
  ASSUME PipelineOK, Exclusive, [Next]_vars, Undisturbed', NEW v \in Workers, NEW w \in Workers,
         pc'[v] = "claiming", pc'[w] = "claiming", work'[v] = work'[w]
  PROVE  v = w
<1>1. ASSUME NEW x \in Workers, NEW y \in Workers, x # y, NEW j \in Jobs, ClaimSelect(x, j),
             ~Contested(j), pc'[y] = "claiming", work'[x] = work'[y]
      PROVE  FALSE
  <2>1. Rests(y)
        BY <1>1, OthersRest, Constants DEF StepOf, JobStep, Claims
  <2>2. pc[y] = "claiming" /\ work[y] = work'[y]
        BY <1>1, <2>1 DEF Rests
  <2>3. work'[x] = j
        BY <1>1 DEF ClaimSelect, PipelineOK, TypeOK, WorkersOK
  <2>4. Contested(j)
        BY <1>1, <2>2, <2>3 DEF Contested
  <2>5. QED BY <1>1, <2>4
<1>2. CASE Rests(v) /\ Rests(w)
      BY <1>2 DEF Rests, Exclusive
<1>3. QED BY <1>1, <1>2, ClaimArrival

\* The invariant is kept.
LEMMA ExclusiveStep ==
  ASSUME PipelineOK, ExclusiveInv, [Next]_vars
  PROVE  ExclusiveInv'
<1>1. SUFFICES ASSUME Undisturbed' PROVE Exclusive'
      BY DEF ExclusiveInv
<1>2. Exclusive
      BY <1>1, CalmSteps DEF ExclusiveInv
<1>3. ASSUME NEW w \in Workers, pc'[w] \notin {"idle", "claiming"}
      PROVE  jobs'[work'[w]] = "PROCESSING" /\ holder'[work'[w]] = w
  <2>1. ASSUME Takes(w, work[w])
        PROVE  jobs'[work'[w]] = "PROCESSING" /\ holder'[work'[w]] = w
    <3>1. work[w] \in Jobs
          BY <2>1 DEF Takes, ClaimUpdate, PipelineOK, InHand
    <3>2. QED BY <2>1, <3>1 DEF Takes, ClaimUpdate, PipelineOK, TypeOK, QueueOK
  <2>2. ASSUME pc[w] \notin {"idle", "claiming"}, work'[w] = work[w]
        PROVE  jobs'[work'[w]] = "PROCESSING" /\ holder'[work'[w]] = w
        BY <1>1, <1>2, <1>3, <2>2, ExecutionStays
  <2>3. CASE Rests(w)
        BY <1>3, <2>2, <2>3 DEF Rests
  <2>4. CASE StepOf(w)
    <3>1. ASSUME JobStep(w) PROVE Takes(w, work[w])
      <4>1. ASSUME NEW j \in Jobs, ClaimSelect(w, j) PROVE FALSE
            BY <1>3, <4>1, Constants DEF ClaimSelect, PipelineOK, TypeOK, WorkersOK
      <4>2. QED BY <1>1, <1>2, <1>3, <3>1, <4>1, CalmJobStep
    <3>2. ASSUME TransferStep(w) \/ ArchiveStep(w) \/ DubbingStep(w) \/ UploadStep(w)
                 \/ FinalizeStep(w)
          PROVE  pc[w] \notin {"idle", "claiming"} /\ work'[w] = work[w]
          BY <3>2, TransferFrame, ArchiveFrame, DubbingFrame, UploadFrame, FinalizeFrame
    <3>3. QED BY <1>1, <2>1, <2>2, <2>4, <3>1, <3>2, CalmSteps DEF StepOf
  <2>5. CASE CheckStep(w)
        BY <2>2, <2>5, CheckFrame, Constants
  <2>6. QED BY <2>3, <2>4, <2>5, WorkerMoves
<1>4. \A w \in Workers : pc'[w] = "claiming" => jobs'[work'[w]] = "QUEUED"
      BY <1>1, <1>2, ClaimStays
<1>5. \A v, w \in Workers :
        pc'[v] = "claiming" /\ pc'[w] = "claiming" /\ work'[v] = work'[w] => v = w
      BY <1>1, <1>2, ClaimsDiffer
<1>6. lapsed' = {} /\ \A s \in Sweeps : swept'[s] = {}
      BY <1>1, <1>2, CalmQueue
<1>7. QED BY <1>3, <1>4, <1>5, <1>6 DEF Exclusive

\* A job in execution is in execution once, unless something failed.
THEOREM ExecutedOnce == Spec => []ExclusiveInv
<1>1. Init => ExclusiveInv
      BY Constants DEF Init, ExclusiveInv, Exclusive
<1>2. PipelineOK /\ ExclusiveInv /\ [Next]_vars => ExclusiveInv'
      BY ExclusiveStep
<1>3. QED BY <1>1, <1>2, HandsCorrect, PTL DEF Spec

\* A worker with the job that a worker executes is that worker.
LEMMA OneWorker ==
  ASSUME Exclusive, NEW v \in Workers, NEW w \in Workers,
         pc[v] # "idle", pc[w] \notin {"idle", "claiming"}, work[v] = work[w]
  PROVE  v = w
BY DEF Exclusive

-----------------------------------------------------------------------------
(* Which kinds of job have which steps, and that no job and no request is  *)
(* about a lesson without a row.                                           *)

TransferJobs == {CourseJob("TRANSFER"), CourseJob("INGEST")}

\* The steps of the TRANSFER, EXTRACTION and INVENTORY handlers are steps of such jobs.
RightKind(w) ==
  /\ pc[w] \in {"insert", "enqueue"} => work[w] = CourseJob("INVENTORY")
  /\ pc[w] \in {"extract", "extracted"} => work[w] = CourseJob("EXTRACTION")
  /\ pc[w] \in {"discover", "mark", "chain"} => work[w] \in TransferJobs
  /\ pc[w] \in {"locate", "download"} => work[w] \in TransferJobs \cup ({"FETCH"} \X Lessons)
  /\ pc[w] = "direct" => work[w] \in {"FETCH"} \X Lessons

KindsInv == \A w \in Workers : RightKind(w)

\* A worker that goes where its handler leads.
LEMMA KindsStep ==
  ASSUME PipelineOK, KindsInv, [Next]_vars
  PROVE  KindsInv'
<1> USE DEF PipelineOK, TypeOK, WorkersOK
<1>1. ASSUME NEW w \in Workers, NEW p, Go(w, p) PROVE pc'[w] = p
      BY <1>1, Constants DEF Go
<1>2. ASSUME NEW w \in Workers PROVE RightKind(w)'
  <2>1. RightKind(w)
        BY DEF KindsInv
  <2>2. ASSUME pc'[w] \in Steps \ {"insert", "enqueue", "extract", "extracted", "discover", "mark",
                                   "chain", "locate", "download", "direct"}
        PROVE  RightKind(w)'
        BY <2>2 DEF RightKind
  <2>3. CASE Rests(w)
        BY <2>1, <2>3 DEF Rests, RightKind
  <2>4. ASSUME ClaimUpdate(w) PROVE RightKind(w)'
    <3> DEFINE j == work[w]
    <3>1. j \in Jobs /\ work'[w] = j /\ pc'[w] = FirstStep(j[1])
          BY <2>4, Constants DEF ClaimUpdate, InHand
    <3> HIDE DEF j
    <3>2. /\ FirstStep(j[1]) \in {"locate", "dub", "extract", "insert", "send", "list"}
          /\ FirstStep(j[1]) = "locate" => j[1] \in {"TRANSFER", "INGEST", "FETCH"}
          /\ FirstStep(j[1]) = "extract" => j[1] = "EXTRACTION"
          /\ FirstStep(j[1]) = "insert" => j[1] = "INVENTORY"
          BY <3>1 DEF FirstStep, Jobs, CourseKinds, LessonKinds
    <3>3. /\ j[1] \in {"TRANSFER", "INGEST"} => j \in TransferJobs
          /\ j[1] = "FETCH" => j \in {"FETCH"} \X Lessons
          /\ j[1] = "EXTRACTION" => j = CourseJob("EXTRACTION")
          /\ j[1] = "INVENTORY" => j = CourseJob("INVENTORY")
          BY <3>1 DEF Jobs, LessonKinds, CourseKinds, TransferJobs, CourseJob
    <3>4. QED BY <3>1, <3>2, <3>3 DEF RightKind
  <2>5. ASSUME NEW p \in Steps \ {"insert", "enqueue", "extract", "extracted", "discover", "mark",
                                   "chain", "locate", "download", "direct"}, Go(w, p)
        PROVE  RightKind(w)'
        BY <1>1, <2>2, <2>5
  <2>6. CASE JobStep(w)
    <3>1. ASSUME Leaves(w) PROVE RightKind(w)'
          BY <2>5, <3>1 DEF Leaves, Go, Steps
    <3>2. ASSUME HandlerFails(w) PROVE RightKind(w)'
          BY <2>5, <3>2 DEF HandlerFails, Go, Steps
    <3>3. ASSUME NEW j \in Jobs, ClaimSelect(w, j) PROVE RightKind(w)'
          BY <2>5, <3>3 DEF ClaimSelect, Go, Steps
    <3>4. ASSUME Renew(w) PROVE RightKind(w)'
          BY <2>3, <3>4, RenewRests, Constants
    <3>5. QED BY <2>4, <2>6, <3>1, <3>2, <3>3, <3>4 DEF JobStep, Claims, Complete, FailJob,
              WorkerDies
  <2>7. CASE TransferStep(w)
    <3>1. work'[w] = work[w]
          BY <2>7, TransferFrame
    <3>2. /\ pc[w] \in {"locate", "discover", "download", "mark", "chain", "direct"}
          /\ \E p : /\ Go(w, p)
                    /\ p \in {"discover", "mark", "chain"} =>
                         \/ pc[w] \in {"locate", "download"} /\ KindOf(w) # "FETCH"
                         \/ pc[w] \in {"discover", "mark"}
                    /\ p = "download" => pc[w] \in {"locate", "discover"}
                    /\ p = "direct" => pc[w] = "download" /\ KindOf(w) = "FETCH"
                    /\ p \in {"discover", "mark", "chain", "download", "direct", "failing", "done"}
      <4>1. ASSUME LocateVideo(w)
            PROVE  pc[w] = "locate" /\ \E p \in {"download", "failing"} : Go(w, p)
            BY <4>1 DEF LocateVideo, At
      <4>2. ASSUME LocatePart(w) PROVE pc[w] = "locate" /\ Go(w, "download")
            BY <4>2 DEF LocatePart, At
      <4>3. ASSUME DiscoverPart(w)
            PROVE  /\ pc[w] = "discover" \/ (pc[w] = "locate" /\ KindOf(w) # "FETCH")
                   /\ Go(w, "download") \/ Go(w, "discover")
            BY <4>3 DEF DiscoverPart, At
      <4>4. ASSUME Download(w)
            PROVE  /\ pc[w] = "download" /\ KindOf(w) # "FETCH"
                   /\ Go(w, "chain") \/ Go(w, "mark")
            BY <4>4 DEF Download, At
      <4>5. ASSUME MarkPart(w) PROVE pc[w] = "mark" /\ Go(w, "chain")
            BY <4>5 DEF MarkPart, At
      <4>6. ASSUME ChainTransfer(w) PROVE pc[w] = "chain" /\ Go(w, "done")
            BY <4>6 DEF ChainTransfer, At
      <4>7. ASSUME StoreVideo(w) PROVE pc[w] = "download" /\ KindOf(w) = "FETCH" /\ Go(w, "direct")
            BY <4>7 DEF StoreVideo, At
      <4>8. ASSUME EnqueueDirect(w) PROVE pc[w] = "direct" /\ Go(w, "done")
            BY <4>8 DEF EnqueueDirect, At
      <4>9. QED BY <2>7, <4>1, <4>2, <4>3, <4>4, <4>5, <4>6, <4>7, <4>8 DEF TransferStep
    <3>3. KindOf(w) = "FETCH" => work[w] \notin TransferJobs
          BY DEF KindOf, TransferJobs, CourseJob
    <3>4. KindOf(w) # "FETCH" => work[w] \notin {"FETCH"} \X Lessons
          BY DEF KindOf
    <3>5. QED BY <1>1, <2>1, <3>1, <3>2, <3>3, <3>4 DEF RightKind
  <2>8. CASE ArchiveStep(w)
    <3>1. work'[w] = work[w]
          BY <2>8, ArchiveFrame
    <3>2. \/ pc[w] = "extract" /\ (Go(w, "extracted") \/ Go(w, "failing"))
          \/ pc[w] = "extracted" /\ Go(w, "done")
          \/ pc[w] = "insert" /\ (Go(w, "enqueue") \/ Go(w, "failing"))
          \/ pc[w] = "enqueue" /\ (Go(w, "enqueue") \/ Go(w, "done"))
          BY <2>8 DEF ArchiveStep, Extract, ChainExtraction, InsertLessons, EnqueueDubbing, At, Go
    <3>3. QED BY <1>1, <2>1, <3>1, <3>2 DEF RightKind
  <2>9. CASE DubbingStep(w) \/ UploadStep(w)
    <3>1. \E p \in {"judge", "pass", "reject", "upload", "verify", "last", "failing", "done"} :
            Go(w, p)
          BY <2>9 DEF DubbingStep, Dub, Judge, MarkVerdict, EnqueueUpload, UploadStep, Send,
             VerifyStorage, ChainUpload, Go, AfterReject, AfterSend
    <3>2. QED BY <2>5, <3>1 DEF Steps
  <2>10. CASE FinalizeStep(w) \/ ExtractionTimesOut(w) \/ SynthesisFails(w) \/ CheckStep(w)
    <3>1. \E p \in {"done", "ready", "failing", "review", "check", "publish"} : Go(w, p)
          BY <2>10, FinalizeFrame, CheckFrame, Constants DEF ExtractionTimesOut, SynthesisFails
    <3>2. QED BY <2>5, <3>1 DEF Steps
  <2>11. QED BY <2>3, <2>6, <2>7, <2>8, <2>9, <2>10, WorkerMoves DEF StepOf
<1>3. QED BY <1>2 DEF KindsInv

\* No job and no request is about a lesson without a row.
RowsInv ==
  /\ \A l \in Lessons : \A k \in LessonKinds : jobs[<<k, l>>] # "ABSENT" => l \in Existing
  /\ \A l \in Lessons : (\E s : <<l, s>> \in requests) => l \in Existing
  /\ \A w \in Workers : pc[w] = "enqueue" => todo[w] \subseteq Existing

\* The lesson of a job of a lesson that a worker has exists.
LEMMA WorkExists ==
  ASSUME PipelineOK, KindsInv, RowsInv, NEW w \in Workers,
         \/ pc[w] \in {"dub", "judge", "pass", "reject", "upload", "send", "verify", "last",
                       "direct"}
         \/ pc[w] = "download" /\ KindOf(w) = "FETCH"
  PROVE  Lesson(w) \in Existing
<1>1. work[w] \in {"DUBBING", "DUB", "UPLOAD", "FETCH"} \X Lessons
  <2>1. KindOf(w) = "FETCH" => work[w] \notin TransferJobs
        BY DEF KindOf, TransferJobs, CourseJob
  <2>2. InHand(w) /\ RightKind(w)
        BY DEF PipelineOK, KindsInv
  <2>3. QED BY <2>1, <2>2 DEF InHand, RightKind
<1>2. jobs[work[w]] # "ABSENT"
      BY DEF PipelineOK, InHand
<1>3. work[w] = <<work[w][1], Lesson(w)>> /\ work[w][1] \in LessonKinds /\ Lesson(w) \in Lessons
      BY <1>1 DEF Lesson, LessonKinds
<1>4. QED BY <1>2, <1>3 DEF RowsInv

\* Where lessons come from.
LEMMA ExistingFrame ==
  ASSUME PipelineOK, KindsInv, RowsInv, [Next]_vars
  PROVE  \/ Existing' = Existing
         \/ \E w \in Workers : InsertLessons(w) /\ extracted /\ Existing \subseteq Existing'
<1> USE DEF PipelineOK, TypeOK, LessonsOK
<1>1. ASSUME UNCHANGED status PROVE Existing' = Existing
      BY <1>1 DEF Existing
<1>2. ASSUME NEW l \in Existing, NEW s, s # "ABSENT", status' = [status EXCEPT ![l] = s]
      PROVE  Existing' = Existing
      BY <1>2 DEF Existing
<1>3. ASSUME NEW l \in Existing, NEW ok, Recorded(l, ok) PROVE Existing' = Existing
      BY <1>2, <1>3 DEF Recorded
<1>4. ASSUME NEW w \in Workers, TransferStep(w) PROVE Existing' = Existing
  <2>1. ASSUME StoreVideo(w) PROVE Existing' = Existing
        BY <1>2, <2>1, WorkExists DEF StoreVideo, At
  <2>2. QED BY <1>1, <1>4, <2>1 DEF TransferStep, LocateVideo, LocatePart, DiscoverPart,
            Download, MarkPart, ChainTransfer, EnqueueDirect, lessons
<1>5. ASSUME NEW w \in Workers, ArchiveStep(w)
      PROVE  \/ Existing' = Existing
             \/ InsertLessons(w) /\ extracted /\ Existing \subseteq Existing'
  <2>1. ASSUME InsertLessons(w), extracted PROVE Existing \subseteq Existing'
        BY <2>1 DEF InsertLessons, Existing
  <2>2. QED BY <1>1, <1>5, <2>1 DEF ArchiveStep, Extract, ChainExtraction, EnqueueDubbing,
            InsertLessons, lessons
<1>6. ASSUME NEW w \in Workers, DubbingStep(w) \/ SynthesisFails(w) PROVE Existing' = Existing
  <2>1. ASSUME Judge(w) PROVE Existing' = Existing
        BY <1>3, <2>1, WorkExists DEF Judge, At
  <2>2. ASSUME MarkVerdict(w) \/ SynthesisFails(w) PROVE Existing' = Existing
    <3>1. /\ Lesson(w) \in Existing
          /\ \E s \in {"QC_PASSED", "QC_FAILED"} : status' = [status EXCEPT ![Lesson(w)] = s]
          BY <2>2, WorkExists DEF MarkVerdict, SynthesisFails, At
    <3>2. QED BY <1>2, <3>1
  <2>3. QED BY <1>1, <1>6, <2>1, <2>2 DEF DubbingStep, Dub, EnqueueUpload, lessons
<1>7. ASSUME NEW w \in Workers, UploadStep(w) PROVE Existing' = Existing
  <2>1. ASSUME VerifyStorage(w) PROVE Existing' = Existing
        BY <1>2, <2>1, WorkExists DEF VerifyStorage, At
  <2>2. QED BY <1>1, <1>7, <2>1 DEF UploadStep, Send, ChainUpload, lessons
<1>8. ASSUME CallStep PROVE Existing' = Existing
  <2>1. ASSUME NEW l \in Lessons, MarkReview(l) \/ Override(l) PROVE Existing' = Existing
    <3>1. l \in Existing /\ \E ok : Recorded(l, ok)
          BY <2>1 DEF MarkReview, Override, RowsInv
    <3>2. QED BY <1>3, <3>1
  <2>2. ASSUME NEW l \in Lessons, OverrideMarks(l) PROVE Existing' = Existing
    <3>1. l \in Existing /\ status' = [status EXCEPT ![l] = "QC_PASSED"]
          BY <2>2 DEF OverrideMarks, RowsInv
    <3>2. QED BY <1>2, <3>1
  <2>3. QED BY <1>1, <1>8, <2>1, <2>2 DEF CallStep, DubLesson, PollEnds, OverrideEnqueues,
            Finalize, FinalizeEnds, EmitReady, lessons
<1>9. ASSUME NEW w \in Workers, JobStep(w) \/ FinalizeStep(w) \/ ExtractionTimesOut(w)
      PROVE  Existing' = Existing
      BY <1>1, <1>9, JobFrame, FinalizeFrame DEF ExtractionTimesOut, lessons
<1>10. ASSUME NEW a \in Agents, CheckStep(a) PROVE Existing' = Existing
      BY <1>1, <1>10, CheckFrame DEF lessons
<1>11. ASSUME RowStep PROVE Existing' = Existing
      BY <1>1, <1>11, RowFrame DEF lessons
<1>12. QED BY <1>1, <1>4, <1>5, <1>6, <1>7, <1>8, <1>9, <1>10, <1>11, Kinds DEF vars, lessons

\* A worker gets to the enqueueing of its lessons from their insertion only.
LEMMA EnqueueArrival ==
  ASSUME PipelineOK, [Next]_vars, NEW w \in Workers, pc'[w] = "enqueue"
  PROVE  \/ Rests(w)
         \/ InsertLessons(w) /\ extracted
         \/ EnqueueDubbing(w) /\ pc[w] = "enqueue" /\ todo'[w] \subseteq todo[w]
            /\ UNCHANGED work
<1> USE DEF PipelineOK, TypeOK, WorkersOK
<1>1. ASSUME NEW p, Go(w, p) PROVE p = "enqueue"
      BY <1>1, Constants DEF Go
<1>2. ASSUME JobStep(w) PROVE Rests(w)
  <2>1. ~Claims(w)
        BY <1>1, ClaimGoes
  <2>2. ASSUME Leaves(w) \/ HandlerFails(w) PROVE FALSE
        BY <1>1, <2>2 DEF Leaves, HandlerFails, Go
  <2>3. ASSUME Renew(w) PROVE Rests(w)
        BY <2>3, RenewRests, Constants
  <2>4. QED BY <1>2, <2>1, <2>2, <2>3 DEF JobStep, Complete, FailJob, WorkerDies
<1>3. ASSUME DubbingStep(w) \/ UploadStep(w) PROVE FALSE
  <2>1. \E p \in {"judge", "pass", "reject", "upload", "verify", "last", "failing", "done"} :
          Go(w, p)
        BY <1>3 DEF DubbingStep, Dub, Judge, MarkVerdict, EnqueueUpload, UploadStep, Send,
           VerifyStorage, ChainUpload, Go, AfterReject, AfterSend
  <2>2. QED BY <1>1, <2>1
<1>4. ASSUME TransferStep(w) \/ FinalizeStep(w) \/ ExtractionTimesOut(w) \/ SynthesisFails(w)
             \/ CheckStep(w)
      PROVE  FALSE
  <2>1. \E p \in {"download", "failing", "discover", "chain", "mark", "done", "direct", "ready",
                  "review", "check", "publish"} : Go(w, p)
        BY <1>4, TransferFrame, FinalizeFrame, CheckFrame, Constants
           DEF ExtractionTimesOut, SynthesisFails
  <2>2. QED BY <1>1, <2>1
<1>5. ASSUME ArchiveStep(w)
      PROVE  \/ InsertLessons(w) /\ extracted
             \/ EnqueueDubbing(w) /\ pc[w] = "enqueue" /\ todo'[w] \subseteq todo[w]
                /\ UNCHANGED work
  <2>1. ASSUME Extract(w) \/ ChainExtraction(w) PROVE FALSE
    <3>1. \E p \in {"extracted", "failing", "done"} : Go(w, p)
          BY <2>1 DEF Extract, ChainExtraction
    <3>2. QED BY <1>1, <3>1
  <2>2. ASSUME InsertLessons(w), ~extracted PROVE FALSE
        BY <1>1, <2>2 DEF InsertLessons
  <2>3. ASSUME EnqueueDubbing(w)
        PROVE  pc[w] = "enqueue" /\ todo'[w] \subseteq todo[w] /\ UNCHANGED work
        BY <2>3, Constants DEF EnqueueDubbing, At
  <2>4. QED BY <1>5, <2>1, <2>2, <2>3 DEF ArchiveStep
<1>6. QED BY <1>2, <1>3, <1>4, <1>5, WorkerMoves DEF StepOf

\* The lessons that are inserted.
LEMMA Inserting ==
  ASSUME PipelineOK, NEW w \in Workers, InsertLessons(w), extracted
  PROVE  /\ todo'[w] # {} /\ todo'[w] \cap Existing = {}
         /\ Existing' = Existing \cup todo'[w]
         /\ pc[w] = "insert" /\ pc'[w] = "enqueue"
         /\ UNCHANGED <<jobs, work, releases, seen>>
<1> USE DEF PipelineOK, TypeOK, WorkersOK, LessonsOK
<1>1. PICK new \in SUBSET (Lessons \ Existing) :
        /\ Cardinality(new) = Videos
        /\ status' = [l \in Lessons |-> IF l \in new THEN "PENDING" ELSE status[l]]
        /\ todo' = [todo EXCEPT ![w] = new]
        /\ Go(w, "enqueue")
      BY DEF InsertLessons
<1>2. new # {}
      BY <1>1, FS_EmptySet, ConstantsAssumption DEF ConstantsAssumption
<1>3. todo'[w] = new /\ pc'[w] = "enqueue"
      BY <1>1, Constants DEF Go
<1>4. Existing' = Existing \cup new
      BY <1>1 DEF Existing
<1>5. QED BY <1>1, <1>2, <1>3, <1>4 DEF InsertLessons, At, queue

\* The invariant is kept.
LEMMA RowsStep ==
  ASSUME PipelineOK, KindsInv, RowsInv, [Next]_vars
  PROVE  RowsInv'
<1>1. Existing \subseteq Existing'
      BY ExistingFrame
<1>2. ASSUME NEW l \in Lessons, NEW k \in LessonKinds, jobs'[<<k, l>>] # "ABSENT"
      PROVE  l \in Existing'
  <2>1. CASE jobs[<<k, l>>] # "ABSENT"
        BY <1>1, <2>1 DEF RowsInv
  <2>2. CASE jobs[<<k, l>>] = "ABSENT"
    <3>1. Enqueued(<<k, l>>)
          BY <1>2, <2>2, NewJobs, Constants
    <3>2. \A c : <<k, l>> # CourseJob(c)
          BY Constants, ConstantsAssumption DEF CourseJob, ConstantsAssumption
    <3>3. ASSUME NEW w \in Workers,
                 \/ EnqueueDirect(w) /\ <<k, l>> = <<"DUBBING", Lesson(w)>>
                 \/ EnqueueUpload(w) /\ <<k, l>> = <<"UPLOAD", Lesson(w)>>
          PROVE  l \in Existing
          BY <3>3, WorkExists DEF EnqueueDirect, EnqueueUpload, At
    <3>4. ASSUME NEW w \in Workers, EnqueueDubbing(w), NEW m \in todo[w],
                 <<k, l>> = <<"DUBBING", m>>
          PROVE  l \in Existing
          BY <3>4 DEF EnqueueDubbing, At, RowsInv
    <3>5. ASSUME NEW m \in Lessons,
                 \/ DubLesson(m) /\ <<k, l>> = <<"DUB", m>>
                 \/ OverrideEnqueues(m) /\ <<k, l>> = <<"UPLOAD", m>>
          PROVE  l \in Existing
          BY <3>5 DEF DubLesson, OverrideEnqueues, RowsInv
    <3>6. QED BY <1>1, <3>1, <3>2, <3>3, <3>4, <3>5 DEF Enqueued, NextJob
  <2>3. QED BY <2>1, <2>2
<1>3. ASSUME NEW l \in Lessons, NEW s, <<l, s>> \in requests' PROVE l \in Existing'
  <2>1. ASSUME NEW m \in Lessons, Override(m) \/ DubLesson(m) \/ OverrideMarks(m)
        PROVE  l \in Existing
    <3>1. m \in Existing
          BY <2>1 DEF Override, DubLesson, OverrideMarks, RowsInv
    <3>2. \/ requests' = requests \cup {<<m, "poll">>}
          \/ requests' = requests \cup {<<m, "approve">>}
          \/ requests' = (requests \ {<<m, "approve">>}) \cup {<<m, "upload">>}
          BY <2>1 DEF Override, DubLesson, OverrideMarks
    <3>3. <<l, s>> \in requests \/ l = m
          BY <1>3, <3>2
    <3>4. QED BY <3>1, <3>3 DEF RowsInv
  <2>2. QED BY <1>1, <1>3, <2>1, NewRequests DEF RowsInv
<1>4. ASSUME NEW w \in Workers, pc'[w] = "enqueue" PROVE todo'[w] \subseteq Existing'
  <2>1. CASE Rests(w)
        BY <1>1, <1>4, <2>1 DEF Rests, RowsInv
  <2>2. CASE InsertLessons(w) /\ extracted
        BY <2>2, Inserting
  <2>3. CASE pc[w] = "enqueue" /\ todo'[w] \subseteq todo[w]
        BY <1>1, <2>3 DEF RowsInv
  <2>4. QED BY <1>4, <2>1, <2>2, <2>3, EnqueueArrival
<1>5. QED BY <1>2, <1>3, <1>4 DEF RowsInv

\* The steps of each handler are steps of its jobs, and no job, no request and no list of
\* lessons names a lesson that has no row.
THEOREM RowsCorrect == Spec => [](KindsInv /\ RowsInv)
<1>1. Init => KindsInv
      BY Constants DEF Init, KindsInv, RightKind
<1>2. Init => RowsInv
  <2>1. SUFFICES ASSUME Init PROVE RowsInv
        OBVIOUS
  <2>2. PICK first \in FirstJobs, direct \in Lessons :
          /\ jobs = [j \in Jobs |->
               IF j[1] \in first /\ j[2] \in {NoLesson, direct} THEN "QUEUED" ELSE "ABSENT"]
          /\ status = [l \in Lessons |->
               IF l = direct /\ "FETCH" \in first THEN "PENDING" ELSE "ABSENT"]
        BY <2>1 DEF Init
  <2>3. ASSUME NEW l \in Lessons, NEW k \in LessonKinds, jobs[<<k, l>>] # "ABSENT"
        PROVE  l \in Existing
    <3>1. <<k, l>> \in Jobs /\ l # NoLesson
          BY Constants, ConstantsAssumption DEF ConstantsAssumption
    <3>2. k \in first /\ l = direct
          BY <2>2, <2>3, <3>1
    <3>3. "FETCH" \in first
          BY <2>3, <3>2, FirstJobsAssumption DEF FirstJobsAssumption, LessonKinds
    <3>4. QED BY <2>2, <3>2, <3>3 DEF Existing
  <2>4. QED BY <2>1, <2>3, Constants DEF Init, RowsInv
<1>3. PipelineOK /\ KindsInv /\ RowsInv /\ [Next]_vars => KindsInv' /\ RowsInv'
      BY KindsStep, RowsStep
<1>4. QED BY <1>1, <1>2, <1>3, HandsCorrect, PTL DEF Spec

-----------------------------------------------------------------------------
(* The QC gate of an undisturbed course.                                   *)

\* Nobody has called.
Quiet == Undisturbed /\ calls = 0

\* A lesson whose upload is enqueued is dubbed for good: its one job is past its dubbing.
DubbedForGood(l) ==
  /\ dubbed[l] = "GOOD"
  /\ jobs[<<"DUBBING", l>>] \in {"PROCESSING", "COMPLETED"}
  /\ \A w \in Workers : pc[w] # "idle" /\ work[w] = <<"DUBBING", l>> => pc[w] = "done"

\* What passed is in the file until it is sent.
GoodInv ==
  /\ requests = {}
  /\ \A l \in Lessons : jobs[<<"DUB", l>>] = "ABSENT"
  /\ \A l \in Lessons : jobs[<<"UPLOAD", l>>] # "ABSENT" => DubbedForGood(l)
  /\ \A w \in Workers : pc[w] \in {"pass", "upload"} => dubbed[Lesson(w)] = "GOOD"
  /\ \A w \in Workers : pc[w] = "verify" => mine[w] = "GOOD"
  /\ \A l \in Lessons : "BAD" \notin stored[l]

GateInv == Quiet => GoodInv

\* Where a lesson is dubbed.
LEMMA DubbedFrame ==
  ASSUME [Next]_vars
  PROVE  UNCHANGED dubbed \/ \E w \in Workers : Dub(w) /\ HasVideo(Lesson(w))
<1>1. ASSUME NEW w \in Workers,
             \/ JobStep(w) \/ TransferStep(w) \/ ArchiveStep(w) \/ UploadStep(w)
             \/ FinalizeStep(w) \/ ExtractionTimesOut(w) \/ SynthesisFails(w)
      PROVE  UNCHANGED dubbed
      BY <1>1, JobFrame, TransferFrame, ArchiveFrame, UploadFrame, FinalizeFrame
         DEF ExtractionTimesOut, SynthesisFails, lessons
<1>2. ASSUME NEW w \in Workers, DubbingStep(w)
      PROVE  UNCHANGED dubbed \/ (Dub(w) /\ HasVideo(Lesson(w)))
      BY <1>2 DEF DubbingStep, Dub, Judge, MarkVerdict, EnqueueUpload, lessons
<1>3. ASSUME NEW a \in Agents, CheckStep(a) PROVE UNCHANGED dubbed
      BY <1>3, CheckFrame DEF lessons
<1>4. ASSUME RowStep PROVE UNCHANGED dubbed
      BY <1>4, RowFrame DEF lessons
<1>5. QED BY <1>1, <1>2, <1>3, <1>4, Kinds, CallFrame DEF vars, lessons

\* Without calls, nobody calls.
LEMMA QuietSteps ==
  ASSUME PipelineOK, [Next]_vars, Quiet'
  PROVE  /\ Quiet
         /\ \A l \in Lessons : ~DubLesson(l) /\ ~Override(l)
<1>1. Undisturbed /\ calls = 0
      BY CalmSteps DEF Quiet
<1>2. ASSUME NEW l \in Lessons, DubLesson(l) \/ Override(l) PROVE calls' = calls + 1
      BY <1>2 DEF DubLesson, Override
<1>3. QED BY <1>1, <1>2 DEF Quiet

\* Without calls, a lesson has one job that dubs it.
LEMMA OneDubbing ==
  ASSUME PipelineOK, GoodInv, NEW w \in Workers,
         pc[w] \in {"dub", "judge", "pass", "reject", "upload"}
  PROVE  work[w] = <<"DUBBING", Lesson(w)>> /\ Lesson(w) \in Lessons
BY DEF PipelineOK, InHand, GoodInv, Lesson

\* A lesson that is dubbed for good remains so.
LEMMA GoodStays ==
  ASSUME PipelineOK, Exclusive, GoodInv, [Next]_vars, Quiet', NEW l \in Lessons, DubbedForGood(l)
  PROVE  DubbedForGood(l)'
<1> DEFINE j == <<"DUBBING", l>>
<1>1. j \in Jobs
      BY Constants DEF LessonKinds
<1>2. ASSUME NEW w \in Workers, Takes(w, j) PROVE FALSE
      BY <1>2 DEF Takes, Claimable, Exclusive, DubbedForGood
<1>3. ~SweptUp(j)
      BY DEF SweptUp, SweepUpdate, Exclusive
<1>4. ASSUME NEW w \in Workers, FailJob(w), work[w] = j PROVE FALSE
      BY <1>4 DEF FailJob, DubbedForGood
<1>5. jobs'[j] \in {"PROCESSING", "COMPLETED"}
      BY <1>1, <1>2, <1>3, <1>4, JobMoves DEF DubbedForGood
<1>6. dubbed'[l] = "GOOD"
  <2>1. ASSUME NEW w \in Workers, Dub(w) PROVE dubbed'[l] = dubbed[l]
    <3>1. pc[w] = "dub"
          BY <2>1 DEF Dub, At
    <3>2. work[w] = <<"DUBBING", Lesson(w)>>
          BY <3>1, OneDubbing
    <3>3. Lesson(w) # l
          BY <3>1, <3>2 DEF DubbedForGood
    <3>4. QED BY <2>1, <3>3 DEF Dub, PipelineOK, TypeOK, LessonsOK
  <2>2. QED BY <2>1, DubbedFrame DEF DubbedForGood
<1>7. ASSUME NEW w \in Workers, pc'[w] # "idle", work'[w] = j PROVE pc'[w] = "done"
  <2>1. CASE Rests(w)
        BY <1>7, <2>1 DEF Rests, DubbedForGood
  <2>2. ASSUME pc[w] # "idle", work'[w] = work[w], pc[w] # "done" PROVE FALSE
        BY <1>7, <2>2 DEF DubbedForGood
  <2>3. ASSUME JobStep(w) PROVE FALSE
    <3>1. ASSUME NEW k \in Jobs, ClaimSelect(w, k), jobs[k] = "QUEUED" PROVE FALSE
      <4>1. work'[w] = k
            BY <3>1 DEF ClaimSelect, PipelineOK, TypeOK, WorkersOK
      <4>2. QED BY <1>7, <3>1, <4>1 DEF DubbedForGood
    <3>2. ASSUME Takes(w, work[w]) PROVE FALSE
      <4>1. work'[w] = work[w]
            BY <3>2 DEF Takes, ClaimUpdate
      <4>2. QED BY <1>2, <1>7, <3>2, <4>1
    <3>3. QED BY <1>7, <2>3, <3>1, <3>2, CalmJobStep DEF Quiet
  <2>4. ASSUME TransferStep(w) \/ ArchiveStep(w) \/ DubbingStep(w) \/ UploadStep(w)
               \/ FinalizeStep(w) \/ CheckStep(w)
        PROVE  pc[w] # "idle" /\ pc[w] # "done" /\ work'[w] = work[w]
    <3>1. pc[w] # "done"
          BY <2>4 DEF TransferStep, LocateVideo, LocatePart, DiscoverPart, Download, MarkPart,
             ChainTransfer, StoreVideo, EnqueueDirect, ArchiveStep, Extract, ChainExtraction,
             InsertLessons, EnqueueDubbing, DubbingStep, Dub, Judge, MarkVerdict, EnqueueUpload,
             UploadStep, Send, VerifyStorage, ChainUpload, FinalizeStep, NeedsReview,
             InsertRelease, MarkReady, CheckStep, ListLessons, CheckLesson, At
    <3>2. QED BY <2>4, <3>1, TransferFrame, ArchiveFrame, DubbingFrame, UploadFrame,
              FinalizeFrame, CheckFrame, Constants
  <2>5. QED BY <2>1, <2>2, <2>3, <2>4, CalmSteps, WorkerMoves DEF StepOf, Quiet
<1>8. QED BY <1>5, <1>6, <1>7 DEF DubbedForGood

\* A worker gets to the verification of an upload by sending it.
LEMMA VerifyArrival ==
  ASSUME PipelineOK, [Next]_vars, NEW w \in Workers, pc'[w] = "verify"
  PROVE  Rests(w) \/ Send(w)
<1> USE DEF PipelineOK, TypeOK, WorkersOK
<1>1. ASSUME NEW p, Go(w, p) PROVE p = "verify"
      BY <1>1, Constants DEF Go
<1>2. ASSUME JobStep(w) PROVE Rests(w)
  <2>1. ~Claims(w)
        BY <1>1, ClaimGoes
  <2>2. ASSUME Leaves(w) \/ HandlerFails(w) PROVE FALSE
        BY <1>1, <2>2 DEF Leaves, HandlerFails, Go
  <2>3. ASSUME Renew(w) PROVE Rests(w)
        BY <2>3, RenewRests, Constants
  <2>4. QED BY <1>2, <2>1, <2>2, <2>3 DEF JobStep, Complete, FailJob, WorkerDies
<1>3. ASSUME TransferStep(w) \/ ArchiveStep(w) \/ DubbingStep(w) \/ FinalizeStep(w)
             \/ ExtractionTimesOut(w) \/ SynthesisFails(w) \/ CheckStep(w)
      PROVE  FALSE
  <2>1. ASSUME DubbingStep(w)
        PROVE  \E p \in {"judge", "pass", "reject", "upload", "failing", "done"} : Go(w, p)
        BY <2>1 DEF DubbingStep, Dub, Judge, MarkVerdict, EnqueueUpload, Go, AfterReject
  <2>2. \E p \in Steps \ {"verify"} : Go(w, p)
        BY <1>3, <2>1, TransferFrame, ArchiveFrame, FinalizeFrame, CheckFrame, Constants
           DEF ExtractionTimesOut, SynthesisFails, Steps
  <2>3. QED BY <1>1, <2>2
<1>4. ASSUME UploadStep(w) PROVE Send(w)
  <2>1. ASSUME VerifyStorage(w) \/ ChainUpload(w) PROVE FALSE
    <3>1. Go(w, "last") \/ Go(w, "done")
          BY <2>1 DEF VerifyStorage, ChainUpload
    <3>2. QED BY <1>1, <3>1
  <2>2. QED BY <1>4, <2>1 DEF UploadStep
<1>5. QED BY <1>2, <1>3, <1>4, WorkerMoves DEF StepOf

\* A lesson whose upload is now enqueued is dubbed for good.
LEMMA UploadIsGood ==
  ASSUME PipelineOK, Exclusive, GoodInv, [Next]_vars, NEW w \in Workers, EnqueueUpload(w)
  PROVE  DubbedForGood(Lesson(w))'
<1> DEFINE l == Lesson(w)
           j == <<"DUBBING", l>>
<1>1. pc[w] = "upload" /\ UNCHANGED <<dubbed, work>> /\ Go(w, "done")
      BY DEF EnqueueUpload, At, lessons
<1>2. work[w] = j /\ l \in Lessons /\ dubbed[l] = "GOOD"
      BY <1>1, OneDubbing DEF GoodInv
<1>3. j \in Jobs /\ jobs[j] = "PROCESSING"
      BY <1>1, <1>2, Constants DEF LessonKinds, Exclusive
<1>4. jobs'[j] = "PROCESSING"
      BY <1>3 DEF EnqueueUpload, Enqueue
<1>5. ASSUME NEW v \in Workers, pc'[v] # "idle", work[v] = j PROVE pc'[v] = "done"
  <2>1. CASE v = w
        BY <1>1, <2>1, Constants DEF Go, PipelineOK, TypeOK, WorkersOK
  <2>2. CASE v # w
    <3>1. pc'[v] = pc[v]
          BY <1>1, <2>2 DEF Go, PipelineOK, TypeOK, WorkersOK
    <3>2. QED BY <1>1, <1>2, <1>5, <2>2, <3>1, OneWorker
  <2>3. QED BY <2>1, <2>2
<1>6. Lesson(w)' = l
      BY <1>1 DEF Lesson
<1>7. /\ dubbed'[l] = "GOOD"
      /\ jobs'[<<"DUBBING", l>>] \in {"PROCESSING", "COMPLETED"}
      /\ \A v \in Workers : pc'[v] # "idle" /\ work'[v] = <<"DUBBING", l>> => pc'[v] = "done"
      BY <1>1, <1>2, <1>4, <1>5
<1> HIDE DEF l
<1>8. QED BY <1>6, <1>7 DEF DubbedForGood

\* The invariant is kept.
LEMMA GateStep ==
  ASSUME PipelineOK, ExclusiveInv, GateInv, [Next]_vars
  PROVE  GateInv'
<1>1. SUFFICES ASSUME Quiet' PROVE GoodInv'
      BY DEF GateInv
<1>2. Quiet /\ Exclusive /\ GoodInv
      BY <1>1, QuietSteps DEF ExclusiveInv, GateInv, Quiet
<1>3. requests' = {}
  <2>1. \A l \in Lessons : ~OverrideMarks(l)
        BY <1>2 DEF OverrideMarks, GoodInv
  <2>2. QED BY <1>1, <1>2, <2>1, NewRequests, QuietSteps DEF GoodInv
<1>4. ASSUME NEW l \in Lessons PROVE jobs'[<<"DUB", l>>] = "ABSENT"
  <2>1. <<"DUB", l>> \in Jobs /\ jobs[<<"DUB", l>>] = "ABSENT"
        BY <1>2, Constants DEF LessonKinds, GoodInv
  <2>2. ~Enqueued(<<"DUB", l>>)
        BY <1>1, QuietSteps DEF Enqueued, NextJob, CourseJob
  <2>3. QED BY <2>1, <2>2, NewJobs
<1>5. ASSUME NEW l \in Lessons, jobs'[<<"UPLOAD", l>>] # "ABSENT" PROVE DubbedForGood(l)'
  <2>1. CASE jobs[<<"UPLOAD", l>>] # "ABSENT"
        BY <1>1, <1>2, <2>1, GoodStays DEF GoodInv
  <2>2. CASE jobs[<<"UPLOAD", l>>] = "ABSENT"
    <3>1. ~OverrideEnqueues(l)
          BY <1>2 DEF OverrideEnqueues, GoodInv
    <3>2. PICK w \in Workers : EnqueueUpload(w) /\ Lesson(w) = l
          BY <1>5, <2>2, <3>1, UploadJobs
    <3>3. Lesson(w)' = l
          BY <3>2 DEF EnqueueUpload, Lesson
    <3>4. DubbedForGood(Lesson(w))'
          BY <1>2, <3>2, UploadIsGood
    <3>5. QED BY <3>3, <3>4 DEF DubbedForGood
  <2>3. QED BY <2>1, <2>2
<1>6. ASSUME NEW w \in Workers, pc'[w] \in {"pass", "upload"} PROVE dubbed'[work'[w][2]] = "GOOD"
  <2>1. ASSUME pc[w] \in {"judge", "pass", "upload"}, work'[w] = work[w], dubbed[Lesson(w)] = "GOOD"
        PROVE  dubbed'[work'[w][2]] = "GOOD"
    <3>1. ASSUME NEW v \in Workers, Dub(v) PROVE dubbed'[Lesson(w)] = dubbed[Lesson(w)]
      <4>1. pc[v] = "dub"
            BY <3>1 DEF Dub, At
      <4>2. v # w
            BY <2>1, <4>1
      <4>3. Lesson(v) # Lesson(w) /\ Lesson(w) \in Lessons
            BY <1>2, <2>1, <4>1, <4>2, OneDubbing, OneWorker
      <4>4. QED BY <3>1, <4>3 DEF Dub, PipelineOK, TypeOK, LessonsOK
    <3>2. QED BY <2>1, <3>1, DubbedFrame DEF Lesson
  <2>2. CASE pc'[w] = pc[w] /\ work'[w] = work[w]
        BY <1>2, <1>6, <2>1, <2>2 DEF GoodInv
  <2>3. ASSUME Judge(w) PROVE dubbed'[work'[w][2]] = "GOOD"
    <3>1. Passes(w)
          BY <1>6, <2>3, Constants DEF Judge, Go, PipelineOK, TypeOK, WorkersOK
    <3>2. QED BY <2>1, <2>3, <3>1 DEF Judge, At, Passes
  <2>4. ASSUME MarkVerdict(w) PROVE dubbed'[work'[w][2]] = "GOOD"
    <3>1. pc[w] = "pass"
          BY <1>6, <2>4, Constants DEF MarkVerdict, Go, At, AfterReject, PipelineOK,
             TypeOK, WorkersOK
    <3>2. QED BY <1>2, <2>1, <2>4, <3>1 DEF MarkVerdict, GoodInv
  <2>5. ASSUME InsertRelease(w) \/ CheckStep(w) PROVE FALSE
    <3>1. \E p \in {"ready", "review", "check", "publish"} : Go(w, p)
          BY <2>5, CheckFrame, Constants DEF InsertRelease
    <3>2. QED BY <1>6, <3>1, Constants DEF Go, PipelineOK, TypeOK, WorkersOK
  <2>6. QED BY <1>6, <2>2, <2>3, <2>4, <2>5, ArrivalFrame, Constants DEF Rests
<1>7. ASSUME NEW w \in Workers, pc'[w] = "verify" PROVE mine'[w] = "GOOD"
  <2>1. CASE Rests(w)
        BY <1>2, <1>7, <2>1 DEF Rests, GoodInv
  <2>2. CASE Send(w)
    <3>1. work[w] \in {"UPLOAD"} \X Lessons /\ jobs[work[w]] # "ABSENT"
          BY <2>2 DEF Send, At, PipelineOK, InHand
    <3>2. work[w] = <<"UPLOAD", Lesson(w)>> /\ Lesson(w) \in Lessons
          BY <3>1 DEF Lesson
    <3>3. dubbed[Lesson(w)] = "GOOD"
          BY <1>2, <3>1, <3>2 DEF GoodInv, DubbedForGood
    <3>4. QED BY <2>2, <3>3 DEF Send, PipelineOK, TypeOK, WorkersOK
  <2>3. QED BY <1>7, <2>1, <2>2, VerifyArrival
<1>8. ASSUME NEW l \in Lessons PROVE "BAD" \notin stored'[l]
  <2>1. ASSUME NEW w \in Workers, VerifyStorage(w) PROVE "BAD" \notin stored'[l]
    <3>1. mine[w] = "GOOD"
          BY <1>2, <2>1 DEF VerifyStorage, At, GoodInv
    <3>2. QED BY <1>2, <2>1, <3>1 DEF VerifyStorage, GoodInv, PipelineOK, TypeOK, LessonsOK
  <2>2. QED BY <1>2, <2>1, StoredFrame DEF GoodInv
<1>9. QED BY <1>3, <1>4, <1>5, <1>6, <1>7, <1>8 DEF GoodInv, Lesson

\* As long as nothing fails and nobody calls, what is stored is what the QC has passed.
THEOREM GateClosed == Spec => []GateHolds
<1>1. Init => GateInv
  <2>1. SUFFICES ASSUME Init PROVE GoodInv
        BY DEF GateInv
  <2>2. \A l \in Lessons : jobs[<<"UPLOAD", l>>] = "ABSENT" /\ jobs[<<"DUB", l>>] = "ABSENT"
    <3>1. \A l \in Lessons : <<"UPLOAD", l>> \in Jobs /\ <<"DUB", l>> \in Jobs
          BY Constants DEF LessonKinds
    <3>2. \A first \in FirstJobs : "UPLOAD" \notin first /\ "DUB" \notin first
          BY FirstJobsAssumption DEF FirstJobsAssumption
    <3>3. QED BY <2>1, <3>1, <3>2 DEF Init
  <2>3. QED BY <2>1, <2>2, Constants DEF Init, GoodInv
<1>2. PipelineOK /\ ExclusiveInv /\ GateInv /\ [Next]_vars => GateInv'
      BY GateStep
<1>3. GateInv => GateHolds
      BY DEF GateInv, GateHolds, GoodInv, Quiet
<1>4. QED BY <1>1, <1>2, <1>3, HandsCorrect, ExecutedOnce, PTL DEF Spec

-----------------------------------------------------------------------------
(* The releases of an undisturbed course.                                  *)

Inventory == CourseJob("INVENTORY")

\* The inventory has inserted its lessons and will not do so again.
InventoryOver ==
  /\ jobs[Inventory] \in {"PROCESSING", "COMPLETED"}
  /\ \A w \in Workers : pc[w] # "idle" /\ work[w] = Inventory => pc[w] \in {"enqueue", "done"}

\* The course has no archive, and will have no inventory.
NoArchive ==
  \A k \in {"TRANSFER", "INGEST", "EXTRACTION", "INVENTORY"} : jobs[CourseJob(k)] = "ABSENT"

\* Lessons come once, and what is checked and released is all of them.
LessonsOnce ==
  /\ Existing # {} => InventoryOver \/ NoArchive
  /\ \A a \in Agents : pc[a] \in {"check", "publish"} =>
       /\ Existing # {} /\ seen[a] \cup todo[a] = Existing
       /\ pc[a] = "publish" => todo[a] = {}
  /\ \A r \in releases : r # {} /\ r = Existing

OnceInv == Undisturbed => LessonsOnce

\* A worker that inserts lessons executes the inventory.
LEMMA Inserter ==
  ASSUME PipelineOK, KindsInv, Exclusive, NEW w \in Workers, InsertLessons(w)
  PROVE  pc[w] = "insert" /\ work[w] = Inventory /\ jobs[Inventory] = "PROCESSING"
BY DEF InsertLessons, At, KindsInv, RightKind, Exclusive, Inventory

\* The lessons of a course that has some stay.
LEMMA LessonsStay ==
  ASSUME PipelineOK, KindsInv, RowsInv, Exclusive, LessonsOnce, [Next]_vars, Existing # {}
  PROVE  Existing' = Existing
<1>1. ASSUME NEW w \in Workers, InsertLessons(w) PROVE FALSE
  <2>1. pc[w] = "insert" /\ work[w] = Inventory /\ jobs[Inventory] = "PROCESSING"
        BY <1>1, Inserter
  <2>2. ~InventoryOver
        BY <2>1 DEF InventoryOver
  <2>3. ~NoArchive
        BY <2>1 DEF NoArchive, Inventory
  <2>4. QED BY <2>2, <2>3 DEF LessonsOnce
<1>2. QED BY <1>1, ExistingFrame

\* A course without an archive gets none.
LEMMA NoArchiveStays ==
  ASSUME PipelineOK, KindsInv, [Next]_vars, NoArchive
  PROVE  NoArchive'
<1>1. ASSUME NEW k \in {"TRANSFER", "INGEST", "EXTRACTION", "INVENTORY"},
             jobs'[CourseJob(k)] # "ABSENT"
      PROVE  FALSE
  <2>1. CourseJob(k) \in Jobs /\ jobs[CourseJob(k)] = "ABSENT"
        BY DEF NoArchive, CourseJob, Jobs, CourseKinds
  <2>2. Enqueued(CourseJob(k))
        BY <1>1, <2>1, NewJobs
  <2>3. \A w \in Workers : ~ChainTransfer(w) /\ ~ChainExtraction(w)
    <3>1. SUFFICES ASSUME NEW w \in Workers, ChainTransfer(w) \/ ChainExtraction(w)
                   PROVE  FALSE
          OBVIOUS
    <3>2. work[w] \in TransferJobs \/ work[w] = CourseJob("EXTRACTION")
          BY <3>1 DEF ChainTransfer, ChainExtraction, At, KindsInv, RightKind
    <3>3. jobs[work[w]] # "ABSENT"
          BY <3>1 DEF ChainTransfer, ChainExtraction, At, PipelineOK, InHand
    <3>4. QED BY <3>2, <3>3 DEF TransferJobs, NoArchive
  <2>4. \A l : CourseJob(k) # <<"DUBBING", l>> /\ CourseJob(k) # <<"DUB", l>>
               /\ CourseJob(k) # <<"UPLOAD", l>>
        BY DEF CourseJob
  <2>5. CourseJob(k) # CourseJob("FINALIZE")
        BY DEF CourseJob
  <2>6. QED BY <2>2, <2>3, <2>4, <2>5 DEF Enqueued
<1>2. QED BY <1>1 DEF NoArchive

\* An inventory that is over remains so.
LEMMA InventoryStays ==
  ASSUME PipelineOK, Exclusive, [Next]_vars, Undisturbed', InventoryOver
  PROVE  InventoryOver'
<1>1. Inventory \in Jobs
      BY DEF Inventory, CourseJob, Jobs, CourseKinds
<1>2. ASSUME NEW w \in Workers, Takes(w, Inventory) PROVE FALSE
      BY <1>2 DEF Takes, Claimable, Exclusive, InventoryOver
<1>3. ASSUME NEW w \in Workers, FailJob(w), work[w] = Inventory PROVE FALSE
      BY <1>3 DEF FailJob, InventoryOver
<1>4. ~SweptUp(Inventory)
      BY DEF SweptUp, SweepUpdate, Exclusive
<1>5. jobs'[Inventory] \in {"PROCESSING", "COMPLETED"}
      BY <1>1, <1>2, <1>3, <1>4, JobMoves DEF InventoryOver
<1>6. ASSUME NEW w \in Workers, pc'[w] # "idle", work'[w] = Inventory
      PROVE  pc'[w] \in {"enqueue", "done"}
  <2>1. CASE Rests(w)
        BY <1>6, <2>1 DEF Rests, InventoryOver
  <2>2. ASSUME JobStep(w) PROVE FALSE
    <3>1. ASSUME NEW k \in Jobs, ClaimSelect(w, k), jobs[k] = "QUEUED" PROVE FALSE
      <4>1. work'[w] = k
            BY <3>1 DEF ClaimSelect, PipelineOK, TypeOK, WorkersOK
      <4>2. QED BY <1>6, <3>1, <4>1 DEF InventoryOver
    <3>2. ASSUME Takes(w, work[w]) PROVE FALSE
      <4>1. work'[w] = work[w]
            BY <3>2 DEF Takes, ClaimUpdate
      <4>2. QED BY <1>2, <1>6, <3>2, <4>1
    <3>3. QED BY <1>6, <2>2, <3>1, <3>2, CalmJobStep
  <2>3. ASSUME EnqueueDubbing(w) PROVE pc'[w] \in {"enqueue", "done"}
        BY <2>3, Constants DEF EnqueueDubbing, Go, PipelineOK, TypeOK, WorkersOK
  <2>4. ASSUME TransferStep(w) \/ Extract(w) \/ ChainExtraction(w) \/ InsertLessons(w)
               \/ DubbingStep(w) \/ UploadStep(w) \/ FinalizeStep(w) \/ CheckStep(w)
        PROVE  FALSE
    <3>1. pc[w] \notin {"idle", "enqueue", "done"}
          BY <2>4 DEF TransferStep, LocateVideo, LocatePart, DiscoverPart, Download, MarkPart,
             ChainTransfer, StoreVideo, EnqueueDirect, Extract, ChainExtraction,
             InsertLessons, DubbingStep, Dub, Judge, MarkVerdict, EnqueueUpload,
             UploadStep, Send, VerifyStorage, ChainUpload, FinalizeStep, NeedsReview,
             InsertRelease, MarkReady, CheckStep, ListLessons, CheckLesson, At
    <3>2. work'[w] = work[w]
          BY <2>4, TransferFrame, ArchiveFrame, DubbingFrame, UploadFrame, FinalizeFrame,
             CheckFrame, Constants DEF ArchiveStep
    <3>3. QED BY <1>6, <3>1, <3>2 DEF InventoryOver
  <2>5. QED BY <2>1, <2>2, <2>3, <2>4, CalmSteps, WorkerMoves DEF StepOf, ArchiveStep
<1>7. QED BY <1>5, <1>6 DEF InventoryOver

\* The invariant is kept.
LEMMA OnceStep ==
  ASSUME PipelineOK, KindsInv, RowsInv, ExclusiveInv, OnceInv, [Next]_vars
  PROVE  OnceInv'
<1>1. SUFFICES ASSUME Undisturbed' PROVE LessonsOnce'
      BY DEF OnceInv
<1>2. Exclusive /\ LessonsOnce
      BY <1>1, CalmSteps DEF ExclusiveInv, OnceInv
<1>3. ASSUME Existing' # {} PROVE InventoryOver' \/ NoArchive'
  <2>1. CASE Existing # {}
        BY <1>1, <1>2, <2>1, InventoryStays, NoArchiveStays DEF LessonsOnce
  <2>2. CASE Existing = {}
    <3>1. PICK w \in Workers : InsertLessons(w) /\ extracted
          BY <1>3, <2>2, ExistingFrame
    <3>2. pc[w] = "insert" /\ work[w] = Inventory /\ jobs[Inventory] = "PROCESSING"
          BY <1>2, <3>1, Inserter
    <3>3. pc'[w] = "enqueue" /\ UNCHANGED <<jobs, work>>
          BY <3>1, Inserting
    <3>4. ASSUME NEW v \in Workers, pc'[v] # "idle", work'[v] = Inventory
          PROVE  pc'[v] \in {"enqueue", "done"}
      <4>1. CASE v = w
            BY <3>3, <4>1
      <4>2. CASE v # w
        <5>1. Rests(v)
              BY <3>1, <4>2, OthersRest, Constants DEF StepOf, ArchiveStep
        <5>2. QED BY <1>2, <3>2, <3>3, <3>4, <4>2, <5>1, OneWorker DEF Rests
      <4>3. QED BY <4>1, <4>2
    <3>5. jobs'[Inventory] = "PROCESSING"
          BY <3>2, <3>3
    <3>6. InventoryOver'
          BY <3>4, <3>5 DEF InventoryOver, Inventory, CourseJob
    <3>7. QED BY <3>6
  <2>3. QED BY <2>1, <2>2
<1>4. ASSUME NEW a \in Agents, pc'[a] \in {"check", "publish"}
      PROVE  /\ Existing' # {} /\ seen'[a] \cup todo'[a] = Existing'
             /\ pc'[a] = "publish" => todo'[a] = {}
  <2>1. CASE Rests(a)
    <3>1. /\ Existing # {} /\ seen[a] \cup todo[a] = Existing
          /\ pc[a] = "publish" => todo[a] = {}
          BY <1>2, <1>4, <2>1 DEF Rests, LessonsOnce
    <3>2. Existing' = Existing
          BY <1>2, <3>1, LessonsStay
    <3>3. QED BY <2>1, <3>1, <3>2 DEF Rests
  <2>2. CASE CheckStep(a)
    <3>1. Existing' = Existing
          BY <2>2, CheckFrame DEF lessons, Existing
    <3>2. CASE ListLessons(a)
          BY <1>4, <3>1, <3>2 DEF ListLessons, Listed, Go, PipelineOK, TypeOK, WorkersOK
    <3>3. CASE CheckLesson(a)
      <4>1. PICK l \in todo[a] :
              /\ todo' = [todo EXCEPT ![a] = @ \ {l}]
              /\ seen' = [seen EXCEPT ![a] = @ \cup {l}]
              /\ Go(a, IF ~LessonComplete(l) THEN "review"
                       ELSE IF todo[a] = {l} THEN "publish" ELSE "check")
            BY <3>3 DEF CheckLesson
      <4>2. todo'[a] = todo[a] \ {l} /\ seen'[a] = seen[a] \cup {l}
            BY <4>1 DEF PipelineOK, TypeOK, WorkersOK
      <4>3. pc'[a] = "publish" => todo[a] = {l}
            BY <4>1 DEF Go, PipelineOK, TypeOK, WorkersOK
      <4>4. Existing # {} /\ seen[a] \cup todo[a] = Existing
            BY <1>2, <3>3 DEF CheckLesson, At, LessonsOnce
      <4>5. QED BY <3>1, <4>1, <4>2, <4>3, <4>4
    <3>4. QED BY <2>2, <3>2, <3>3 DEF CheckStep
  <2>3. QED BY <1>4, <2>1, <2>2, CheckArrival
<1>5. ASSUME NEW r \in releases' PROVE r # {} /\ r = Existing'
  <2>1. ASSUME r \notin releases PROVE \E a \in Agents : pc[a] = "publish" /\ r = seen[a]
        BY <1>5, <2>1, ReleaseFrame, Constants DEF InsertRelease, MarkReady, EmitReady, release, At
  <2>2. r # {} /\ r = Existing
        BY <1>2, <2>1 DEF LessonsOnce
  <2>3. QED BY <1>2, <2>2, LessonsStay
<1>6. QED BY <1>3, <1>4, <1>5 DEF LessonsOnce

\* As long as nothing fails, whoever calls, a release has every lesson of the course.
THEOREM ReleasesAreWhole == Spec => []ReleaseHasAllLessons
<1>1. Init => OnceInv
  <2>1. SUFFICES ASSUME Init PROVE LessonsOnce
        BY DEF OnceInv
  <2>2. PICK first \in FirstJobs, direct \in Lessons :
          /\ jobs = [j \in Jobs |->
               IF j[1] \in first /\ j[2] \in {NoLesson, direct} THEN "QUEUED" ELSE "ABSENT"]
          /\ status = [l \in Lessons |->
               IF l = direct /\ "FETCH" \in first THEN "PENDING" ELSE "ABSENT"]
        BY <2>1 DEF Init
  <2>3. ASSUME Existing # {} PROVE NoArchive
    <3>1. "FETCH" \in first
          BY <2>2, <2>3 DEF Existing
    <3>2. first = {"FETCH"}
          BY <3>1, FirstJobsAssumption DEF FirstJobsAssumption
    <3>3. ASSUME NEW k \in {"TRANSFER", "INGEST", "EXTRACTION", "INVENTORY"}
          PROVE  jobs[CourseJob(k)] = "ABSENT"
      <4>1. CourseJob(k) \in Jobs /\ CourseJob(k)[1] = k
            BY DEF CourseJob, Jobs, CourseKinds
      <4>2. QED BY <2>2, <3>2, <4>1
    <3>4. QED BY <3>3 DEF NoArchive
  <2>4. QED BY <2>1, <2>3 DEF Init, LessonsOnce
<1>2. PipelineOK /\ KindsInv /\ RowsInv /\ ExclusiveInv /\ OnceInv /\ [Next]_vars => OnceInv'
      BY OnceStep
<1>3. OnceInv => ReleaseHasAllLessons
      BY DEF OnceInv, LessonsOnce, ReleaseHasAllLessons
<1>4. QED BY <1>1, <1>2, <1>3, HandsCorrect, RowsCorrect, ExecutedOnce, PTL DEF Spec
=============================================================================
