------------------------------ MODULE Pipeline ------------------------------
(***************************************************************************)
(* One course on its way through the jobs of job_runner.py: TRANSFER,      *)
(* EXTRACTION, INVENTORY, DUBBING, UPLOAD and FINALIZE, executed by        *)
(* several workers beside the calls of n8n and of the dashboard that write *)
(* the same rows.  A handler is a series of steps, one for every statement *)
(* that commits and for every file it makes; the read and the enqueue_job  *)
(* that depends on it are one step, for enqueueing a key once more changes *)
(* nothing.                                                                *)
(*                                                                         *)
(* Of the job queue, which JobQueue models in full, this keeps what the    *)
(* handlers feel: a job belongs to the worker whose token it bears; a      *)
(* worker that selected it and lost it to another executes it all the      *)
(* same; and its lease may lapse while its worker goes on, and then it is  *)
(* renewed, executed a second time beside the first, swept back or given   *)
(* up.                                                                     *)
(*                                                                         *)
(* The content of a dubbed file is GOOD or BAD: whether run_qc_check       *)
(* passes it.                                                              *)
(***************************************************************************)
EXTENDS Naturals, FiniteSets

CONSTANTS
  Workers,      \* the workers
  WF04,         \* the finalize workflow of n8n
  NoWorker,     \* the holder of a job without a token
  Sweeps,       \* concurrent callers of reclaim_expired_job_leases
  Lessons,      \* the lesson rows there may be, numbered as they are inserted
  NoLesson,     \* the lesson of a job of the course
  NoJob,        \* the job of a worker without one
  FirstJobs,    \* the sets of first jobs a course may have
  Parts,        \* the number of parts of the archive
  Videos,       \* the number of videos in it
  MaxAttempts,  \* max_attempts of a job
  MaxDisturbances  \* bound: deaths, failures, lapsed leases, contested claims, calls

ASSUME ConstantsAssumption ==
  /\ WF04 \notin Workers /\ NoWorker \notin Workers
  /\ Lessons \subseteq Nat /\ NoLesson \notin Lessons
  /\ Parts \in Nat \ {0} /\ Videos \in Nat \ {0}
  /\ MaxAttempts \in Nat \ {0}
  /\ MaxDisturbances \in Nat

Agents == Workers \cup {WF04}
PartNumbers == 1..Parts

\* The idempotency keys: TRANSFER and INGEST are <course>:none:TRANSFER and
\* transfer:course:<course>, FETCH is transfer:<lesson>, DUBBING is the inventory's
\* <course>:<lesson>:DUBBING or dubbing:<lesson>, DUB is dub:<course>:<lesson>.
CourseKinds == {"TRANSFER", "INGEST", "EXTRACTION", "INVENTORY", "FINALIZE"}
LessonKinds == {"FETCH", "DUBBING", "DUB", "UPLOAD"}
Jobs == (CourseKinds \X {NoLesson}) \cup (LessonKinds \X Lessons)
CourseJob(k) == <<k, NoLesson>>
ASSUME NoJobAssumption == NoJob \notin Jobs

\* The first jobs of a course: what WF02 enqueues once the parts are inserted, what ingest
\* enqueues without them, both if WF02 finds the row that ingest left; or a direct video.
ASSUME FirstJobsAssumption ==
  FirstJobs \subseteq {{"TRANSFER"}, {"INGEST"}, {"TRANSFER", "INGEST"}, {"FETCH"}}

Statuses  == {"ABSENT", "QUEUED", "PROCESSING", "COMPLETED", "DEAD_LETTER"}
Qualities == {"GOOD", "BAD"}

VARIABLES
  jobs,       \* dubbing_jobs.status; a RETRY_WAIT row counts as QUEUED
  attempts,   \* attempt_count
  holder,     \* the worker that executes the job with the fencing_token of its row
  lapsed,     \* the PROCESSING rows whose lease has run out
  swept,      \* the rows each sweep has selected, with the status it is about to give them
  files,      \* the parts in downloads/<course>
  parts,      \* archive_parts.status, "ABSENT" without a row
  extracted,  \* the whole archive is in extracted/<course>
  status,     \* lessons.status, "ABSENT" without a row
  source,     \* what video_source_path names
  report,     \* the latest row in qc_reports: passed or not
  passed,     \* the lessons with a row in qc_reports that passed
  dubbed,     \* the content of lessons/<lesson>/dubbed_output.mp4
  stored,     \* the contents of the lesson's storage_objects
  course,     \* courses.status
  releases,   \* course_releases: the lessons each release was found complete with
  pc,         \* where each worker and WF04 is
  work,       \* the job a worker executes
  part,       \* the part it downloads, 0 if that has no row to be marked
  mine,       \* the content it has dubbed or sent
  todo,       \* the lessons it has still to enqueue or to check
  seen,       \* the lessons its completeness check has read
  requests,   \* the calls of the API under way, as <<lesson, step>>
  faults,     \* deaths and failures so far
  lapses,     \* leases that have lapsed under a live worker
  contests,   \* claims of a job that another worker was claiming already
  calls       \* calls of the API so far

queue    == <<jobs, attempts, holder, lapsed, swept>>
archive  == <<files, parts, extracted>>
lessons  == <<status, source, report, passed, dubbed, stored>>
release  == <<course, releases>>
scratch  == <<part, mine, todo, seen>>
workers  == <<pc, work, scratch>>
outside  == <<requests, calls>>
bounds   == <<faults, lapses, contests>>
vars     == <<queue, archive, lessons, release, workers, outside, bounds>>

Existing == {l \in Lessons : status[l] # "ABSENT"}

\* The lesson of the job a worker executes.
Lesson(w) == work[w][2]

Init ==
  /\ \E first \in FirstJobs, direct \in Lessons :
       /\ \A l \in Lessons : direct <= l
       /\ jobs = [j \in Jobs |->
            IF j[1] \in first /\ j[2] \in {NoLesson, direct} THEN "QUEUED" ELSE "ABSENT"]
       /\ parts = [n \in PartNumbers |-> IF "TRANSFER" \in first THEN "PENDING" ELSE "ABSENT"]
       /\ status = [l \in Lessons |->
            IF l = direct /\ "FETCH" \in first THEN "PENDING" ELSE "ABSENT"]
       /\ source = [l \in Lessons |->
            IF l = direct /\ "FETCH" \in first THEN "LINK" ELSE "NONE"]
  /\ attempts = [j \in Jobs |-> 0]
  /\ holder = [j \in Jobs |-> NoWorker]
  /\ lapsed = {}
  /\ swept = [s \in Sweeps |-> {}]
  /\ files = {} /\ extracted = FALSE
  /\ report = [l \in Lessons |-> "NONE"]
  /\ passed = {}
  /\ dubbed = [l \in Lessons |-> "NONE"]
  /\ stored = [l \in Lessons |-> {}]
  /\ course = "METADATA_READY" /\ releases = {}
  /\ pc = [a \in Agents |-> "idle"]
  /\ work = [w \in Workers |-> NoJob]
  /\ part = [w \in Workers |-> 0]
  /\ mine = [w \in Workers |-> "NONE"]
  /\ todo = [a \in Agents |-> {}]
  /\ seen = [a \in Agents |-> {}]
  /\ requests = {}
  /\ faults = 0 /\ lapses = 0 /\ contests = 0 /\ calls = 0

-----------------------------------------------------------------------------
(* The job queue.                                                          *)

\* enqueue_job for every key in ks: a key that is there already, finished or not, is left
\* as it is.
Enqueue(ks) ==
  jobs' = [j \in Jobs |-> IF j \in ks /\ jobs[j] = "ABSENT" THEN "QUEUED" ELSE jobs[j]]

\* Where the handler of a job begins.
FirstStep(kind) ==
  CASE kind \in {"TRANSFER", "INGEST", "FETCH"} -> "locate"
    [] kind \in {"DUBBING", "DUB"} -> "dub"
    [] kind = "EXTRACTION" -> "extract"
    [] kind = "INVENTORY" -> "insert"
    [] kind = "UPLOAD" -> "send"
    [] kind = "FINALIZE" -> "list"

\* Mutant of Claimable: a lease that has run out is left to the sweep.
MutantOnlyQueued(j) == jobs[j] = "QUEUED"

\* A job that waits, or one whose lease has run out, whatever its attempts.
Claimable(j) == jobs[j] = "QUEUED" \/ j \in lapsed

MayFault == faults + lapses + contests + calls < MaxDisturbances

\* Another worker has selected the row and not updated it yet.
Contested(j) == \E v \in Workers : pc[v] = "claiming" /\ work[v] = j

\* claim_job's SELECT.
ClaimSelect(w, j) ==
  /\ pc[w] = "idle" /\ Claimable(j)
  /\ \/ ~Contested(j) /\ UNCHANGED contests
     \/ Contested(j) /\ MayFault /\ contests' = contests + 1
  /\ work' = [work EXCEPT ![w] = j]
  /\ pc' = [pc EXCEPT ![w] = "claiming"]
  /\ UNCHANGED <<queue, archive, lessons, release, scratch, outside, faults, lapses>>

\* claim_job's UPDATE.  A worker that finds the row taken, renewed or given up by then
\* executes the job all the same, without its token.
ClaimUpdate(w) ==
  LET j == work[w] IN
  /\ pc[w] = "claiming"
  /\ IF Claimable(j)
     THEN /\ jobs' = [jobs EXCEPT ![j] = "PROCESSING"]
          /\ attempts' = [attempts EXCEPT ![j] = @ + 1]
          /\ holder' = [holder EXCEPT ![j] = w]
          /\ lapsed' = lapsed \ {j}
     ELSE UNCHANGED <<jobs, attempts, holder, lapsed>>
  /\ pc' = [pc EXCEPT ![w] = FirstStep(j[1])]
  /\ UNCHANGED <<swept, archive, lessons, release, work, scratch, outside, bounds>>

\* The steps with a heartbeat: the first of a handler, which has one before it, and the
\* downloads of TRANSFER.
Beating == {"locate", "dub", "extract", "insert", "send", "list", "download"}

\* heartbeat_job renews a lease that has run out, too.
Renew(w) ==
  /\ pc[w] \in Beating /\ holder[work[w]] = w /\ work[w] \in lapsed
  /\ lapsed' = lapsed \ {work[w]}
  /\ UNCHANGED <<jobs, attempts, holder, swept, archive, lessons, release, workers, outside,
                 bounds>>

\* fail_job and the sweep give a job up once it has used its attempts.
AfterFailure(j) == IF attempts[j] >= MaxAttempts THEN "DEAD_LETTER" ELSE "QUEUED"

\* reclaim_expired_job_leases: its SELECT of the jobs whose lease has run out, ...
SweepSelect(s) ==
  /\ swept[s] = {} /\ lapsed # {}
  /\ swept' = [swept EXCEPT ![s] = {<<j, AfterFailure(j)>> : j \in lapsed}]
  /\ UNCHANGED <<jobs, attempts, holder, lapsed, archive, lessons, release, workers, outside,
                 bounds>>

\* ... and its UPDATEs, by id alone, whatever has become of the rows since.
Reclaims(s, j) == <<j, "QUEUED">> \in swept[s]
GivesUp(s, j) == <<j, "DEAD_LETTER">> \in swept[s]

SweepUpdate(s) ==
  /\ swept[s] # {}
  /\ jobs' = [j \in Jobs |-> IF Reclaims(s, j) THEN "QUEUED"
                            ELSE IF GivesUp(s, j) THEN "DEAD_LETTER" ELSE jobs[j]]
  /\ holder' = [j \in Jobs |-> IF Reclaims(s, j) THEN NoWorker ELSE holder[j]]
  /\ lapsed' = {j \in lapsed : ~Reclaims(s, j) /\ ~GivesUp(s, j)}
  /\ swept' = [swept EXCEPT ![s] = {}]
  /\ UNCHANGED <<attempts, archive, lessons, release, workers, outside, bounds>>

\* A worker is done with its job, whatever the database made of it: nobody has its token
\* any more.
Leaves(w) ==
  /\ holder' = [j \in Jobs |-> IF holder[j] = w THEN NoWorker ELSE holder[j]]
  /\ pc' = [pc EXCEPT ![w] = "idle"]
  /\ work' = [work EXCEPT ![w] = NoJob]
  /\ part' = [part EXCEPT ![w] = 0]
  /\ mine' = [mine EXCEPT ![w] = "NONE"]
  /\ todo' = [todo EXCEPT ![w] = {}]
  /\ seen' = [seen EXCEPT ![w] = {}]

\* complete_job: only for the token of the row, and before its lease runs out.
Complete(w) ==
  LET j == work[w] IN
  /\ pc[w] = "done"
  /\ IF holder[j] = w /\ jobs[j] = "PROCESSING" /\ j \notin lapsed
     THEN jobs' = [jobs EXCEPT ![j] = "COMPLETED"]
     ELSE UNCHANGED jobs
  /\ Leaves(w)
  /\ UNCHANGED <<attempts, lapsed, swept, archive, lessons, release, outside, bounds>>

\* fail_job: only for the token of the row.
FailJob(w) ==
  LET j == work[w] IN
  /\ pc[w] = "failing"
  /\ IF holder[j] = w
     THEN /\ jobs' = [jobs EXCEPT ![j] = AfterFailure(j)]
          /\ lapsed' = lapsed \ {j}
     ELSE UNCHANGED <<jobs, lapsed>>
  /\ Leaves(w)
  /\ UNCHANGED <<attempts, swept, archive, lessons, release, outside, bounds>>

Busy(w) == pc[w] \notin {"idle", "claiming", "failing"}

\* A handler raises: a file, the network, a tool or the database fails it.
HandlerFails(w) ==
  /\ Busy(w) /\ MayFault
  /\ pc' = [pc EXCEPT ![w] = "failing"] /\ faults' = faults + 1
  /\ UNCHANGED <<queue, archive, lessons, release, work, scratch, outside, lapses,
                 contests>>

\* A worker dies, and its lease runs out.
WorkerDies(w) ==
  LET j == work[w] IN
  /\ pc[w] # "idle" /\ MayFault
  /\ lapsed' = IF holder[j] = w /\ jobs[j] = "PROCESSING" THEN lapsed \cup {j} ELSE lapsed
  /\ faults' = faults + 1
  /\ Leaves(w)
  /\ UNCHANGED <<jobs, attempts, swept, archive, lessons, release, outside, lapses,
                 contests>>

\* A lease runs out under a worker that goes on: a step between two heartbeats, or a
\* handler without any, takes longer than the lease.
LeaseLapses(j) ==
  /\ jobs[j] = "PROCESSING" /\ j \notin lapsed /\ MayFault
  /\ lapsed' = lapsed \cup {j} /\ lapses' = lapses + 1
  /\ UNCHANGED <<jobs, attempts, holder, swept, archive, lessons, release, workers, outside,
                 faults, contests>>

-----------------------------------------------------------------------------
(* The TRANSFER handler.                                                   *)

\* Worker w goes on at step p of its handler.
At(w, p) == pc[w] = p
Go(w, p) == pc' = [pc EXCEPT ![w] = p]
KindOf(w) == work[w][1]

Pending == {n \in PartNumbers : parts[n] = "PENDING"}
FirstPending == CHOOSE n \in Pending : \A k \in Pending : n <= k

\* A lesson's job downloads the link of the lesson. Once the path of the downloaded file has
\* taken its place, the code looks for an archive part and on the course's page; a direct
\* video has no part, and its page, which is the video itself, names none: it finds nothing.
LocateVideo(w) ==
  /\ At(w, "locate") /\ KindOf(w) = "FETCH"
  /\ Go(w, IF source[Lesson(w)] = "LINK" THEN "download" ELSE "failing")
  /\ UNCHANGED <<queue, archive, lessons, release, work, scratch, outside, bounds>>

\* The course's job takes the first pending part.
LocatePart(w) ==
  /\ At(w, "locate") /\ KindOf(w) # "FETCH" /\ Pending # {}
  /\ part' = [part EXCEPT ![w] = FirstPending]
  /\ Go(w, "download")
  /\ UNCHANGED <<queue, archive, lessons, release, work, mine, todo, seen, outside, bounds>>

\* Without one it inserts the parts its page names, one after the other, and downloads the
\* first of them, of whose row it knows nothing.
DiscoverPart(w) ==
  LET absent == {n \in PartNumbers : parts[n] = "ABSENT"} IN
  /\ \/ At(w, "locate") /\ KindOf(w) # "FETCH" /\ Pending = {}
     \/ At(w, "discover")
  /\ IF absent = {}
     THEN Go(w, "download") /\ UNCHANGED parts
     ELSE /\ Go(w, "discover")
          /\ parts' = [parts EXCEPT ![CHOOSE n \in absent : \A k \in absent : n <= k] = "PENDING"]
  /\ UNCHANGED <<queue, files, extracted, lessons, release, work, scratch, outside, bounds>>

Download(w) ==
  /\ At(w, "download") /\ KindOf(w) # "FETCH"
  /\ files' = files \cup {IF part[w] = 0 THEN 1 ELSE part[w]}
  /\ Go(w, IF part[w] = 0 THEN "chain" ELSE "mark")
  /\ UNCHANGED <<queue, parts, extracted, lessons, release, work, scratch, outside, bounds>>

MarkPart(w) ==
  /\ At(w, "mark")
  /\ parts' = [parts EXCEPT ![part[w]] = "DOWNLOADED"]
  /\ Go(w, "chain")
  /\ UNCHANGED <<queue, files, extracted, lessons, release, work, scratch, outside, bounds>>

\* More parts, or the extraction.  The key of the next TRANSFER is that of the course's
\* first one.
NextJob == CourseJob(IF Pending # {} THEN "TRANSFER" ELSE "EXTRACTION")

ChainTransfer(w) ==
  /\ At(w, "chain")
  /\ Enqueue({NextJob})
  /\ Go(w, "done")
  /\ UNCHANGED <<attempts, holder, lapsed, swept, archive, lessons, release, work, scratch,
                 outside, bounds>>

\* The video of a direct lesson: its file takes the place of its link.
StoreVideo(w) ==
  /\ At(w, "download") /\ KindOf(w) = "FETCH"
  /\ source' = [source EXCEPT ![Lesson(w)] = "FILE"]
  /\ status' = [status EXCEPT ![Lesson(w)] = "READY"]
  /\ Go(w, "direct")
  /\ UNCHANGED <<queue, archive, report, passed, dubbed, stored, release, work, scratch,
                 outside, bounds>>

EnqueueDirect(w) ==
  /\ At(w, "direct")
  /\ Enqueue({<<"DUBBING", Lesson(w)>>})
  /\ Go(w, "done")
  /\ UNCHANGED <<attempts, holder, lapsed, swept, archive, lessons, release, work, scratch,
                 outside, bounds>>

-----------------------------------------------------------------------------
(* The EXTRACTION and INVENTORY handlers.                                  *)

\* group_and_verify_parts wants the volumes from the first on without a gap, and the
\* extraction tool then misses the last ones.
Extractable == files = PartNumbers

Extract(w) ==
  /\ At(w, "extract")
  /\ IF Extractable
     THEN extracted' = TRUE /\ Go(w, "extracted")
     ELSE UNCHANGED extracted /\ Go(w, "failing")
  /\ UNCHANGED <<queue, files, parts, lessons, release, work, scratch, outside, bounds>>

\* The tool takes too long, or the quota is exceeded: the directory is removed, with what
\* an earlier execution has put there.
ExtractionTimesOut(w) ==
  /\ At(w, "extract") /\ Extractable /\ MayFault
  /\ extracted' = FALSE
  /\ faults' = faults + 1
  /\ Go(w, "failing")
  /\ UNCHANGED <<queue, files, parts, lessons, release, work, scratch, outside, lapses,
                 contests>>

ChainExtraction(w) ==
  /\ At(w, "extracted")
  /\ Enqueue({CourseJob("INVENTORY")})
  /\ Go(w, "done")
  /\ UNCHANGED <<attempts, holder, lapsed, swept, archive, lessons, release, work, scratch,
                 outside, bounds>>

\* upsert_chapter_and_lessons: new rows for the videos, whatever rows there are.
InsertLessons(w) ==
  /\ At(w, "insert")
  /\ IF extracted
     THEN \E new \in SUBSET (Lessons \ Existing) :
            /\ Cardinality(new) = Videos
            /\ \A l \in new, k \in Lessons : k < l => k \in Existing \cup new
            /\ status' = [l \in Lessons |-> IF l \in new THEN "PENDING" ELSE status[l]]
            /\ source' = [l \in Lessons |-> IF l \in new THEN "ARCHIVE" ELSE source[l]]
            /\ course' = "EXTRACTED"
            /\ todo' = [todo EXCEPT ![w] = new]
            /\ Go(w, "enqueue")
     ELSE UNCHANGED <<status, source, course, todo>> /\ Go(w, "failing")
  /\ UNCHANGED <<queue, archive, report, passed, dubbed, stored, releases, work,
                 part, mine, seen, outside, bounds>>

EnqueueDubbing(w) ==
  /\ At(w, "enqueue")
  /\ \E l \in todo[w] :
       /\ \A k \in todo[w] : l <= k
       /\ Enqueue({<<"DUBBING", l>>})
       /\ todo' = [todo EXCEPT ![w] = @ \ {l}]
       /\ Go(w, IF todo[w] = {l} THEN "done" ELSE "enqueue")
  /\ UNCHANGED <<attempts, holder, lapsed, swept, archive, lessons, release, work, part, mine,
                 seen, outside, bounds>>

-----------------------------------------------------------------------------
(* The DUBBING handler.                                                    *)

HasVideo(l) == source[l] = "FILE" \/ (source[l] = "ARCHIVE" /\ extracted)

\* The lesson is dubbed into the one file it has, over what is there.
Dub(w) ==
  LET l == Lesson(w) IN
  /\ At(w, "dub")
  /\ IF HasVideo(l)
     THEN \E q \in Qualities :
            /\ dubbed' = [dubbed EXCEPT ![l] = q]
            /\ mine' = [mine EXCEPT ![w] = q]
            /\ Go(w, "judge")
     ELSE UNCHANGED <<dubbed, mine>> /\ Go(w, "failing")
  /\ UNCHANGED <<queue, archive, status, source, report, passed, stored, release, work, part,
                 todo, seen, outside, bounds>>

\* No voice can be synthesized: the lesson fails at once.
SynthesisFails(w) ==
  /\ At(w, "dub") /\ HasVideo(Lesson(w)) /\ MayFault
  /\ status' = [status EXCEPT ![Lesson(w)] = "QC_FAILED"]
  /\ faults' = faults + 1
  /\ Go(w, "failing")
  /\ UNCHANGED <<queue, archive, source, report, passed, dubbed, stored, release, work,
                 scratch, outside, lapses, contests>>

\* record_qc_report: a report and the status that goes with it.
Recorded(l, ok) ==
  /\ report' = [report EXCEPT ![l] = IF ok THEN "PASSED" ELSE "FAILED"]
  /\ passed' = IF ok THEN passed \cup {l} ELSE passed
  /\ status' = [status EXCEPT ![l] = IF ok THEN "QC_PASSED" ELSE "QC_FAILED"]

\* Mutant of Passes: a file will do.
MutantAnyFile(w) == dubbed[Lesson(w)] # "NONE"

\* run_qc_check looks at the segments this worker has and at the file that is there.
Passes(w) == mine[w] = "GOOD" /\ dubbed[Lesson(w)] = "GOOD"

Judge(w) ==
  /\ At(w, "judge")
  /\ Recorded(Lesson(w), Passes(w))
  /\ Go(w, IF Passes(w) THEN "pass" ELSE "reject")
  /\ UNCHANGED <<queue, archive, source, dubbed, stored, release, work, scratch, outside,
                 bounds>>

\* Mutant of AfterReject: the handler goes on after a QC that failed.
MutantGoesOn == "upload"

\* What the handler does once it has marked a lesson that failed.
AfterReject == "failing"

\* The status once more, in a transaction of its own.
MarkVerdict(w) ==
  /\ At(w, "pass") \/ At(w, "reject")
  /\ status' = [status EXCEPT ![Lesson(w)] = IF At(w, "pass") THEN "QC_PASSED" ELSE "QC_FAILED"]
  /\ Go(w, IF At(w, "pass") THEN "upload" ELSE AfterReject)
  /\ UNCHANGED <<queue, archive, source, report, passed, dubbed, stored, release, work,
                 scratch, outside, bounds>>

EnqueueUpload(w) ==
  /\ At(w, "upload")
  /\ Enqueue({<<"UPLOAD", Lesson(w)>>})
  /\ Go(w, "done")
  /\ UNCHANGED <<attempts, holder, lapsed, swept, archive, lessons, release, work, scratch,
                 outside, bounds>>

-----------------------------------------------------------------------------
(* The UPLOAD handler.                                                     *)

\* Mutant of AfterSend: no look whether the file is there.
MutantSendsNothing(w) == "verify"

AfterSend(w) == IF dubbed[Lesson(w)] = "NONE" THEN "failing" ELSE "verify"

\* What the dubbed file holds now is sent to Telegram.
Send(w) ==
  /\ At(w, "send")
  /\ mine' = [mine EXCEPT ![w] = dubbed[Lesson(w)]]
  /\ Go(w, AfterSend(w))
  /\ UNCHANGED <<queue, archive, lessons, release, work, part, todo, seen, outside, bounds>>

\* verify_storage_upload.
VerifyStorage(w) ==
  LET l == Lesson(w) IN
  /\ At(w, "verify")
  /\ stored' = [stored EXCEPT ![l] = @ \cup {mine[w]}]
  /\ status' = [status EXCEPT ![l] = "UPLOADED"]
  /\ Go(w, "last")
  /\ UNCHANGED <<queue, archive, source, report, passed, dubbed, release, work, scratch,
                 outside, bounds>>

AllUploaded == \A l \in Existing : status[l] = "UPLOADED"

ChainUpload(w) ==
  /\ At(w, "last")
  /\ Enqueue(IF AllUploaded THEN {CourseJob("FINALIZE")} ELSE {})
  /\ Go(w, "done")
  /\ UNCHANGED <<attempts, holder, lapsed, swept, archive, lessons, release, work, scratch,
                 outside, bounds>>

-----------------------------------------------------------------------------
(* The FINALIZE handler, and WF04, which do the same check.                *)

\* Mutant of Listed: the lessons that are done.
MutantDone == {l \in Lessons : status[l] = "UPLOADED"}

\* check_course_completeness reads all lessons of the course.
Listed == Existing

ListLessons(a) ==
  /\ At(a, "list")
  /\ todo' = [todo EXCEPT ![a] = Listed]
  /\ seen' = [seen EXCEPT ![a] = {}]
  /\ Go(a, IF Listed = {} THEN "review" ELSE "check")
  /\ UNCHANGED <<queue, archive, lessons, release, work, part, mine, outside, bounds>>

\* Mutant of LessonComplete: the lesson's object is not asked for.
MutantNoObject(l) == report[l] = "PASSED"

LessonComplete(l) == report[l] = "PASSED" /\ stored[l] # {}

\* It reads the latest report and the object of one lesson after the other.
CheckLesson(a) ==
  /\ At(a, "check")
  /\ \E l \in todo[a] :
       /\ todo' = [todo EXCEPT ![a] = @ \ {l}]
       /\ seen' = [seen EXCEPT ![a] = @ \cup {l}]
       /\ Go(a, IF ~LessonComplete(l) THEN "review"
                ELSE IF todo[a] = {l} THEN "publish" ELSE "check")
  /\ UNCHANGED <<queue, archive, lessons, release, work, part, mine, outside, bounds>>

NeedsReview(w) ==
  /\ At(w, "review")
  /\ course' = "NEEDS_REVIEW"
  /\ Go(w, "done")
  /\ UNCHANGED <<queue, archive, lessons, releases, work, scratch, outside, bounds>>

InsertRelease(w) ==
  /\ At(w, "publish")
  /\ releases' = releases \cup {seen[w]}
  /\ Go(w, "ready")
  /\ UNCHANGED <<queue, archive, lessons, course, work, scratch, outside, bounds>>

MarkReady(w) ==
  /\ At(w, "ready")
  /\ course' = "READY"
  /\ Go(w, "done")
  /\ UNCHANGED <<queue, archive, lessons, releases, work, scratch, outside, bounds>>

-----------------------------------------------------------------------------
(* The calls of n8n and of the dashboard.                                  *)

\* WF03 asks for the dubbing of a lesson, under a key of its own, and then polls the job.
DubLesson(l) ==
  /\ l \in Existing /\ MayFault
  /\ Enqueue({<<"DUB", l>>})
  /\ requests' = requests \cup {<<l, "poll">>} /\ calls' = calls + 1
  /\ UNCHANGED <<attempts, holder, lapsed, swept, archive, lessons, release, workers, bounds>>

\* It sees the job completed.
PollEnds(l) ==
  /\ <<l, "poll">> \in requests /\ jobs[<<"DUB", l>>] = "COMPLETED"
  /\ requests' = requests \ {<<l, "poll">>}
  /\ UNCHANGED <<queue, archive, lessons, release, workers, calls, bounds>>

\* The job is given up, or the sixty polls are over while it still waits or runs: the
\* lesson is marked for review, by a failed report.
MarkReview(l) ==
  /\ <<l, "poll">> \in requests /\ jobs[<<"DUB", l>>] # "COMPLETED"
  /\ requests' = requests \ {<<l, "poll">>}
  /\ Recorded(l, FALSE)
  /\ UNCHANGED <<queue, archive, source, dubbed, stored, release, workers, calls, bounds>>

\* The dashboard overrides the QC of a lesson: a report, the status, the upload.
Override(l) ==
  /\ l \in Existing /\ MayFault
  /\ Recorded(l, TRUE)
  /\ requests' = requests \cup {<<l, "approve">>} /\ calls' = calls + 1
  /\ UNCHANGED <<queue, archive, source, dubbed, stored, release, workers, bounds>>

OverrideMarks(l) ==
  /\ <<l, "approve">> \in requests
  /\ status' = [status EXCEPT ![l] = "QC_PASSED"]
  /\ requests' = (requests \ {<<l, "approve">>}) \cup {<<l, "upload">>}
  /\ UNCHANGED <<queue, archive, source, report, passed, dubbed, stored, release, workers, calls,
                 bounds>>

OverrideEnqueues(l) ==
  /\ <<l, "upload">> \in requests
  /\ Enqueue({<<"UPLOAD", l>>})
  /\ requests' = requests \ {<<l, "upload">>}
  /\ UNCHANGED <<attempts, holder, lapsed, swept, archive, lessons, release, workers, calls,
                 bounds>>

\* WF04 is triggered.
Finalize ==
  /\ At(WF04, "idle") /\ MayFault
  /\ Go(WF04, "list") /\ calls' = calls + 1
  /\ UNCHANGED <<queue, archive, lessons, release, work, scratch, requests, bounds>>

\* It stops at a course that is not complete.
FinalizeEnds ==
  /\ At(WF04, "review")
  /\ Go(WF04, "idle")
  /\ UNCHANGED <<queue, archive, lessons, release, work, scratch, outside, bounds>>

\* emit-ready: the release and the status in one transaction, which fails if there is a
\* release of that hash already.
EmitReady ==
  /\ At(WF04, "publish")
  /\ \/ releases' = releases \cup {seen[WF04]} /\ course' = "READY"
     \/ UNCHANGED release
  /\ Go(WF04, "idle")
  /\ UNCHANGED <<queue, archive, lessons, work, scratch, outside, bounds>>

-----------------------------------------------------------------------------
(* The specification.                                                      *)

TransferStep(w) ==
  \/ LocateVideo(w) \/ LocatePart(w) \/ DiscoverPart(w) \/ Download(w) \/ MarkPart(w)
  \/ ChainTransfer(w) \/ StoreVideo(w) \/ EnqueueDirect(w)

ArchiveStep(w) ==
  Extract(w) \/ ChainExtraction(w) \/ InsertLessons(w) \/ EnqueueDubbing(w)

DubbingStep(w) == Dub(w) \/ Judge(w) \/ MarkVerdict(w) \/ EnqueueUpload(w)

UploadStep(w) == Send(w) \/ VerifyStorage(w) \/ ChainUpload(w)

FinalizeStep(w) == NeedsReview(w) \/ InsertRelease(w) \/ MarkReady(w)

CheckStep(a) == ListLessons(a) \/ CheckLesson(a)

\* What a worker does as long as nothing fails it.
WorkerStep(w) ==
  \/ \E j \in Jobs : ClaimSelect(w, j)
  \/ ClaimUpdate(w) \/ Renew(w) \/ Complete(w) \/ FailJob(w)
  \/ TransferStep(w) \/ ArchiveStep(w) \/ DubbingStep(w) \/ UploadStep(w) \/ FinalizeStep(w)
  \/ CheckStep(w)

Fault ==
  \/ \E w \in Workers :
       HandlerFails(w) \/ WorkerDies(w) \/ ExtractionTimesOut(w) \/ SynthesisFails(w)
  \/ \E j \in Jobs : LeaseLapses(j)

Call ==
  \/ \E l \in Lessons :
       \/ DubLesson(l) \/ PollEnds(l) \/ MarkReview(l)
       \/ Override(l) \/ OverrideMarks(l) \/ OverrideEnqueues(l)
  \/ Finalize \/ CheckStep(WF04) \/ FinalizeEnds \/ EmitReady

Next ==
  \/ \E w \in Workers : WorkerStep(w)
  \/ \E s \in Sweeps : SweepSelect(s) \/ SweepUpdate(s)
  \/ Fault
  \/ Call

Spec == Init /\ [][Next]_vars

\* The workers keep polling and go on with what they have begun.
FairSpec == Spec /\ \A w \in Workers : WF_vars(WorkerStep(w))

-----------------------------------------------------------------------------
(* Properties.                                                             *)

Steps == {"idle", "claiming", "failing", "done", "locate", "discover", "download", "mark",
          "chain", "direct", "extract", "extracted", "insert", "enqueue", "dub", "judge", "pass",
          "reject", "upload", "send", "verify", "last", "list", "check", "publish", "ready",
          "review"}

QueueOK ==
  /\ jobs \in [Jobs -> Statuses]
  /\ attempts \in [Jobs -> Nat]
  /\ holder \in [Jobs -> Workers \cup {NoWorker}]
  /\ lapsed \subseteq Jobs
  /\ swept \in [Sweeps -> SUBSET (Jobs \X {"QUEUED", "DEAD_LETTER"})]

ArchiveOK ==
  /\ files \subseteq PartNumbers
  /\ parts \in [PartNumbers -> {"ABSENT", "PENDING", "DOWNLOADED"}]
  /\ extracted \in BOOLEAN

LessonsOK ==
  /\ status \in [Lessons -> {"ABSENT", "PENDING", "READY", "QC_PASSED", "QC_FAILED", "UPLOADED"}]
  /\ source \in [Lessons -> {"NONE", "LINK", "FILE", "ARCHIVE"}]
  /\ report \in [Lessons -> {"NONE", "PASSED", "FAILED"}]
  /\ passed \subseteq Lessons
  /\ dubbed \in [Lessons -> Qualities \cup {"NONE"}]
  /\ stored \in [Lessons -> SUBSET Qualities]

ReleaseOK ==
  /\ course \in {"METADATA_READY", "EXTRACTED", "NEEDS_REVIEW", "READY"}
  /\ releases \subseteq SUBSET Lessons

WorkersOK ==
  /\ pc \in [Agents -> Steps]
  /\ work \in [Workers -> Jobs \cup {NoJob}]
  /\ part \in [Workers -> {0} \cup PartNumbers]
  /\ mine \in [Workers -> Qualities \cup {"NONE"}]
  /\ todo \in [Agents -> SUBSET Lessons]
  /\ seen \in [Agents -> SUBSET Lessons]

OutsideOK ==
  /\ requests \subseteq Lessons \X {"poll", "approve", "upload"}
  /\ faults \in Nat /\ lapses \in Nat /\ contests \in Nat /\ calls \in Nat

\* The variables have their types.
TypeOK == QueueOK /\ ArchiveOK /\ LessonsOK /\ ReleaseOK /\ WorkersOK /\ OutsideOK

\* Nothing gets into the storage of a lesson none of whose reports passed, whoever recorded
\* them and in whatever order jobs, takeovers and overrides came.
StoredHadPass == \A l \in Lessons : stored[l] # {} => l \in passed

\* A release has lessons, and each of them a report that passed and a stored object,
\* although FINALIZE reads them one by one and inserts the release later; and a READY
\* course has a release.
ReleaseComplete ==
  /\ \A r \in releases : r # {} /\ r \subseteq passed /\ \A l \in r : stored[l] # {}
  /\ course = "READY" => releases # {}

\* No worker died or failed, no lease ran out and no claim was contested.
Undisturbed == faults = 0 /\ lapses = 0 /\ contests = 0

\* The QC gate: as long as nothing fails and nobody calls, what is stored is what the QC
\* has passed, although judging, enqueueing and sending are apart and share one file.
GateHolds == Undisturbed /\ calls = 0 => \A l \in Lessons : "BAD" \notin stored[l]

\* As long as nothing fails, a release has every lesson of the course, although it is the
\* uploads of single lessons that find out which is the last.
ReleaseHasAllLessons == Undisturbed => \A r \in releases : r = Existing

\* A lesson that nothing will dub any more: its INVENTORY died before its DUBBING job.
Orphan(l) ==
  /\ source[l] = "ARCHIVE" /\ jobs[<<"DUBBING", l>>] = "ABSENT"
  /\ \A w \in Workers : l \notin todo[w]

\* A lesson that was dubbed again after its upload: its UPLOAD job is used up.
Redubbed(l) == stored[l] # {} /\ status[l] # "UPLOADED"

\* The course is released, up to the operator, or has a job that is given up.
Settled == course \in {"READY", "NEEDS_REVIEW"} \/ \E j \in Jobs : jobs[j] = "DEAD_LETTER"

\* Deaths, failures, lapsed leases and calls notwithstanding, every course settles, unless a
\* lesson is left without its DUBBING job or is dubbed again after its upload.
CourseSettles == [](\A l \in Lessons : ~Orphan(l) /\ ~Redubbed(l)) => <>Settled

\* What job_runner.py says of its chain of TRANSFER jobs: the parts that remain are
\* downloaded, or the course shows a job that was given up.
RemainingPartsDownloaded ==
  (\E n \in PartNumbers : parts[n] # "ABSENT")
    ~> \/ \A n \in PartNumbers : parts[n] = "DOWNLOADED"
       \/ \E j \in Jobs : jobs[j] = "DEAD_LETTER"
=============================================================================
