------------------------------ MODULE Dispatch ------------------------------
(***************************************************************************)
(* The way of a course from the discovery database to its first job: the   *)
(* calls of workflow WF02, discovery/claim (claim_discovered_course) and   *)
(* then processing/validate-and-enqueue, and the dashboard's ingest, which *)
(* creates the rows of a course and its job directly.                      *)
(*                                                                         *)
(* Atomicity is that of JobQueue: a SELECT and the write that follows it   *)
(* in one method are two steps, and every method commits by itself, so a   *)
(* call that dies leaves what it has done so far.                          *)
(*                                                                         *)
(* A lease is live or it has run out.  claim_discovered_course compares    *)
(* with the `now` it read first, so what its UPDATE sees is whether the    *)
(* lease had run out at its SELECT and the row was not claimed since.      *)
(*                                                                         *)
(* The archive parts of a course are taken together, and its page keeps    *)
(* the parts it has.  A direct video, which ingest gives a lesson and a    *)
(* TRANSFER job of its own, is not among the courses.                      *)
(*                                                                         *)
(* All URLs of a course have the path of the canonical one, so whether its *)
(* URL is that of a tutorial does not change.                              *)
(***************************************************************************)
EXTENDS Naturals

CONSTANTS
  Courses,      \* the rows of discovered_courses, by canonical URL; so the slugs too
  Dispatchers,  \* concurrent executions of WF02
  Admins,       \* concurrent calls of the dashboard's ingest
  NoCourse,     \* a call that has no course in hand
  MaxFailures   \* bound: the number of calls that die and of marks that fail

ASSUME ConstantsAssumption ==
  /\ Dispatchers \cap Admins = {}
  /\ NoCourse \notin Courses
  /\ MaxFailures \in Nat

Callers == Dispatchers \cup Admins

\* The idempotency keys a course's first job may have: <course>:none:TRANSFER,
\* <course>:none:EXTRACTION and the ingest's transfer:course:<course>.
Keys == {"TRANSFER", "EXTRACTION", "INGEST"}

VARIABLES
  tutorials,    \* the courses whose URL is that of a video tutorial and no download's
  claim_state,  \* discovered_courses.claim_state, "ABSENT" while there is no row
  older,        \* the rows with a smaller first_seen_at
  eligible,     \* the rows whose next_eligible_at has passed
  expired,      \* the CLAIMED rows whose lease_expiry has passed
  courses,      \* the courses that have a row in the processing database
  parts,        \* their rows in archive_parts: "none", some "pending", all "downloaded"
  bySlug,       \* the courses with an archive in downloads/<slug>
  byId,         \* the courses with an archive in downloads/<course id>
  jobs,         \* the first jobs, as <<course, key>>
  pc,           \* where each call is
  cur,          \* its course
  overdue,      \* its claim saw a lease that had run out
  saw,          \* what it looked for before its write was there
  found,        \* it has archive parts to insert
  key,          \* the key of the job it is to enqueue
  failures      \* the number of failures so far

discovery  == <<tutorials, claim_state, older, eligible, expired>>
archives   == <<bySlug, byId>>
processing == <<courses, parts, archives, jobs>>
callers    == <<pc, cur, overdue, saw, found, key>>
vars       == <<discovery, processing, callers, failures>>

HasJob(c) == \E k \in Keys : <<c, k>> \in jobs

Init ==
  /\ tutorials \in SUBSET Courses
  /\ claim_state = [c \in Courses |-> "ABSENT"]
  /\ older = [c \in Courses |-> {}]
  /\ eligible = {}
  /\ expired = {}
  /\ courses = {}
  /\ parts = [c \in Courses |-> "none"]
  /\ bySlug = {}
  /\ byId = {}
  /\ jobs = {}
  /\ pc = [a \in Callers |-> "idle"]
  /\ cur = [a \in Callers |-> NoCourse]
  /\ overdue = [a \in Callers |-> FALSE]
  /\ saw = [a \in Callers |-> FALSE]
  /\ found = [a \in Callers |-> FALSE]
  /\ key = [a \in Callers |-> "NONE"]
  /\ failures = 0

-----------------------------------------------------------------------------
(* Discovery.                                                              *)

\* What upsert_discovered_course does to the claim columns: a new course is UNCLAIMED,
\* and eligible from the time of its upsert on, which the clock of a claim has still to reach.
\* They stay as they are for a course that is there.
Discovered(c) ==
  IF claim_state[c] = "ABSENT"
  THEN /\ claim_state' = [claim_state EXCEPT ![c] = "UNCLAIMED"]
       /\ older' = [older EXCEPT ![c] = {k \in Courses : claim_state[k] # "ABSENT"}]
  ELSE UNCHANGED <<claim_state, older>>

\* WF01 finds a course.
Discover(c) ==
  /\ claim_state[c] = "ABSENT" /\ Discovered(c)
  /\ UNCHANGED <<tutorials, eligible, expired, processing, callers, failures>>

\* A claim that reads the time from now on finds it past the time of the upsert.
BecomesEligible(c) ==
  /\ claim_state[c] # "ABSENT" /\ c \notin eligible
  /\ eligible' = eligible \cup {c}
  /\ UNCHANGED <<tutorials, claim_state, older, expired, processing, callers, failures>>

\* The lease of a claimed course runs out.
LeaseExpires(c) ==
  /\ claim_state[c] = "CLAIMED" /\ c \notin expired
  /\ expired' = expired \cup {c}
  /\ UNCHANGED <<tutorials, claim_state, older, eligible, processing, callers, failures>>

-----------------------------------------------------------------------------
(* discovery/claim.                                                        *)

\* Mutant of Claimable: a claim whose lease has run out is not taken over.
MutantNoTakeover(c) == claim_state[c] = "UNCLAIMED" /\ c \in tutorials \cap eligible

\* The WHERE of claim_discovered_course's SELECT.
Claimable(c) ==
  /\ claim_state[c] = "UNCLAIMED" \/ c \in expired
  /\ c \in tutorials \cap eligible

\* claim_discovered_course's SELECT: the oldest claimable course.
ClaimSelect(d) ==
  LET candidates == {c \in Courses : Claimable(c)}
  IN  /\ pc[d] = "idle"
      /\ \E c \in candidates :
           /\ older[c] \cap candidates = {}
           /\ cur' = [cur EXCEPT ![d] = c]
           /\ overdue' = [overdue EXCEPT ![d] = c \in expired]
      /\ pc' = [pc EXCEPT ![d] = "claiming"]
      /\ UNCHANGED <<discovery, processing, saw, found, key, failures>>

\* The WHERE of its UPDATE, which asks for no URL and no time to be eligible.  A lease
\* that had run out counts in every claim_state, and any claim since then has set a new one.
ClaimMatches(d) == claim_state[cur[d]] = "UNCLAIMED" \/ overdue[d]

\* claim_discovered_course's UPDATE.  Whether it matched is not looked at: WF02 goes on
\* with the course in either case.
ClaimUpdate(d) ==
  LET c == cur[d]
  IN  /\ pc[d] = "claiming"
      /\ pc' = [pc EXCEPT ![d] = "claimed"]
      /\ \/ /\ ClaimMatches(d)
            /\ claim_state' = [claim_state EXCEPT ![c] = "CLAIMED"]
            /\ expired' = expired \ {c}
            /\ overdue' = [a \in Callers |-> overdue[a] /\ cur[a] # c]
         \/ /\ ~ClaimMatches(d)
            /\ overdue' = [overdue EXCEPT ![d] = FALSE]
            /\ UNCHANGED <<claim_state, expired>>
      /\ UNCHANGED <<tutorials, older, eligible, processing, cur, saw, found, key, failures>>

-----------------------------------------------------------------------------
(* validate-and-enqueue, and ingest up to the course row.                  *)

\* A call is over, with its answer or an error.
Ends(a) ==
  /\ pc' = [pc EXCEPT ![a] = "idle"]
  /\ cur' = [cur EXCEPT ![a] = NoCourse]
  /\ overdue' = [overdue EXCEPT ![a] = FALSE]
  /\ saw' = [saw EXCEPT ![a] = FALSE]
  /\ found' = [found EXCEPT ![a] = FALSE]
  /\ key' = [key EXCEPT ![a] = "NONE"]

\* ingest upserts the discovery row of a course that it does not go on to claim.
Ingest(a) ==
  /\ pc[a] = "idle"
  /\ \E c \in Courses : Discovered(c) /\ cur' = [cur EXCEPT ![a] = c]
  /\ pc' = [pc EXCEPT ![a] = "fetched"]
  /\ UNCHANGED <<tutorials, eligible, expired, processing, overdue, saw, found, key, failures>>

\* validate-and-enqueue fetches the course page for its archive parts, unless there is an
\* archive in downloads/<slug>.  The fetch may fail, and the page may have no parts.
FetchPage(d) ==
  /\ pc[d] = "claimed"
  /\ \E f \in BOOLEAN : /\ f => cur[d] \notin bySlug
                        /\ found' = [found EXCEPT ![d] = f]
  /\ pc' = [pc EXCEPT ![d] = "fetched"]
  /\ UNCHANGED <<discovery, processing, cur, overdue, saw, key, failures>>

\* create_or_update_course's SELECT, by slug or discovery id.
CourseSelect(a) ==
  /\ pc[a] = "fetched"
  /\ saw' = [saw EXCEPT ![a] = cur[a] \in courses]
  /\ pc' = [pc EXCEPT ![a] = "course"]
  /\ UNCHANGED <<discovery, processing, cur, overdue, found, key, failures>>

\* The step after the course row.
AfterCourse(a) == IF a \in Admins THEN "enqueue" ELSE IF found[a] THEN "parts" ELSE "mark"

\* Mutant of Stored: the new row is not inserted.
MutantNotStored(c) == UNCHANGED courses

\* The courses row is there.
Stored(c) == courses' = courses \cup {c}

\* create_or_update_course: its UPDATE, or its INSERT, which fails if another call has
\* inserted the course meanwhile.
CourseWrite(a) ==
  /\ pc[a] = "course"
  /\ \/ /\ saw[a] \/ cur[a] \notin courses
        /\ Stored(cur[a])
        /\ pc' = [pc EXCEPT ![a] = AfterCourse(a)]
        /\ saw' = [saw EXCEPT ![a] = FALSE]
        /\ key' = [key EXCEPT ![a] = IF a \in Admins THEN "INGEST" ELSE "NONE"]
        /\ UNCHANGED <<cur, overdue, found>>
     \/ /\ ~saw[a] /\ cur[a] \in courses
        /\ Ends(a)
        /\ UNCHANGED courses
  /\ UNCHANGED <<discovery, parts, archives, jobs, failures>>

\* insert_archive_part's SELECT, for the parts the page has.
PartSelect(d) ==
  /\ pc[d] = "parts"
  /\ saw' = [saw EXCEPT ![d] = parts[cur[d]] # "none"]
  /\ pc' = [pc EXCEPT ![d] = "part"]
  /\ UNCHANGED <<discovery, processing, cur, overdue, found, key, failures>>

\* insert_archive_part: nothing for a part that is there, else its INSERT, which fails
\* if another call has inserted the part meanwhile.
PartInsert(d) ==
  LET c == cur[d]
  IN  /\ pc[d] = "part"
      /\ \/ /\ saw[d] \/ parts[c] = "none"
            /\ parts' = [parts EXCEPT ![c] = IF saw[d] THEN @ ELSE "pending"]
            /\ pc' = [pc EXCEPT ![d] = "mark"]
            /\ saw' = [saw EXCEPT ![d] = FALSE]
            /\ found' = [found EXCEPT ![d] = FALSE]
            /\ UNCHANGED <<cur, overdue, key>>
         \/ /\ ~saw[d] /\ parts[c] # "none"
            /\ Ends(d)
            /\ UNCHANGED parts
      /\ UNCHANGED <<discovery, courses, archives, jobs, failures>>

\* mark_discovered_course_enqueued, by id: whoever has the claim.  An error is logged.
MarkEnqueued(d) ==
  /\ pc[d] = "mark"
  /\ pc' = [pc EXCEPT ![d] = "look"]
  /\ \/ /\ claim_state' = [claim_state EXCEPT ![cur[d]] = "ENQUEUED"]
        /\ expired' = expired \ {cur[d]}
        /\ UNCHANGED failures
     \/ /\ failures < MaxFailures
        /\ failures' = failures + 1
        /\ UNCHANGED <<claim_state, expired>>
  /\ UNCHANGED <<tutorials, older, eligible, processing, cur, overdue, saw, found, key>>

\* The look for an archive, in either directory.
LookForArchives(d) ==
  /\ pc[d] = "look"
  /\ saw' = [saw EXCEPT ![d] = cur[d] \in bySlug \cup byId]
  /\ pc' = [pc EXCEPT ![d] = "choose"]
  /\ UNCHANGED <<discovery, processing, cur, overdue, found, key, failures>>

\* The first job is to have key k.
Chosen(a, k) ==
  /\ key' = [key EXCEPT ![a] = k]
  /\ pc' = [pc EXCEPT ![a] = "enqueue"]

\* Mutant of NeedsTransfer: a course without an archive is transferred, parts or not.
MutantNoParts(d) == ~saw[d]

\* There are pending parts, and there was no archive.
NeedsTransfer(d) == ~saw[d] /\ parts[cur[d]] = "pending"

\* get_pending_archive_parts, and TRANSFER if there are pending parts and no archive,
\* EXTRACTION if there is one.
Choose(d) ==
  /\ pc[d] = "choose"
  /\ \/ NeedsTransfer(d) /\ Chosen(d, "TRANSFER")
     \/ saw[d] /\ Chosen(d, "EXTRACTION")
     \/ /\ ~saw[d] /\ ~NeedsTransfer(d)
        /\ pc' = [pc EXCEPT ![d] = "count"]
        /\ UNCHANGED key
  /\ saw' = [saw EXCEPT ![d] = FALSE]
  /\ UNCHANGED <<discovery, processing, cur, overdue, found, failures>>

\* The part that the fallback creates, from the course's own URL.
DefaultPart(c) == parts' = [parts EXCEPT ![c] = IF @ = "none" THEN "pending" ELSE @]

\* all_archive_parts_downloaded: no part is in another status than DOWNLOADED.
AllDownloaded(c) == parts[c] # "pending"

\* Mutant of Count: a course without parts gets no job.
MutantNoFallback(d) ==
  /\ pc[d] = "count"
  /\ \/ parts[cur[d]] = "downloaded" /\ Chosen(d, "EXTRACTION")
        /\ UNCHANGED <<cur, overdue, saw, found>>
     \/ parts[cur[d]] # "downloaded" /\ Ends(d)
  /\ UNCHANGED <<discovery, processing, failures>>

\* EXTRACTION, if all parts are downloaded; else the fallback, a default part and TRANSFER.
Count(d) ==
  /\ pc[d] = "count"
  /\ \/ AllDownloaded(cur[d]) /\ Chosen(d, "EXTRACTION") /\ UNCHANGED parts
     \/ ~AllDownloaded(cur[d]) /\ DefaultPart(cur[d]) /\ Chosen(d, "TRANSFER")
  /\ UNCHANGED <<discovery, courses, archives, jobs, cur, overdue, saw, found, failures>>

\* enqueue_job: one job for each key.  The call answers.
EnqueueJob(a) ==
  /\ pc[a] = "enqueue"
  /\ jobs' = jobs \cup {<<cur[a], key[a]>>}
  /\ Ends(a)
  /\ UNCHANGED <<discovery, courses, parts, archives, failures>>

\* A call dies: the server is restarted or a database is out of reach.
Dies(a) ==
  /\ pc[a] # "idle" /\ failures < MaxFailures
  /\ failures' = failures + 1
  /\ Ends(a)
  /\ UNCHANGED <<discovery, processing>>

-----------------------------------------------------------------------------
(* The worker's side.                                                      *)
(*                                                                         *)
(* The TRANSFER handler, for either key.  It may stop after each of its     *)
(* writes and be started again, so its writes are actions of their own.    *)

Transfers(c) == {<<c, "TRANSFER">>, <<c, "INGEST">>} \cap jobs # {}

\* Without a pending part it takes the parts of the course page, and inserts them if they
\* are not there.
TransferDiscovers(c) ==
  /\ Transfers(c) /\ parts[c] = "none"
  /\ parts' = [parts EXCEPT ![c] = "pending"]
  /\ UNCHANGED <<discovery, courses, archives, jobs, callers, failures>>

\* It downloads a part.
TransferDownloads(c) ==
  /\ Transfers(c) /\ parts[c] # "none"
  /\ byId' = byId \cup {c}
  /\ UNCHANGED <<discovery, courses, parts, bySlug, jobs, callers, failures>>

\* mark_archive_part_downloaded, for the last part; the mark of another part leaves parts
\* pending, and a part found on the page is never marked.
TransferMarks(c) ==
  /\ Transfers(c) /\ c \in byId /\ parts[c] = "pending"
  /\ parts' = [parts EXCEPT ![c] = "downloaded"]
  /\ UNCHANGED <<discovery, courses, archives, jobs, callers, failures>>

\* It enqueues the job that comes next.
TransferChains(c) ==
  /\ Transfers(c) /\ c \in byId
  /\ jobs' = jobs \cup {<<c, IF parts[c] = "pending" THEN "TRANSFER" ELSE "EXTRACTION">>}
  /\ UNCHANGED <<discovery, courses, parts, archives, callers, failures>>

\* An operator puts the archive of a course into one of its downloads directories; that
\* of its id can be known once it has a row.
ArchiveArrives(c) ==
  /\ \/ bySlug' = bySlug \cup {c} /\ UNCHANGED byId
     \/ c \in courses /\ byId' = byId \cup {c} /\ UNCHANGED bySlug
  /\ UNCHANGED <<discovery, courses, parts, jobs, callers, failures>>

DispatcherStep(d) ==
  \/ ClaimSelect(d) \/ ClaimUpdate(d) \/ FetchPage(d) \/ CourseSelect(d) \/ CourseWrite(d)
  \/ PartSelect(d) \/ PartInsert(d) \/ MarkEnqueued(d) \/ LookForArchives(d)
  \/ Choose(d) \/ Count(d) \/ EnqueueJob(d)

AdminStep(a) == Ingest(a) \/ CourseSelect(a) \/ CourseWrite(a) \/ EnqueueJob(a)

Next ==
  \/ \E c \in Courses : \/ Discover(c) \/ BecomesEligible(c) \/ LeaseExpires(c)
                        \/ TransferDiscovers(c) \/ TransferDownloads(c)
                        \/ TransferMarks(c) \/ TransferChains(c) \/ ArchiveArrives(c)
  \/ \E d \in Dispatchers : DispatcherStep(d)
  \/ \E a \in Admins : AdminStep(a)
  \/ \E a \in Callers : Dies(a)

Spec == Init /\ [][Next]_vars

\* WF02 runs every 10 minutes for ever and the server goes on with every call; time
\* passes, so a course becomes eligible and a lease runs out.  Nobody has to discover,
\* ingest or download anything.
FairSpec ==
  /\ Spec
  /\ \A d \in Dispatchers : WF_vars(DispatcherStep(d))
  /\ \A c \in Courses : WF_vars(BecomesEligible(c)) /\ WF_vars(LeaseExpires(c))
-----------------------------------------------------------------------------
(* Properties.                                                             *)

\* Type invariant.  Parts and jobs refer to a course that is there, and only a CLAIMED
\* row has a lease that can run out.
TypeOK ==
  /\ claim_state \in [Courses -> {"ABSENT", "UNCLAIMED", "CLAIMED", "ENQUEUED"}]
  /\ tutorials \subseteq Courses
  /\ older \in [Courses -> SUBSET Courses]
  /\ eligible \subseteq {c \in Courses : claim_state[c] # "ABSENT"}
  /\ expired \subseteq {c \in Courses : claim_state[c] = "CLAIMED"}
  /\ courses \subseteq Courses
  /\ parts \in [Courses -> {"none", "pending", "downloaded"}]
  /\ bySlug \subseteq Courses
  /\ byId \subseteq courses
  /\ jobs \subseteq courses \X Keys
  /\ \A c \in Courses \ courses : parts[c] = "none"
  /\ pc \in [Callers -> {"idle", "claiming", "claimed", "fetched", "course", "parts",
                         "part", "mark", "look", "choose", "count", "enqueue"}]
  /\ cur \in [Callers -> Courses \cup {NoCourse}]
  /\ overdue \in [Callers -> BOOLEAN]
  /\ saw \in [Callers -> BOOLEAN]
  /\ found \in [Callers -> BOOLEAN]
  /\ key \in [Callers -> Keys \cup {"NONE"}]
  /\ failures \in 0..MaxFailures
  /\ \A a \in Callers : /\ pc[a] # "idle" <=> cur[a] \in Courses
                        /\ pc[a] = "enqueue" <=> key[a] # "NONE"

\* A TRANSFER job that a dispatch enqueued has something to transfer, however calls for
\* one course overlap: its handler finds a part, in whatever status.
TransferHasParts == \A c \in Courses : <<c, "TRANSFER">> \in jobs => parts[c] # "none"

\* A course no call works on: dispatched, and left to its job.
AtRest(c) == \A a \in Callers : cur[a] # c

\* The lease of a course runs out under a call that works on it: 300 seconds for one page
\* to fetch, at most twice 15 seconds, and a few transactions.
OverrunStep == \E c \in Courses : LeaseExpires(c) /\ ~AtRest(c)

\* Every video tutorial that is discovered is dispatched in the end and stays so, whatever
\* claims were lost and calls died, if from some moment on no lease runs out under a call.
\* A course with another URL is stored like any other and never claimed.
EveryCourseSettles ==
  (<>[][~OverrunStep]_vars)
    => \A c \in Courses :
         []<>(c \in tutorials /\ claim_state[c] # "ABSENT") => <>[](claim_state[c] = "ENQUEUED")

\* A course is marked before its processing job is created, but once no call works on it
\* any more an ENQUEUED course has its job, unless a call failed.
EnqueuedHasJob ==
  \A c \in Courses : failures = 0 /\ claim_state[c] = "ENQUEUED" /\ AtRest(c) => HasJob(c)
=============================================================================
