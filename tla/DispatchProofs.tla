--------------------------- MODULE DispatchProofs ---------------------------
(***************************************************************************)
(* Theorems about Dispatch, for any number of courses, workflows and calls *)
(* of ingest and any number of failures.                                   *)
(***************************************************************************)
EXTENDS Dispatch, TLAPS

\* From its course row on, a call works on a course that has one: what it inserts refers
\* to it.
Anchored ==
  \A a \in Callers :
    pc[a] \in {"parts", "part", "mark", "look", "choose", "count", "enqueue"}
      => cur[a] \in courses

\* A call that is about to enqueue TRANSFER has found or made a part, and parts stay.
TransferChosen ==
  \A a \in Callers : key[a] = "TRANSFER" => parts[cur[a]] # "none"

\* The types, with what a call in progress knows of its course.
CallsOK == TypeOK /\ Anchored

\* The inductive invariant.
PartsInv == TransferChosen /\ TransferHasParts

-----------------------------------------------------------------------------
(* Type correctness, action by action.                                     *)

\* Discover keeps every variable in its type.
LEMMA DiscoverType ==
  ASSUME NEW c \in Courses, CallsOK, Discover(c)
  PROVE  CallsOK'
BY ConstantsAssumption
   DEF ConstantsAssumption, CallsOK, TypeOK, Anchored, Discover, Discovered,
       Callers, discovery, archives, processing, callers

\* BecomesEligible keeps every variable in its type.
LEMMA BecomesEligibleType ==
  ASSUME NEW c \in Courses, CallsOK, BecomesEligible(c)
  PROVE  CallsOK'
BY ConstantsAssumption
   DEF ConstantsAssumption, CallsOK, TypeOK, Anchored, BecomesEligible,
       Callers, discovery, archives, processing, callers

\* LeaseExpires keeps every variable in its type.
LEMMA LeaseExpiresType ==
  ASSUME NEW c \in Courses, CallsOK, LeaseExpires(c)
  PROVE  CallsOK'
BY ConstantsAssumption
   DEF ConstantsAssumption, CallsOK, TypeOK, Anchored, LeaseExpires,
       Callers, discovery, archives, processing, callers

\* TransferDiscovers keeps every variable in its type.
LEMMA TransferDiscoversType ==
  ASSUME NEW c \in Courses, CallsOK, TransferDiscovers(c)
  PROVE  CallsOK'
BY ConstantsAssumption
   DEF ConstantsAssumption, CallsOK, TypeOK, Anchored, TransferDiscovers, Transfers,
       Callers, discovery, archives, processing, callers

\* TransferDownloads keeps every variable in its type.
LEMMA TransferDownloadsType ==
  ASSUME NEW c \in Courses, CallsOK, TransferDownloads(c)
  PROVE  CallsOK'
BY ConstantsAssumption
   DEF ConstantsAssumption, CallsOK, TypeOK, Anchored, TransferDownloads, Transfers,
       Callers, discovery, archives, processing, callers

\* TransferMarks keeps every variable in its type.
LEMMA TransferMarksType ==
  ASSUME NEW c \in Courses, CallsOK, TransferMarks(c)
  PROVE  CallsOK'
BY ConstantsAssumption
   DEF ConstantsAssumption, CallsOK, TypeOK, Anchored, TransferMarks, Transfers,
       Callers, discovery, archives, processing, callers

\* TransferChains keeps every variable in its type.
LEMMA TransferChainsType ==
  ASSUME NEW c \in Courses, CallsOK, TransferChains(c)
  PROVE  CallsOK'
BY ConstantsAssumption
   DEF ConstantsAssumption, CallsOK, TypeOK, Anchored, TransferChains, Transfers, Keys,
       Callers, discovery, archives, processing, callers

\* ArchiveArrives keeps every variable in its type.
LEMMA ArchiveArrivesType ==
  ASSUME NEW c \in Courses, CallsOK, ArchiveArrives(c)
  PROVE  CallsOK'
BY ConstantsAssumption
   DEF ConstantsAssumption, CallsOK, TypeOK, Anchored, ArchiveArrives,
       Callers, discovery, archives, processing, callers

\* ClaimSelect keeps every variable in its type.
LEMMA ClaimSelectType ==
  ASSUME NEW d \in Dispatchers, CallsOK, ClaimSelect(d)
  PROVE  CallsOK'
BY ConstantsAssumption
   DEF ConstantsAssumption, CallsOK, TypeOK, Anchored, ClaimSelect,
       Callers, discovery, archives, processing, callers

\* ClaimUpdate keeps every variable in its type.
LEMMA ClaimUpdateType ==
  ASSUME NEW d \in Dispatchers, CallsOK, ClaimUpdate(d)
  PROVE  CallsOK'
<1>1. d \in Callers /\ cur[d] \in Courses /\ pc[d] = "claiming" /\ key[d] = "NONE"
      BY DEF CallsOK, TypeOK, Callers, ClaimUpdate
<1>2. /\ \/ /\ claim_state' = [claim_state EXCEPT ![cur[d]] = "CLAIMED"]
            /\ expired' = expired \ {cur[d]}
         \/ UNCHANGED <<claim_state, expired>>
      /\ \/ overdue' = [a \in Callers |-> overdue[a] /\ cur[a] # cur[d]]
         \/ overdue' = [overdue EXCEPT ![d] = FALSE]
      BY DEF ClaimUpdate
<1>3. /\ pc' = [pc EXCEPT ![d] = "claimed"]
      /\ UNCHANGED <<tutorials, older, eligible, courses, parts, bySlug, byId, jobs, cur, saw,
                     found, key, failures>>
      BY DEF ClaimUpdate, processing, archives
<1>4. /\ claim_state' \in [Courses -> {"ABSENT", "UNCLAIMED", "CLAIMED", "ENQUEUED"}]
      /\ expired' \subseteq {c \in Courses : claim_state'[c] = "CLAIMED"}
      /\ eligible \subseteq {c \in Courses : claim_state'[c] # "ABSENT"}
      BY <1>1, <1>2 DEF CallsOK, TypeOK
<1>5. overdue' \in [Callers -> BOOLEAN]
  <2>1. [a \in Callers |-> overdue[a] /\ cur[a] # cur[d]] \in [Callers -> BOOLEAN]
        BY Zenon
  <2>2. [overdue EXCEPT ![d] = FALSE] \in [Callers -> BOOLEAN]
        BY <1>1 DEF CallsOK, TypeOK
  <2>3. QED BY <1>2, <2>1, <2>2
<1>6. QED BY <1>1, <1>3, <1>4, <1>5 DEF CallsOK, TypeOK, Anchored

\* FetchPage keeps every variable in its type.
LEMMA FetchPageType ==
  ASSUME NEW d \in Dispatchers, CallsOK, FetchPage(d)
  PROVE  CallsOK'
BY ConstantsAssumption
   DEF ConstantsAssumption, CallsOK, TypeOK, Anchored, FetchPage,
       Callers, discovery, archives, processing, callers

\* PartSelect keeps every variable in its type.
LEMMA PartSelectType ==
  ASSUME NEW d \in Dispatchers, CallsOK, PartSelect(d)
  PROVE  CallsOK'
BY ConstantsAssumption
   DEF ConstantsAssumption, CallsOK, TypeOK, Anchored, PartSelect,
       Callers, discovery, archives, processing, callers

\* PartInsert keeps every variable in its type.
LEMMA PartInsertType ==
  ASSUME NEW d \in Dispatchers, CallsOK, PartInsert(d)
  PROVE  CallsOK'
<1>1. d \in Callers /\ cur[d] \in courses /\ courses \subseteq Courses /\ pc[d] = "part"
      BY DEF CallsOK, TypeOK, Anchored, Callers, PartInsert
<1>2. /\ parts' = [parts EXCEPT ![cur[d]] = parts'[cur[d]]]
      /\ parts'[cur[d]] \in {"none", "pending", "downloaded"}
      BY <1>1 DEF PartInsert, CallsOK, TypeOK
<1>3. UNCHANGED <<tutorials, claim_state, older, eligible, expired, courses, bySlug, byId, jobs,
failures>>
      BY DEF PartInsert, discovery, archives
<1>4. CASE Ends(d)
      BY <1>1, <1>2, <1>3, <1>4, ConstantsAssumption
         DEF ConstantsAssumption, CallsOK, TypeOK, Anchored, Ends
<1>5. CASE ~Ends(d)
  <2>1. /\ pc' = [pc EXCEPT ![d] = "mark"] /\ saw' = [saw EXCEPT ![d] = FALSE]
        /\ found' = [found EXCEPT ![d] = FALSE] /\ UNCHANGED <<cur, overdue, key>>
        BY <1>5 DEF PartInsert
  <2>2. QED BY <1>1, <1>2, <1>3, <2>1 DEF CallsOK, TypeOK, Anchored
<1>6. QED BY <1>4, <1>5

\* MarkEnqueued keeps every variable in its type.
LEMMA MarkEnqueuedType ==
  ASSUME NEW d \in Dispatchers, CallsOK, MarkEnqueued(d)
  PROVE  CallsOK'
BY ConstantsAssumption
   DEF ConstantsAssumption, CallsOK, TypeOK, Anchored, MarkEnqueued,
       Callers, discovery, archives, processing, callers

\* LookForArchives keeps every variable in its type.
LEMMA LookForArchivesType ==
  ASSUME NEW d \in Dispatchers, CallsOK, LookForArchives(d)
  PROVE  CallsOK'
BY ConstantsAssumption
   DEF ConstantsAssumption, CallsOK, TypeOK, Anchored, LookForArchives,
       Callers, discovery, archives, processing, callers

\* Choose keeps every variable in its type.
LEMMA ChooseType ==
  ASSUME NEW d \in Dispatchers, CallsOK, Choose(d)
  PROVE  CallsOK'
BY ConstantsAssumption
   DEF ConstantsAssumption, CallsOK, TypeOK, Anchored, Choose, Chosen, NeedsTransfer, Keys,
       Callers, discovery, archives, processing, callers

\* Count keeps every variable in its type.
LEMMA CountType ==
  ASSUME NEW d \in Dispatchers, CallsOK, Count(d)
  PROVE  CallsOK'
BY ConstantsAssumption
   DEF ConstantsAssumption, CallsOK, TypeOK, Anchored, Count, Chosen, DefaultPart, AllDownloaded,
       Keys, Callers, discovery, archives, processing, callers

\* Ingest keeps every variable in its type.
LEMMA IngestType ==
  ASSUME NEW a \in Admins, CallsOK, Ingest(a)
  PROVE  CallsOK'
BY ConstantsAssumption
   DEF ConstantsAssumption, CallsOK, TypeOK, Anchored, Ingest, Discovered,
       Callers, discovery, archives, processing, callers

\* CourseSelect keeps every variable in its type.
LEMMA CourseSelectType ==
  ASSUME NEW a \in Callers, CallsOK, CourseSelect(a)
  PROVE  CallsOK'
BY ConstantsAssumption
   DEF ConstantsAssumption, CallsOK, TypeOK, Anchored, CourseSelect,
       Callers, discovery, archives, processing, callers

\* CourseWrite keeps every variable in its type.
LEMMA CourseWriteType ==
  ASSUME NEW a \in Callers, CallsOK, CourseWrite(a)
  PROVE  CallsOK'
<1>1. cur[a] \in Courses /\ pc[a] = "course"
      BY DEF CallsOK, TypeOK, CourseWrite
<1>2. /\ courses' = courses \/ courses' = courses \cup {cur[a]}
      /\ UNCHANGED <<tutorials, claim_state, older, eligible, expired, parts, bySlug, byId,
                     jobs, failures>>
      BY DEF CourseWrite, Stored, discovery, archives
<1>3. CASE Ends(a)
      BY <1>1, <1>2, <1>3, ConstantsAssumption
         DEF ConstantsAssumption, CallsOK, TypeOK, Anchored, Ends
<1>4. CASE ~Ends(a)
  <2>1. /\ courses' = courses \cup {cur[a]}
        /\ pc' = [pc EXCEPT ![a] = pc'[a]]
        /\ key' = [key EXCEPT ![a] = key'[a]]
        /\ \/ pc'[a] = "enqueue" /\ key'[a] = "INGEST"
           \/ pc'[a] \in {"parts", "mark"} /\ key'[a] = "NONE"
        /\ saw' = [saw EXCEPT ![a] = FALSE]
        /\ UNCHANGED <<cur, overdue, found>>
        BY <1>4 DEF CourseWrite, Stored, AfterCourse, CallsOK, TypeOK
  <2>2. QED BY <1>1, <1>2, <2>1 DEF CallsOK, TypeOK, Anchored, Keys
<1>5. QED BY <1>3, <1>4

\* EnqueueJob keeps every variable in its type.
LEMMA EnqueueJobType ==
  ASSUME NEW a \in Callers, CallsOK, EnqueueJob(a)
  PROVE  CallsOK'
BY ConstantsAssumption
   DEF ConstantsAssumption, CallsOK, TypeOK, Anchored, EnqueueJob, Ends, Keys,
       Callers, discovery, archives, processing, callers

\* Dies keeps every variable in its type.
LEMMA DiesType ==
  ASSUME NEW a \in Callers, CallsOK, Dies(a)
  PROVE  CallsOK'
BY ConstantsAssumption
   DEF ConstantsAssumption, CallsOK, TypeOK, Anchored, Dies, Ends,
       Callers, discovery, archives, processing, callers

\* The initial state.
LEMMA InitType == Init => CallsOK
BY ConstantsAssumption
   DEF ConstantsAssumption, Init, CallsOK, TypeOK, Anchored, Callers

\* Every step.
LEMMA StepType == CallsOK /\ [Next]_vars => CallsOK'
<1>1. SUFFICES ASSUME CallsOK, [Next]_vars PROVE CallsOK'
      OBVIOUS
<1>2. CASE UNCHANGED vars
      BY <1>1, <1>2 DEF CallsOK, TypeOK, Anchored, vars, discovery, archives, processing, callers
<1>3. ASSUME NEW c \in Courses,
             \/ Discover(c) \/ BecomesEligible(c) \/ LeaseExpires(c)
             \/ TransferDiscovers(c) \/ TransferDownloads(c)
             \/ TransferMarks(c) \/ TransferChains(c) \/ ArchiveArrives(c)
      PROVE  CallsOK'
      BY <1>1, <1>3, DiscoverType, BecomesEligibleType, LeaseExpiresType, TransferDiscoversType,
         TransferDownloadsType, TransferMarksType, TransferChainsType, ArchiveArrivesType
<1>4. ASSUME NEW d \in Dispatchers, DispatcherStep(d) PROVE CallsOK'
      BY <1>1, <1>4, ClaimSelectType, ClaimUpdateType, FetchPageType, CourseSelectType,
         CourseWriteType, PartSelectType, PartInsertType, MarkEnqueuedType,
         LookForArchivesType, ChooseType, CountType, EnqueueJobType
         DEF DispatcherStep, Callers
<1>5. ASSUME NEW a \in Admins, AdminStep(a) PROVE CallsOK'
      BY <1>1, <1>5, IngestType, CourseSelectType, CourseWriteType, EnqueueJobType
         DEF AdminStep, Callers
<1>6. QED BY <1>1, <1>2, <1>3, <1>4, <1>5, DiesType DEF Next

\* Parts and jobs refer to a course that is there, and every variable keeps its type.
THEOREM TypeCorrect == Spec => []TypeOK
<1>1. CallsOK => TypeOK
      BY DEF CallsOK
<1>2. QED BY InitType, StepType, <1>1, PTL DEF Spec

\* A call has its course row from the moment it has written it.
THEOREM CallsCorrect == Spec => []CallsOK
BY InitType, StepType, PTL DEF Spec

-----------------------------------------------------------------------------
(* Every TRANSFER job has a part to transfer.                              *)

\* Parts are never deleted: a course that has some keeps some.
LEMMA PartsStay ==
  ASSUME CallsOK, [Next]_vars, NEW c \in Courses, parts[c] # "none"
  PROVE  parts'[c] # "none"
<1>1. ASSUME NEW d \in Dispatchers, DispatcherStep(d) PROVE parts'[c] # "none"
      BY <1>1 DEF CallsOK, TypeOK, DispatcherStep, ClaimSelect, ClaimUpdate, FetchPage,
         CourseSelect, CourseWrite, PartSelect, PartInsert, MarkEnqueued, LookForArchives,
         Choose, Count, DefaultPart, EnqueueJob, processing
<1>2. ASSUME NEW a \in Callers, AdminStep(a) \/ Dies(a) PROVE parts'[c] # "none"
      BY <1>2 DEF AdminStep, Ingest, CourseSelect, CourseWrite, EnqueueJob, Dies, processing
<1>3. ASSUME NEW k \in Courses,
             \/ Discover(k) \/ BecomesEligible(k) \/ LeaseExpires(k)
             \/ TransferDiscovers(k) \/ TransferDownloads(k)
             \/ TransferMarks(k) \/ TransferChains(k) \/ ArchiveArrives(k)
      PROVE  parts'[c] # "none"
      BY <1>3 DEF CallsOK, TypeOK, Discover, BecomesEligible, LeaseExpires, TransferDiscovers,
         TransferDownloads, TransferMarks, TransferChains, ArchiveArrives, processing
<1>4. QED BY <1>1, <1>2, <1>3 DEF Next, vars, processing, Callers

\* A call that sets out to enqueue TRANSFER has parts.
LEMMA ChosenStep ==
  ASSUME CallsOK, TransferChosen, [Next]_vars
  PROVE  TransferChosen'
<1>1. SUFFICES ASSUME NEW a \in Callers, key'[a] = "TRANSFER" PROVE parts'[cur'[a]] # "none"
      BY DEF TransferChosen
<1>2. CASE key[a] = "TRANSFER" /\ cur'[a] = cur[a]
  <2>1. parts[cur[a]] # "none" /\ pc[a] = "enqueue"
        BY <1>2 DEF TransferChosen, CallsOK, TypeOK
  <2>2. cur[a] \in Courses
        BY <2>1 DEF CallsOK, TypeOK
  <2>3. QED BY <1>2, <2>1, <2>2, PartsStay
<1>3. CASE ~(key[a] = "TRANSFER" /\ cur'[a] = cur[a])
  <2>1. \E d \in Dispatchers : Choose(d) \/ Count(d)
    <3>1. ASSUME UNCHANGED <<key, cur>> PROVE FALSE
          BY <1>1, <1>3, <3>1
    <3>2. ASSUME NEW b \in Callers, Ends(b) PROVE FALSE
          BY <1>1, <1>3, <3>2 DEF CallsOK, TypeOK, Ends
    <3>3. ASSUME NEW b \in Callers, CourseWrite(b) PROVE FALSE
      <4>1. key' = [key EXCEPT ![b] = IF b \in Admins THEN "INGEST" ELSE "NONE"]
            /\ UNCHANGED cur
            BY <3>2, <3>3 DEF CourseWrite
      <4>2. QED BY <1>1, <1>3, <4>1 DEF CallsOK, TypeOK
    <3>4. ASSUME NEW b \in Callers, UNCHANGED key, pc[b] = "idle",
                 cur' = [cur EXCEPT ![b] = cur'[b]]
          PROVE  FALSE
          BY <1>1, <1>3, <3>4 DEF CallsOK, TypeOK
    <3>5. ASSUME NEW b \in Callers, ClaimSelect(b) \/ Ingest(b) PROVE FALSE
      <4>1. UNCHANGED key /\ pc[b] = "idle" /\ cur' = [cur EXCEPT ![b] = cur'[b]]
            BY <3>5 DEF ClaimSelect, Ingest, CallsOK, TypeOK
      <4>2. QED BY <3>4, <4>1
    <3>6. ASSUME NEW b \in Callers, PartInsert(b) PROVE FALSE
          BY <3>1, <3>2, <3>6 DEF PartInsert
    <3>7. QED BY <3>1, <3>2, <3>3, <3>5, <3>6
          DEF Next, DispatcherStep, AdminStep, Callers, ClaimUpdate, FetchPage, CourseSelect,
              PartSelect, MarkEnqueued, LookForArchives, EnqueueJob, Dies, Discover,
              BecomesEligible,
              LeaseExpires, TransferDiscovers, TransferDownloads, TransferMarks,
              TransferChains, ArchiveArrives, vars, callers
  <2>2. PICK d \in Dispatchers : Choose(d) \/ Count(d)
        BY <2>1
  <2>3. \/ UNCHANGED cur /\ key' = [key EXCEPT ![d] = key'[d]]
        \/ UNCHANGED <<cur, key>>
        BY <2>2 DEF Choose, Count, Chosen, CallsOK, TypeOK
  <2>4. d = a /\ cur'[a] = cur[a] /\ pc[a] \in {"choose", "count"}
        BY <1>1, <1>3, <2>2, <2>3 DEF CallsOK, TypeOK, Choose, Count
  <2>5. cur[a] \in Courses
        BY <2>4 DEF CallsOK, TypeOK
  <2>6. CASE Choose(d)
        BY <1>1, <1>3, <2>4, <2>5, <2>6
           DEF Choose, Chosen, NeedsTransfer, CallsOK, TypeOK, processing
  <2>7. CASE Count(d)
        BY <1>1, <2>4, <2>5, <2>7
           DEF Count, Chosen, AllDownloaded, DefaultPart, CallsOK, TypeOK
  <2>8. QED BY <2>2, <2>6, <2>7
<1>4. QED BY <1>2, <1>3

\* A TRANSFER job is enqueued by a call that has chosen it or by a worker that has found a
\* pending part.
LEMMA TransferStep ==
  ASSUME CallsOK, PartsInv, [Next]_vars
  PROVE  TransferHasParts'
<1>1. SUFFICES ASSUME NEW c \in Courses, <<c, "TRANSFER">> \in jobs' PROVE parts'[c] # "none"
      BY DEF TransferHasParts
<1>2. CASE parts[c] # "none"
      BY <1>2, PartsStay
<1>3. CASE <<c, "TRANSFER">> \notin jobs
  <2>1. ASSUME UNCHANGED jobs PROVE FALSE
        BY <1>1, <1>3, <2>1
  <2>2. ASSUME NEW a \in Callers, EnqueueJob(a) PROVE parts[c] # "none"
        BY <1>1, <1>3, <2>2 DEF EnqueueJob, PartsInv, TransferChosen
  <2>3. ASSUME NEW k \in Courses, TransferChains(k) PROVE parts[c] # "none"
        BY <1>1, <1>3, <2>3 DEF TransferChains
  <2>4. parts[c] # "none"
        BY <2>1, <2>2, <2>3
           DEF Next, DispatcherStep, AdminStep, Callers, Ingest, ClaimSelect, ClaimUpdate,
               FetchPage, CourseSelect, CourseWrite, PartSelect, PartInsert, MarkEnqueued,
               LookForArchives, Choose, Count, Dies, Discover, BecomesEligible, LeaseExpires,
               TransferDiscovers, TransferDownloads, TransferMarks, ArchiveArrives, vars,
               processing
  <2>5. QED BY <2>4, PartsStay
<1>4. QED BY <1>2, <1>3 DEF PartsInv, TransferHasParts

\* However calls for one course overlap and die, a TRANSFER job finds a part.
THEOREM TransferCorrect == Spec => []TransferHasParts
<1>1. Init => PartsInv
      BY DEF Init, PartsInv, TransferChosen, TransferHasParts
<1>2. CallsOK /\ PartsInv /\ [Next]_vars => PartsInv'
      BY ChosenStep, TransferStep DEF PartsInv
<1>3. PartsInv => TransferHasParts
      BY DEF PartsInv
<1>4. QED BY <1>1, <1>2, <1>3, CallsCorrect, PTL DEF Spec

-----------------------------------------------------------------------------
(* A course that is marked gets its job.                                   *)

\* A call that has marked its course has still to enqueue the job.
Late(a) == pc[a] \in {"look", "choose", "count", "enqueue"}

\* As long as no call has failed, a marked course has its job or a call on the way to it.
MarkedInv ==
  \A c \in Courses :
    failures = 0 /\ claim_state[c] = "ENQUEUED"
      => HasJob(c) \/ \E a \in Callers : cur[a] = c /\ Late(a)

\* Jobs are never deleted.
LEMMA JobsStay ==
  ASSUME [Next]_vars, NEW c \in Courses, HasJob(c)
  PROVE  HasJob(c)'
<1>1. jobs \subseteq jobs'
      BY DEF Next, DispatcherStep, AdminStep, Ingest, ClaimSelect, ClaimUpdate, FetchPage,
             CourseSelect, CourseWrite, PartSelect, PartInsert, MarkEnqueued, LookForArchives,
             Choose, Count, EnqueueJob, Dies, Discover, BecomesEligible, LeaseExpires,
             TransferDiscovers,
             TransferDownloads, TransferMarks, TransferChains, ArchiveArrives, vars, processing
<1>2. QED BY <1>1 DEF HasJob

\* Nor do failures become fewer.
LEMMA FailuresStay ==
  ASSUME CallsOK, [Next]_vars, failures' = 0
  PROVE  failures = 0
BY ConstantsAssumption
   DEF CallsOK, TypeOK, ConstantsAssumption, Next, DispatcherStep, AdminStep, Ingest,
       ClaimSelect, ClaimUpdate, FetchPage, CourseSelect, CourseWrite, PartSelect, PartInsert,
       MarkEnqueued, LookForArchives, Choose, Count, EnqueueJob, Dies, Discover,
       BecomesEligible, LeaseExpires,
       TransferDiscovers, TransferDownloads, TransferMarks, TransferChains, ArchiveArrives, vars

\* A call moves by its own steps alone.
LEMMA CallMoves ==
  ASSUME CallsOK, [Next]_vars, NEW a \in Callers, Late(a)
  PROVE  \/ pc'[a] = pc[a] /\ cur'[a] = cur[a]
         \/ LookForArchives(a) \/ Choose(a) \/ Count(a) \/ EnqueueJob(a) \/ Dies(a)
<1>1. ASSUME NEW b \in Callers, b # a,
             \/ pc' = [pc EXCEPT ![b] = pc'[b]] /\ cur' = [cur EXCEPT ![b] = cur'[b]]
             \/ Ends(b)
      PROVE  pc'[a] = pc[a] /\ cur'[a] = cur[a]
      BY <1>1 DEF Ends, CallsOK, TypeOK
<1>2. ASSUME NEW d \in Dispatchers, DispatcherStep(d) PROVE
        \/ pc' = [pc EXCEPT ![d] = pc'[d]] /\ cur' = [cur EXCEPT ![d] = cur'[d]]
        \/ Ends(d)
  <2>1. CASE ClaimSelect(d) \/ ClaimUpdate(d) \/ FetchPage(d) \/ CourseSelect(d)
             \/ PartSelect(d) \/ MarkEnqueued(d) \/ LookForArchives(d)
        BY <2>1 DEF ClaimSelect, ClaimUpdate, FetchPage, CourseSelect, PartSelect, MarkEnqueued,
                    LookForArchives, CallsOK, TypeOK
  <2>2. CASE CourseWrite(d) \/ PartInsert(d) \/ EnqueueJob(d)
        BY <2>2 DEF CourseWrite, PartInsert, EnqueueJob, CallsOK, TypeOK
  <2>3. CASE Choose(d) \/ Count(d)
        BY <2>3 DEF Choose, Count, Chosen, CallsOK, TypeOK
  <2>4. QED BY <1>2, <2>1, <2>2, <2>3 DEF DispatcherStep
<1>3. ASSUME NEW b \in Admins, AdminStep(b) PROVE
        \/ pc' = [pc EXCEPT ![b] = pc'[b]] /\ cur' = [cur EXCEPT ![b] = cur'[b]]
        \/ Ends(b)
      BY <1>3 DEF AdminStep, Ingest, CourseSelect, CourseWrite, EnqueueJob, CallsOK, TypeOK
<1>4. ASSUME NEW d \in Dispatchers, DispatcherStep(d), d = a
      PROVE  LookForArchives(a) \/ Choose(a) \/ Count(a) \/ EnqueueJob(a)
      BY <1>4 DEF DispatcherStep, Late, ClaimSelect, ClaimUpdate, FetchPage, CourseSelect,
                  CourseWrite, PartSelect, PartInsert, MarkEnqueued
<1>5. ASSUME NEW b \in Admins, AdminStep(b), b = a
      PROVE  EnqueueJob(a)
      BY <1>5 DEF AdminStep, Late, Ingest, CourseSelect, CourseWrite
<1>6. ASSUME UNCHANGED callers PROVE pc'[a] = pc[a] /\ cur'[a] = cur[a]
      BY <1>6 DEF callers
<1>7. CASE \E d \in Dispatchers : DispatcherStep(d)
      BY <1>1, <1>2, <1>4, <1>7 DEF Callers
<1>8. CASE \E b \in Admins : AdminStep(b)
      BY <1>1, <1>3, <1>5, <1>8 DEF Callers
<1>9. CASE \E b \in Callers : Dies(b)
      BY <1>1, <1>9 DEF Dies
<1>10. CASE ~\/ \E d \in Dispatchers : DispatcherStep(d)
             \/ \E b \in Admins : AdminStep(b)
             \/ \E b \in Callers : Dies(b)
  <2>1. UNCHANGED callers
        BY <1>10 DEF Next, Discover, BecomesEligible, LeaseExpires, TransferDiscovers,
           TransferDownloads,
                     TransferMarks, TransferChains, ArchiveArrives, vars
  <2>2. QED BY <1>6, <2>1
<1>11. QED BY <1>7, <1>8, <1>9, <1>10

\* A call on its way to the job of its course goes on or gets there, unless it dies.
LEMMA LateGoesOn ==
  ASSUME CallsOK, [Next]_vars, NEW a \in Callers, Late(a),
         NEW c \in Courses, cur[a] = c
  PROVE  \/ Late(a)' /\ cur'[a] = c
         \/ HasJob(c)'
         \/ failures' # 0
<1>1. CASE pc'[a] = pc[a] /\ cur'[a] = cur[a]
      BY <1>1 DEF Late
<1>2. CASE LookForArchives(a)
      BY <1>2 DEF LookForArchives, Late, CallsOK, TypeOK
<1>3. CASE Choose(a)
      BY <1>3 DEF Choose, Chosen, Late, CallsOK, TypeOK
<1>4. CASE Count(a)
      BY <1>4 DEF Count, Chosen, Late, CallsOK, TypeOK
<1>5. CASE EnqueueJob(a)
  <2>1. key[a] \in Keys /\ <<c, key[a]>> \in jobs'
        BY <1>5 DEF EnqueueJob, CallsOK, TypeOK
  <2>2. QED BY <2>1 DEF HasJob
<1>6. CASE Dies(a)
      BY <1>6 DEF Dies, CallsOK, TypeOK
<1>7. QED BY <1>1, <1>2, <1>3, <1>4, <1>5, <1>6, CallMoves

\* Only a call that goes on to the job marks a course.
LEMMA MarkedByCall ==
  ASSUME CallsOK, [Next]_vars, NEW c \in Courses,
         claim_state[c] # "ENQUEUED", claim_state'[c] = "ENQUEUED"
  PROVE  \E a \in Callers : cur'[a] = c /\ Late(a)'
<1>1. ASSUME UNCHANGED claim_state PROVE FALSE
      BY <1>1
<1>2. ASSUME Discovered(c) \/ \E k \in Courses : Discovered(k) PROVE FALSE
      BY <1>2 DEF Discovered, CallsOK, TypeOK
<1>3. ASSUME NEW d \in Dispatchers, ClaimUpdate(d) PROVE FALSE
      BY <1>3 DEF ClaimUpdate, CallsOK, TypeOK
<1>4. PICK d \in Dispatchers : MarkEnqueued(d)
      BY <1>1, <1>2, <1>3
         DEF Next, DispatcherStep, AdminStep, Ingest, ClaimSelect, FetchPage, CourseSelect,
             CourseWrite, PartSelect, PartInsert, LookForArchives, Choose, Count, EnqueueJob,
             Dies, Discover, BecomesEligible, LeaseExpires, TransferDiscovers,
             TransferDownloads, TransferMarks,
             TransferChains, ArchiveArrives, vars, discovery
<1>5. d \in Callers /\ pc'[d] = "look" /\ cur'[d] = cur[d]
      BY <1>4 DEF MarkEnqueued, Callers, CallsOK, TypeOK
<1>6. cur[d] = c
      BY <1>1, <1>4 DEF MarkEnqueued, CallsOK, TypeOK
<1>7. QED BY <1>5, <1>6 DEF Late

\* A course is marked ENQUEUED before it has its job; but no overlap of calls, and no claim
\* that was lost, leaves it marked without one.
THEOREM MarkedCorrect == Spec => []EnqueuedHasJob
<1>1. Init => MarkedInv
      BY DEF Init, MarkedInv
<1>2. ASSUME CallsOK, MarkedInv, [Next]_vars PROVE MarkedInv'
  <2>1. SUFFICES ASSUME NEW c \in Courses, failures' = 0, claim_state'[c] = "ENQUEUED",
                        ~HasJob(c)'
                 PROVE  \E a \in Callers : cur'[a] = c /\ Late(a)'
        BY DEF MarkedInv
  <2>2. failures = 0 /\ ~HasJob(c)
        BY <1>2, <2>1, FailuresStay, JobsStay
  <2>3. CASE claim_state[c] # "ENQUEUED"
        BY <1>2, <2>1, <2>3, MarkedByCall
  <2>4. CASE claim_state[c] = "ENQUEUED"
    <3>1. PICK a \in Callers : cur[a] = c /\ Late(a)
          BY <1>2, <2>2, <2>4 DEF MarkedInv
    <3>2. Late(a)' /\ cur'[a] = c
          BY <1>2, <2>1, <3>1, LateGoesOn
    <3>3. QED BY <3>2
  <2>5. QED BY <2>3, <2>4
<1>3. MarkedInv => EnqueuedHasJob
      BY DEF MarkedInv, EnqueuedHasJob, AtRest
<1>4. QED BY <1>1, <1>2, <1>3, CallsCorrect, PTL DEF Spec
===============================================================================
