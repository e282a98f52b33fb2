-------------------------- MODULE PublicationProofs --------------------------
(***************************************************************************)
(* Theorems about Publication, for any number of lessons, releases and     *)
(* executions of WF05 and any number of failures.                          *)
(***************************************************************************)
EXTENDS Publication, TLAPS

-----------------------------------------------------------------------------
(* Type correctness, action by action.                                     *)

\* Start keeps every variable in its type.
LEMMA StartType ==
  ASSUME NEW e \in Executions, TypeOK, Start(e)
  PROVE  TypeOK'
BY ConstantsAssumption
   DEF ConstantsAssumption, TypeOK, Start, Go,
       tables, site, gateway, callers, trouble

\* Lookup keeps every variable in its type.
LEMMA LookupType ==
  ASSUME NEW e \in Executions, TypeOK, Lookup(e)
  PROVE  TypeOK'
BY ConstantsAssumption
   DEF ConstantsAssumption, TypeOK, Lookup, AfterTaxonomy, Ends, Go,
       tables, site, gateway, callers, trouble

\* InsertTaxonomy keeps every variable in its type.
LEMMA InsertTaxonomyType ==
  ASSUME NEW e \in Executions, TypeOK, InsertTaxonomy(e)
  PROVE  TypeOK'
<1>1. taxonomy' \in Seq(BOOLEAN)
  <2>1. taxonomy' = Append(taxonomy, locked[e])
        BY DEF InsertTaxonomy
  <2>2. locked[e] \in BOOLEAN /\ taxonomy \in Seq(BOOLEAN)
        BY DEF TypeOK
  <2>3. QED BY <2>1, <2>2
<1>2. UNCHANGED <<released, rows, site, gateway, overlapped, trouble, runs>>
      BY DEF InsertTaxonomy
<1>3. /\ pc' \in [Executions -> {"idle", "lookup", "resolve", "list", "verify", "probing",
                                "unreachable", "stage", "record", "commit", "update"}]
      /\ release' \in [Executions -> Releases \cup {NoRelease}]
      /\ locked' \in [Executions -> BOOLEAN]
      /\ todo' \in [Executions -> SUBSET (Lessons \cup {Asset})]
      BY DEF InsertTaxonomy, AfterTaxonomy, Ends, Go, TypeOK
<1>4. QED BY <1>1, <1>2, <1>3 DEF TypeOK, site, gateway, trouble

\* ProposalFails keeps every variable in its type.
LEMMA ProposalFailsType ==
  ASSUME NEW e \in Executions, TypeOK, ProposalFails(e)
  PROVE  TypeOK'
BY ConstantsAssumption
   DEF ConstantsAssumption, TypeOK, ProposalFails, Fails, Ends, Go,
       tables, site, gateway, callers, trouble

\* ListLessons keeps every variable in its type.
LEMMA ListLessonsType ==
  ASSUME NEW e \in Executions, TypeOK, ListLessons(e)
  PROVE  TypeOK'
BY ConstantsAssumption
   DEF ConstantsAssumption, TypeOK, ListLessons, Go,
       tables, site, gateway, callers, trouble

\* VerifyMedia keeps every variable in its type.
LEMMA VerifyMediaType ==
  ASSUME NEW e \in Executions, TypeOK, VerifyMedia(e)
  PROVE  TypeOK'
BY ConstantsAssumption
   DEF ConstantsAssumption, TypeOK, VerifyMedia, Verified, Go,
       tables, site, gateway, callers, trouble

\* ProbeLocal keeps every variable in its type.
LEMMA ProbeLocalType ==
  ASSUME NEW e \in Executions, TypeOK, ProbeLocal(e)
  PROVE  TypeOK'
BY ConstantsAssumption
   DEF ConstantsAssumption, TypeOK, ProbeLocal, Verified, Go,
       tables, site, gateway, callers, trouble

\* ProbeDownloads keeps every variable in its type.
LEMMA ProbeDownloadsType ==
  ASSUME NEW e \in Executions, TypeOK, ProbeDownloads(e)
  PROVE  TypeOK'
BY ConstantsAssumption
   DEF ConstantsAssumption, TypeOK, ProbeDownloads, BeginsDownload, GatewayFree, Go,
       tables, site, gateway, callers, trouble

\* VerifyFails keeps every variable in its type.
LEMMA VerifyFailsType ==
  ASSUME NEW e \in Executions, TypeOK, VerifyFails(e)
  PROVE  TypeOK'
BY ConstantsAssumption
   DEF ConstantsAssumption, TypeOK, VerifyFails, Fails, Ends, Go,
       tables, site, gateway, callers, trouble

\* Stage keeps every variable in its type.
LEMMA StageType ==
  ASSUME NEW e \in Executions, TypeOK, Stage(e)
  PROVE  TypeOK'
BY ConstantsAssumption
   DEF ConstantsAssumption, TypeOK, Stage, Visibilities, Go,
       tables, site, gateway, callers, trouble

\* Record keeps every variable in its type.
LEMMA RecordType ==
  ASSUME NEW e \in Executions, TypeOK, Record(e)
  PROVE  TypeOK'
<1>1. UNCHANGED <<taxonomy, released, site, gateway, overlapped, failures, runs>>
      BY DEF Record
<1>2. CASE release[e] \in released
  <2>1. <<release[e], "DRAFT">> \in Releases \X Visibilities
        BY <1>2 DEF TypeOK, Visibilities
  <2>2. /\ rows' = rows \cup {<<release[e], "DRAFT">>}
        /\ pc' = [pc EXCEPT ![e] = "commit"]
        /\ UNCHANGED <<release, locked, todo, fresh, healed>>
        BY <1>2 DEF Record, Go
  <2>3. rows' \subseteq Releases \X Visibilities
        BY <2>1, <2>2 DEF TypeOK
  <2>4. QED BY <1>1, <2>2, <2>3 DEF TypeOK, site, gateway
<1>3. CASE release[e] \notin released
  <2>1. Fails(e) /\ UNCHANGED rows
        BY <1>3 DEF Record
  <2>2. QED BY <1>1, <2>1 DEF TypeOK, Fails, Ends, Go, site, gateway
<1>4. QED BY <1>2, <1>3

\* Commit keeps every variable in its type.
LEMMA CommitType ==
  ASSUME NEW e \in Executions, TypeOK, Commit(e)
  PROVE  TypeOK'
BY ConstantsAssumption
   DEF ConstantsAssumption, TypeOK, Commit, Final, Visibilities, Go,
       tables, site, gateway, callers, trouble

\* UpdateRows keeps every variable in its type.
LEMMA UpdateRowsType ==
  ASSUME NEW e \in Executions, TypeOK, UpdateRows(e)
  PROVE  TypeOK'
BY ConstantsAssumption
   DEF ConstantsAssumption, TypeOK, UpdateRows, Updated, Final, Visibilities, Ends, Go,
       tables, site, gateway, callers, trouble

\* ExecutionFails keeps every variable in its type.
LEMMA ExecutionFailsType ==
  ASSUME NEW e \in Executions, TypeOK, ExecutionFails(e)
  PROVE  TypeOK'
<1>1. failures' \in Nat /\ runs' \in Nat
      BY DEF ExecutionFails, TypeOK
<1>2. Fails(e) /\ UNCHANGED <<tables, site, gateway, overlapped>>
      BY DEF ExecutionFails
<1>3. QED BY <1>1, <1>2
         DEF TypeOK, Fails, Ends, Go, tables, site, gateway

\* ServeFromTelegram keeps every variable in its type.
LEMMA ServeFromTelegramType ==
  ASSUME NEW l \in Lessons, TypeOK, ServeFromTelegram(l)
  PROVE  TypeOK'
BY ConstantsAssumption
   DEF ConstantsAssumption, TypeOK, ServeFromTelegram, BeginsDownload, GatewayFree, Go,
       tables, site, gateway, callers, trouble

\* Upload keeps every variable in its type.
LEMMA UploadType ==
  ASSUME NEW l \in Lessons, TypeOK, Upload(l)
  PROVE  TypeOK'
BY ConstantsAssumption
   DEF ConstantsAssumption, TypeOK, Upload, Go,
       tables, site, gateway, callers, trouble

\* RemoveFile keeps every variable in its type.
LEMMA RemoveFileType ==
  ASSUME NEW l \in Lessons, TypeOK, RemoveFile(l)
  PROVE  TypeOK'
BY ConstantsAssumption
   DEF ConstantsAssumption, TypeOK, RemoveFile, Go,
       tables, site, gateway, callers, trouble

\* Redub keeps every variable in its type.
LEMMA RedubType ==
  ASSUME NEW l \in Lessons, TypeOK, Redub(l)
  PROVE  TypeOK'
BY DEF TypeOK, Redub, tables, site, callers

\* RedubEnds keeps every variable in its type.
LEMMA RedubEndsType ==
  ASSUME NEW l \in Lessons, TypeOK, RedubEnds(l)
  PROVE  TypeOK'
BY DEF TypeOK, RedubEnds, tables, site, callers, trouble

\* DownloadEnds keeps every variable in its type.
LEMMA DownloadEndsType ==
  ASSUME TypeOK, DownloadEnds
  PROVE  TypeOK'
BY ConstantsAssumption
   DEF ConstantsAssumption, TypeOK, DownloadEnds, Probed, At,
       tables, site, gateway, callers, trouble

\* DownloadBreaks keeps every variable in its type.
LEMMA DownloadBreaksType ==
  ASSUME TypeOK, DownloadBreaks
  PROVE  TypeOK'
BY ConstantsAssumption
   DEF ConstantsAssumption, TypeOK, DownloadBreaks, Probed, At,
       tables, site, gateway, callers, trouble

\* The initial states.
LEMMA InitType == Init => TypeOK
<1>1. SUFFICES ASSUME Init PROVE TypeOK
      OBVIOUS
<1>2. taxonomy \in Seq(BOOLEAN)
      BY <1>1 DEF Init
<1>3. /\ released \subseteq Releases /\ rows = {} /\ remote = NoRelease
      /\ visibility \in Visibilities
      /\ lessons = {} /\ uploaded \subseteq Lessons
      /\ local \in [Lessons -> {"NONE", "PART", "WHOLE"}]
      /\ \A l \in Lessons \ uploaded : local[l] = "NONE"
      BY <1>1 DEF Init, Visibilities
<1>4. /\ cache \in [Lessons -> {"NONE", "PART", "WHOLE"}]
      /\ downloading \in Lessons \cup {NoLesson}
      /\ release \in [Executions -> Releases \cup {NoRelease}]
      /\ pc \in [Executions -> {"idle", "lookup", "resolve", "list", "verify", "probing",
                               "unreachable", "stage", "record", "commit", "update"}]
      /\ locked \in [Executions -> BOOLEAN]
      /\ todo \in [Executions -> SUBSET (Lessons \cup {Asset})]
      BY <1>1 DEF Init
<1>5. /\ spoiled = {} /\ overlapped \in BOOLEAN /\ fresh = {}
      /\ healed \in BOOLEAN /\ runs \in Nat /\ failures \in Nat
      BY <1>1 DEF Init
<1>6. QED BY <1>2, <1>3, <1>4, <1>5 DEF TypeOK

\* Every step.
LEMMA StepType == TypeOK /\ [Next]_vars => TypeOK'
<1>1. SUFFICES ASSUME TypeOK, [Next]_vars PROVE TypeOK'
      OBVIOUS
<1>2. ASSUME NEW e \in Executions, Step(e) PROVE TypeOK'
      BY <1>1, <1>2, StartType, LookupType, InsertTaxonomyType, ProposalFailsType,
         ListLessonsType, VerifyMediaType, ProbeLocalType, ProbeDownloadsType, VerifyFailsType,
         StageType, RecordType, CommitType, UpdateRowsType, ExecutionFailsType DEF Step
<1>3. CASE UNCHANGED vars
      BY <1>1, <1>3 DEF TypeOK, vars, tables, site, gateway, callers, trouble
<1>4. QED BY <1>1, <1>2, <1>3, ServeFromTelegramType, UploadType, RemoveFileType,
          RedubType, RedubEndsType, DownloadEndsType, DownloadBreaksType DEF Next

\* Every variable keeps its type.
THEOREM TypeCorrect == Spec => []TypeOK
BY InitType, StepType, PTL DEF Spec

-----------------------------------------------------------------------------
(* The gateway serves whole files.                                         *)

\* Of a lesson that was not dubbed again and whose downloads did not break off, there is a part
\* in the cache only while it is downloaded, and never one on the disk.
WholeInv ==
  \A l \in Lessons \ spoiled :
    /\ cache[l] = "PART" => downloading = l
    /\ local[l] # "PART"

\* Only these steps concern the gateway's files.
LEMMA GatewayFrame ==
  ASSUME [Next]_vars
  PROVE  \/ UNCHANGED gateway
         \/ \E e \in Executions : ProbeDownloads(e)
         \/ \E l \in Lessons : \/ ServeFromTelegram(l) \/ Upload(l) \/ RemoveFile(l)
                               \/ Redub(l) \/ RedubEnds(l)
         \/ DownloadEnds \/ DownloadBreaks
BY DEF Next, Step, Start, Lookup, InsertTaxonomy, ProposalFails, ListLessons, VerifyMedia,
   ProbeLocal, VerifyFails, Stage, Record, Commit, UpdateRows, ExecutionFails, vars, gateway

\* The invariant is kept.
LEMMA WholeStep ==
  ASSUME TypeOK, WholeInv, [Next]_vars
  PROVE  WholeInv'
<1>1. CASE UNCHANGED gateway
      BY <1>1 DEF WholeInv, gateway
<1>2. ASSUME NEW l \in Lessons, BeginsDownload(l) PROVE WholeInv'
      BY <1>2, ConstantsAssumption DEF ConstantsAssumption, WholeInv, TypeOK, BeginsDownload,
         GatewayFree
<1>3. ASSUME NEW e \in Executions, ProbeDownloads(e) PROVE WholeInv'
      BY <1>2, <1>3 DEF ProbeDownloads
<1>4. ASSUME NEW l \in Lessons, ServeFromTelegram(l) PROVE WholeInv'
      BY <1>2, <1>4 DEF ServeFromTelegram
<1>5. ASSUME NEW l \in Lessons, Upload(l) \/ RemoveFile(l) \/ Redub(l) \/ RedubEnds(l)
      PROVE  WholeInv'
      BY <1>5 DEF Upload, RemoveFile, Redub, RedubEnds, WholeInv, TypeOK
<1>6. CASE DownloadEnds
      BY <1>6 DEF DownloadEnds, WholeInv, TypeOK
<1>7. CASE DownloadBreaks
      BY <1>7 DEF DownloadBreaks, WholeInv, TypeOK
<1>8. QED BY <1>1, <1>3, <1>4, <1>5, <1>6, <1>7, GatewayFrame

\* No part of a lesson is served as the whole, unless the lesson was dubbed again or a download
\* of it broke off: for any number of lessons, viewers, probes, removed files and re-dubs.
THEOREM WholeCorrect == Spec => []ServedWhole
<1>1. Init => WholeInv
      BY DEF Init, WholeInv
<1>2. TypeOK /\ WholeInv /\ [Next]_vars => WholeInv'
      BY WholeStep
<1>3. TypeOK /\ WholeInv => ServedWhole
      BY ConstantsAssumption
         DEF ConstantsAssumption, TypeOK, WholeInv, ServedWhole, Served, GatewayFree
<1>4. QED BY <1>1, <1>2, <1>3, TypeCorrect, PTL DEF Spec

-----------------------------------------------------------------------------
(* What is staged is playable.                                             *)

\* All lessons are uploaded, or the cache has some file.
Playable == uploaded = Lessons \/ \E l \in Lessons : cache[l] # "NONE"

\* An execution gets past "asset" only if that is so.
PlayableInv ==
  /\ StagedIsPlayable
  /\ \A e \in Executions :
       /\ pc[e] = "stage" => Playable
       /\ pc[e] \in {"verify", "probing"} /\ Asset \notin todo[e] => Playable

\* Nothing that is playable stops being so.
LEMMA PlayableStays ==
  ASSUME TypeOK, [Next]_vars
  PROVE  /\ Playable => Playable'
         /\ uploaded \subseteq uploaded' /\ uploaded' \subseteq Lessons
         /\ \A l \in Lessons : cache[l] # "NONE" => cache'[l] # "NONE"
<1>1. uploaded' \subseteq Lessons
      BY StepType DEF TypeOK
<1>2. uploaded \subseteq uploaded'
      BY GatewayFrame DEF gateway, ProbeDownloads, ServeFromTelegram, Upload, RemoveFile, Redub,
         RedubEnds, DownloadEnds, DownloadBreaks, BeginsDownload
<1>3. ASSUME NEW l \in Lessons, cache[l] # "NONE" PROVE cache'[l] # "NONE"
  <2>1. \/ UNCHANGED cache
        \/ \E k : \E v \in {"PART", "WHOLE"} : cache' = [cache EXCEPT ![k] = v]
        BY GatewayFrame DEF gateway, ProbeDownloads, ServeFromTelegram, Upload, RemoveFile, Redub,
           RedubEnds, DownloadEnds, DownloadBreaks, BeginsDownload
  <2>2. QED BY <1>3, <2>1 DEF TypeOK
<1>4. QED BY <1>1, <1>2, <1>3 DEF Playable

\* The invariant is kept.
LEMMA PlayableStep ==
  ASSUME TypeOK, PlayableInv, [Next]_vars
  PROVE  PlayableInv'
<1>1. StagedIsPlayable'
  <2>1. lessons' = lessons \/ (lessons' = Lessons /\ Playable)
    <3>1. ASSUME NEW e \in Executions, Stage(e) PROVE lessons' = Lessons /\ Playable
          BY <3>1 DEF Stage, At, PlayableInv
    <3>2. UNCHANGED lessons \/ \E e \in Executions : Stage(e)
          BY DEF Next, Step, Start, Lookup, InsertTaxonomy, ProposalFails, ListLessons,
             VerifyMedia, ProbeLocal, ProbeDownloads, VerifyFails, Record, Commit, UpdateRows,
             ExecutionFails, ServeFromTelegram, Upload, RemoveFile, Redub, RedubEnds,
             DownloadEnds, DownloadBreaks, vars, site
    <3>3. QED BY <3>1, <3>2
  <2>2. QED BY <2>1, PlayableStays DEF PlayableInv, StagedIsPlayable, Playable
<1>2. ASSUME NEW e \in Executions PROVE
        /\ pc'[e] = "stage" => Playable'
        /\ pc'[e] \in {"verify", "probing"} /\ Asset \notin todo'[e] => Playable'
  <2>1. CASE pc'[e] = pc[e] /\ todo'[e] = todo[e]
        BY <2>1, PlayableStays DEF PlayableInv
  <2>2. CASE pc'[e] \notin {"stage", "verify", "probing"}
        BY <2>2
  <2>3. CASE ListLessons(e)
    <3>1. /\ pc'[e] = "verify" /\ UNCHANGED uploaded
          /\ todo'[e] = uploaded \cup (IF uploaded = Lessons THEN {} ELSE {Asset})
          BY <2>3 DEF ListLessons, Go, TypeOK, gateway
    <3>2. QED BY <3>1 DEF Playable
  <2>4. ASSUME NEW a \in todo[e], At(e, "verify"), Verified(e, a),
               a = Asset => Playable
        PROVE  /\ pc'[e] = "stage" => Playable'
               /\ pc'[e] \in {"verify", "probing"} /\ Asset \notin todo'[e] => Playable'
    <3>1. todo'[e] = todo[e] \ {a} /\ (pc'[e] = "stage" => todo[e] = {a})
          BY <2>4 DEF Verified, Go, TypeOK
    <3>2. Asset \notin todo[e] => Playable
          BY <2>4 DEF At, PlayableInv
    <3>3. QED BY <2>4, <3>1, <3>2, PlayableStays
  <2>5. CASE VerifyMedia(e)
    <3>1. PICK a \in todo[e] : Accessible(a) /\ Verified(e, a)
          BY <2>5 DEF VerifyMedia
    <3>2. Playable
          BY <3>1 DEF Accessible, Matches, Playable
    <3>3. QED BY <2>4, <2>5, <3>1, <3>2 DEF VerifyMedia
  <2>6. CASE ProbeLocal(e)
    <3>1. PICK l \in todo[e] \cap Lessons : Verified(e, l)
          BY <2>6 DEF ProbeLocal
    <3>2. l # Asset
          BY ConstantsAssumption DEF ConstantsAssumption
    <3>3. QED BY <2>4, <2>6, <3>1, <3>2 DEF ProbeLocal
  <2>7. CASE ProbeDownloads(e) \/ DownloadEnds \/ DownloadBreaks
    <3>1. /\ todo'[e] = todo[e]
          /\ \/ pc'[e] = pc[e] \/ pc'[e] = "unreachable"
             \/ pc[e] \in {"verify", "probing"} /\ pc'[e] \in {"verify", "probing"}
          BY <2>7 DEF ProbeDownloads, DownloadEnds, DownloadBreaks, Probed, At, Go, TypeOK
    <3>2. QED BY <3>1, PlayableStays DEF PlayableInv
  <2>8. QED
    <3>1. ASSUME NEW k \in Executions, Step(k), k # e
          PROVE  pc'[e] = pc[e] /\ todo'[e] = todo[e]
      <4>1. ASSUME Ends(k) PROVE pc'[e] = pc[e] /\ todo'[e] = todo[e]
            BY <3>1, <4>1 DEF Ends, Go, TypeOK
      <4>2. ASSUME NEW p, Go(k, p), UNCHANGED todo PROVE pc'[e] = pc[e] /\ todo'[e] = todo[e]
            BY <3>1, <4>2 DEF Go, TypeOK
      <4>3. ASSUME NEW a, Verified(k, a) PROVE pc'[e] = pc[e] /\ todo'[e] = todo[e]
            BY <3>1, <4>3 DEF Verified, Go, TypeOK
      <4>4. ASSUME ListLessons(k) PROVE pc'[e] = pc[e] /\ todo'[e] = todo[e]
            BY <3>1, <4>4 DEF ListLessons, Go, TypeOK
      <4>5. QED BY <3>1, <4>1, <4>2, <4>3, <4>4
                DEF Step, Start, Lookup, InsertTaxonomy, AfterTaxonomy, ProposalFails, VerifyMedia,
                    ProbeLocal, ProbeDownloads, VerifyFails, Fails, Stage, Record, Commit,
                    UpdateRows, ExecutionFails
    <3>2. ASSUME Step(e)
          PROVE  \/ pc'[e] \notin {"stage", "verify", "probing"}
                 \/ ListLessons(e) \/ VerifyMedia(e) \/ ProbeLocal(e) \/ ProbeDownloads(e)
          BY <3>2 DEF Step, Start, Lookup, InsertTaxonomy, AfterTaxonomy, ProposalFails,
             VerifyFails, Fails, Ends, Stage, Record, Commit, UpdateRows, ExecutionFails, Go, TypeOK
    <3>3. ASSUME UNCHANGED callers PROVE pc'[e] = pc[e] /\ todo'[e] = todo[e]
          BY <3>3 DEF callers
    <3>4. \/ \E k \in Executions : Step(k)
          \/ UNCHANGED callers \/ DownloadEnds \/ DownloadBreaks
          BY DEF Next, ServeFromTelegram, Upload, RemoveFile, Redub, RedubEnds, vars
    <3>5. QED BY <2>1, <2>2, <2>3, <2>5, <2>6, <2>7, <3>1, <3>2, <3>3, <3>4
<1>3. QED BY <1>1, <1>2 DEF PlayableInv

\* A lesson that was never uploaded is staged only behind a file in the cache.
THEOREM PlayableCorrect == Spec => []StagedIsPlayable
<1>1. Init => PlayableInv
      BY DEF Init, PlayableInv, StagedIsPlayable
<1>2. TypeOK /\ PlayableInv /\ [Next]_vars => PlayableInv'
      BY PlayableStep
<1>3. PlayableInv => StagedIsPlayable
      BY DEF PlayableInv
<1>4. QED BY <1>1, <1>2, <1>3, TypeCorrect, PTL DEF Spec

-----------------------------------------------------------------------------
(* A lock is final.                                                        *)

Locked(i) == taxonomy[i]

\* Unless calls overlap, whoever is about to insert a taxonomy is alone, and no row is
\* locked; and it asks for a locked one only if there is none.
LockInv ==
  ~overlapped =>
    /\ (\E i \in DOMAIN taxonomy : Locked(i)) => Len(taxonomy) = 1
    /\ \A e \in Executions : pc[e] = "resolve" =>
         /\ \A k \in Executions : pc[k] = "resolve" => k = e
         /\ \A i \in DOMAIN taxonomy : ~Locked(i)
         /\ locked[e] => taxonomy = <<>>

\* A step that neither inserts a taxonomy nor looks one up.
LEMMA LockFrame ==
  ASSUME TypeOK, [Next]_vars
  PROVE  \/ \E e \in Executions : Lookup(e) \/ InsertTaxonomy(e)
         \/ /\ UNCHANGED <<taxonomy, overlapped>>
            /\ \A e \in Executions :
                 pc'[e] = "resolve" => pc[e] = "resolve" /\ locked'[e] = locked[e]
<1> DEFINE Same == /\ UNCHANGED <<taxonomy, overlapped>>
                   /\ \A e \in Executions :
                        pc'[e] = "resolve" => pc[e] = "resolve" /\ locked'[e] = locked[e]
<1>1. ASSUME NEW k \in Executions, Step(k), ~Lookup(k), ~InsertTaxonomy(k) PROVE Same
  <2>1. UNCHANGED <<taxonomy, overlapped>>
        BY <1>1 DEF Step, Start, ProposalFails, ListLessons, VerifyMedia, ProbeLocal,
           ProbeDownloads, VerifyFails, Stage, Record, Commit, UpdateRows, ExecutionFails, tables
  <2>2. ASSUME Ends(k) PROVE Same
        BY <2>1, <2>2 DEF Ends, Go, TypeOK
  <2>3. ASSUME NEW p \in {"lookup", "verify", "probing", "stage", "record", "commit", "update"},
               Go(k, p), locked' = [locked EXCEPT ![k] = locked'[k]]
        PROVE  Same
        BY <2>1, <2>3 DEF Go, TypeOK
  <2>4. ASSUME NEW p \in {"lookup", "verify", "probing", "stage", "record", "commit", "update"},
               Go(k, p), UNCHANGED locked
        PROVE  Same
        BY <2>1, <2>4 DEF Go, TypeOK
  <2>5. ASSUME Start(k) PROVE Same
    <3>1. Go(k, "lookup") /\ locked' = [locked EXCEPT ![k] = locked'[k]]
          BY <2>5 DEF Start, TypeOK
    <3>2. QED BY <2>3, <3>1
  <2>6. QED BY <1>1, <2>2, <2>4, <2>5
            DEF Step, ProposalFails, ListLessons, VerifyMedia, ProbeLocal, Verified,
                ProbeDownloads, VerifyFails, Fails, Stage, Record, Commit, UpdateRows,
                ExecutionFails
<1>2. ASSUME UNCHANGED <<taxonomy, overlapped, callers>> PROVE Same
      BY <1>2 DEF callers
<1>3. ASSUME DownloadEnds \/ DownloadBreaks PROVE Same
      BY <1>3 DEF DownloadEnds, DownloadBreaks, Probed, At, tables, TypeOK
<1>4. \/ \E k \in Executions : Step(k)
      \/ UNCHANGED <<taxonomy, overlapped, callers>> \/ DownloadEnds \/ DownloadBreaks
      BY DEF Next, ServeFromTelegram, Upload, RemoveFile, Redub, RedubEnds, vars, tables
<1> HIDE DEF Same
<1>5. (\E e \in Executions : Lookup(e) \/ InsertTaxonomy(e)) \/ Same
      BY <1>1, <1>2, <1>3, <1>4
<1>6. QED BY <1>5 DEF Same

\* The invariant is kept.
LEMMA LockStep ==
  ASSUME TypeOK, LockInv, [Next]_vars
  PROVE  LockInv'
<1>1. ASSUME UNCHANGED <<taxonomy, overlapped>>,
             \A e \in Executions :
               pc'[e] = "resolve" => pc[e] = "resolve" /\ locked'[e] = locked[e]
      PROVE  LockInv'
      BY <1>1 DEF LockInv, Locked
<1>2. ASSUME NEW e \in Executions, Lookup(e) PROVE LockInv'
  <2>1. SUFFICES ASSUME ~overlapped' PROVE LockInv'
        BY DEF LockInv
  <2>2. /\ ~overlapped /\ UNCHANGED taxonomy
        /\ \A k \in Executions : k # e => pc[k] # "resolve"
        BY <1>2, <2>1 DEF Lookup, tables
  <2>3. \A k \in Executions : k # e => pc'[k] = pc[k]
        BY <1>2 DEF Lookup, AfterTaxonomy, Ends, Go, TypeOK
  <2>4. CASE pc'[e] = "resolve"
    <3>1. /\ taxonomy = <<>> \/ \E i \in DOMAIN taxonomy : ~Keeps(taxonomy[i], locked[e])
          /\ locked' = locked
          BY <1>2, <2>4 DEF Lookup, AfterTaxonomy, Ends, Go, TypeOK
    <3>2. ASSUME NEW i \in DOMAIN taxonomy, ~Keeps(taxonomy[i], locked[e])
          PROVE  /\ \A j \in DOMAIN taxonomy : ~Locked(j)
                 /\ ~locked[e]
      <4>1. ~Locked(i) /\ ~locked[e]
            BY <3>2 DEF Keeps, Locked
      <4>2. ASSUME NEW j \in DOMAIN taxonomy, Locked(j) PROVE FALSE
        <5>1. Len(taxonomy) = 1
              BY <2>2, <4>2 DEF LockInv
        <5>2. DOMAIN taxonomy = 1..Len(taxonomy)
              BY DEF TypeOK
        <5>3. i = j
              BY <5>1, <5>2
        <5>4. QED BY <4>1, <4>2, <5>3
      <4>3. QED BY <4>1, <4>2
    <3>3. ASSUME taxonomy = <<>> PROVE DOMAIN taxonomy = {}
          BY <3>3
    <3>4. /\ \A j \in DOMAIN taxonomy : ~Locked(j)
          /\ locked[e] => taxonomy = <<>>
          BY <3>1, <3>2, <3>3
    <3>5. QED BY <2>2, <2>3, <3>1, <3>4 DEF LockInv, Locked
  <2>5. CASE pc'[e] # "resolve"
        BY <2>2, <2>3, <2>5 DEF LockInv, Locked
  <2>6. QED BY <2>4, <2>5
<1>3. ASSUME NEW e \in Executions, InsertTaxonomy(e) PROVE LockInv'
  <2>1. SUFFICES ASSUME ~overlapped' PROVE LockInv'
        BY DEF LockInv
  <2>2. ~overlapped /\ pc[e] = "resolve"
        BY <1>3, <2>1 DEF InsertTaxonomy, At
  <2>3. /\ \A k \in Executions : pc[k] = "resolve" => k = e
        /\ \A i \in DOMAIN taxonomy : ~Locked(i)
        /\ locked[e] => taxonomy = <<>>
        BY <2>2 DEF LockInv
  <2>4. \A k \in Executions : pc'[k] # "resolve"
        BY <1>3, <2>3 DEF InsertTaxonomy, AfterTaxonomy, Ends, Go, TypeOK
  <2>5. taxonomy' = Append(taxonomy, locked[e])
        BY <1>3 DEF InsertTaxonomy
  <2>6. ASSUME NEW i \in DOMAIN taxonomy', taxonomy'[i] PROVE Len(taxonomy') = 1
    <3>1. taxonomy \in Seq(BOOLEAN) /\ locked[e] \in BOOLEAN
          BY DEF TypeOK
    <3>2. /\ DOMAIN taxonomy = 1..Len(taxonomy) /\ Len(taxonomy) \in Nat
          /\ Len(taxonomy') = Len(taxonomy) + 1 /\ DOMAIN taxonomy' = 1..(Len(taxonomy) + 1)
          /\ \A j \in 1..Len(taxonomy) : taxonomy'[j] = taxonomy[j]
          /\ taxonomy'[Len(taxonomy) + 1] = locked[e]
          BY <2>5, <3>1
    <3>3. i = Len(taxonomy) + 1
      <4>1. i \in 1..Len(taxonomy) \/ i = Len(taxonomy) + 1
            BY <2>6, <3>2
      <4>2. ASSUME i \in 1..Len(taxonomy) PROVE FALSE
            BY <2>3, <2>6, <3>2, <4>2 DEF Locked
      <4>3. QED BY <4>1, <4>2
    <3>4. locked[e]
          BY <2>6, <3>2, <3>3
    <3>5. taxonomy = <<>>
          BY <2>3, <3>4
    <3>6. QED BY <3>2, <3>5
  <2>7. QED BY <2>4, <2>6 DEF LockInv, Locked
<1>4. QED BY <1>1, <1>2, <1>3, LockFrame

\* A locked taxonomy stays the only one, unless calls of taxonomy-resolve overlap.
THEOREM LockCorrect == Spec => []LockIsFinal
<1>1. Init => LockInv
  <2>1. SUFFICES ASSUME Init PROVE LockInv
        OBVIOUS
  <2>2. taxonomy = <<>> /\ \A e \in Executions : pc[e] = "idle"
        BY <2>1 DEF Init
  <2>3. QED BY <2>2 DEF LockInv, Locked
<1>2. TypeOK /\ LockInv /\ [Next]_vars => LockInv'
      BY LockStep
<1>3. LockInv => LockIsFinal
      BY DEF LockInv, LockIsFinal, Locked
<1>4. QED BY <1>1, <1>2, <1>3, TypeCorrect, PTL DEF Spec

-----------------------------------------------------------------------------
(* The remote site and the records agree in the end.                       *)

Late == {"record", "commit", "update"}

\* An execution that was begun after the last failure has staged its release, or is through.
Clean == healed \/ \E e \in fresh : pc[e] \in Late

\* Whatever is not as it should be, some execution is still to put right; one that fails
\* takes the claim with it.
AgreeInv ==
  /\ \A e \in Executions : pc[e] # "idle" => release[e] \in Releases
  /\ rows # {} \/ (\E e \in Executions : pc[e] \in Late) => remote # NoRelease
  /\ healed => \/ \A row \in rows : row[2] = Final
               \/ \E e \in Executions : pc[e] \in {"commit", "update"}
  /\ Clean /\ remote # NoRelease =>
       /\ visibility = Final \/ \E e \in Executions : pc[e] \in {"record", "commit"}
       /\ \/ \E row \in rows : row[1] = remote
          \/ \E e \in Executions : pc[e] = "record" /\ release[e] = remote

\* A step before the staging, or of the gateway.
EarlyStep ==
  /\ UNCHANGED <<rows, remote, visibility, healed>>
  /\ \A e \in Executions :
       /\ pc[e] \in Late \/ pc'[e] \in Late
            => pc'[e] = pc[e] /\ release'[e] = release[e] /\ (e \in fresh' <=> e \in fresh)
       /\ pc'[e] # "idle" => release'[e] \in Releases

\* Every step is early, fails, or is one of the four that write.
LEMMA LateFrame ==
  ASSUME TypeOK, AgreeInv, [Next]_vars
  PROVE  \/ EarlyStep
         \/ \E e \in Executions :
              \/ Fails(e) /\ UNCHANGED <<rows, remote, visibility>>
              \/ Stage(e) \/ (Record(e) /\ release[e] \in released) \/ Commit(e) \/ UpdateRows(e)
<1>1. \A e \in Executions : pc[e] # "idle" => release[e] \in Releases
      BY DEF AgreeInv
<1>2. ASSUME NEW k \in Executions, pc[k] \in {"lookup", "resolve"}, Ends(k),
             UNCHANGED <<rows, remote, visibility, healed, fresh>>
      PROVE  EarlyStep
      BY <1>1, <1>2 DEF EarlyStep, Ends, Go, TypeOK, Late
<1>3. ASSUME NEW k \in Executions, pc[k] \notin Late \cup {"idle"},
             NEW p \in {"lookup", "resolve", "list", "verify", "probing", "stage"}, Go(k, p),
             UNCHANGED <<rows, remote, visibility, healed, fresh, release>>
      PROVE  EarlyStep
      BY <1>1, <1>3 DEF EarlyStep, Go, TypeOK, Late
<1>4. ASSUME NEW k \in Executions, Start(k) PROVE EarlyStep
  <2>1. PICK r \in Releases : release' = [release EXCEPT ![k] = r]
        BY <1>4 DEF Start
  <2>2. /\ pc[k] = "idle" /\ pc' = [pc EXCEPT ![k] = "lookup"] /\ fresh' = fresh \cup {k}
        /\ UNCHANGED <<rows, remote, visibility, healed>>
        BY <1>4 DEF Start, At, Go, tables, site
  <2>3. QED BY <1>1, <2>1, <2>2 DEF EarlyStep, TypeOK, Late
<1>5. ASSUME NEW k \in Executions, Lookup(k) \/ InsertTaxonomy(k) PROVE EarlyStep
  <2>1. /\ pc[k] \in {"lookup", "resolve"}
        /\ UNCHANGED <<rows, remote, visibility, healed, fresh>>
        /\ \/ Ends(k)
           \/ \E p \in {"resolve", "list"} : Go(k, p) /\ UNCHANGED release
        BY <1>5 DEF Lookup, InsertTaxonomy, AfterTaxonomy, At, tables, site, trouble
  <2>2. QED BY <1>2, <1>3, <2>1 DEF Late
<1>6. ASSUME NEW k \in Executions,
             ListLessons(k) \/ VerifyMedia(k) \/ ProbeLocal(k) \/ ProbeDownloads(k)
      PROVE  EarlyStep
  <2>1. /\ pc[k] \in {"list", "verify", "probing"}
        /\ UNCHANGED <<rows, remote, visibility, healed, fresh, release>>
        /\ \E p \in {"verify", "probing", "stage"} : Go(k, p)
        BY <1>6 DEF ListLessons, VerifyMedia, ProbeLocal, ProbeDownloads, Verified, At, Go,
           tables, site, trouble
  <2>2. QED BY <1>3, <2>1 DEF Late
<1>7. ASSUME NEW k \in Executions, ProposalFails(k) \/ VerifyFails(k) \/ ExecutionFails(k)
      PROVE  Fails(k) /\ UNCHANGED <<rows, remote, visibility>>
      BY <1>7 DEF ProposalFails, VerifyFails, ExecutionFails, tables, site
<1>8. ASSUME NEW k \in Executions, Record(k), release[k] \notin released
      PROVE  Fails(k) /\ UNCHANGED <<rows, remote, visibility>>
      BY <1>8 DEF Record, site
<1>9. ASSUME UNCHANGED <<rows, remote, visibility, healed, fresh, callers>> PROVE EarlyStep
      BY <1>1, <1>9 DEF EarlyStep, callers
<1>10. ASSUME DownloadEnds \/ DownloadBreaks PROVE EarlyStep
  <2>1. /\ UNCHANGED <<rows, remote, visibility, healed, fresh, release>>
        /\ \E p \in {"verify", "unreachable"} : Probed(p)
        BY <1>10 DEF DownloadEnds, DownloadBreaks, tables, site, trouble
  <2>2. QED BY <1>1, <2>1 DEF EarlyStep, Probed, At, Late
<1>11. \/ \E k \in Executions : Step(k)
       \/ UNCHANGED <<rows, remote, visibility, healed, fresh, callers>>
       \/ DownloadEnds \/ DownloadBreaks
       BY DEF Next, ServeFromTelegram, Upload, RemoveFile, Redub, RedubEnds, vars, tables, site,
          trouble
<1>12. QED BY <1>4, <1>5, <1>6, <1>7, <1>8, <1>9, <1>10, <1>11 DEF Step

\* The invariant is kept.
LEMMA AgreeStep ==
  ASSUME TypeOK, AgreeInv, [Next]_vars
  PROVE  AgreeInv'
<1>1. CASE EarlyStep
  <2>1. fresh \subseteq Executions /\ fresh' \subseteq Executions
        BY StepType DEF TypeOK
  <2>2. Clean' => Clean
        BY <1>1, <2>1 DEF Clean, EarlyStep
  <2>3. QED BY <1>1, <2>2 DEF AgreeInv, EarlyStep, Late
<1>2. ASSUME NEW e \in Executions, Fails(e), UNCHANGED <<rows, remote, visibility>>
      PROVE  AgreeInv'
  <2>1. /\ pc' = [pc EXCEPT ![e] = "idle"] /\ release' = [release EXCEPT ![e] = NoRelease]
        /\ ~healed' /\ ~Clean'
        BY <1>2 DEF Fails, Ends, Go, Clean
  <2>2. QED BY <1>2, <2>1 DEF AgreeInv, TypeOK, Late
<1>3. ASSUME NEW e \in Executions, Stage(e) PROVE AgreeInv'
  <2>1. /\ pc[e] = "stage" /\ pc' = [pc EXCEPT ![e] = "record"]
        /\ remote' = release[e] /\ visibility' = "DRAFT"
        /\ UNCHANGED <<rows, release, healed, fresh>>
        BY <1>3 DEF Stage, At, Go, tables, trouble
  <2>2. release[e] \in Releases /\ release[e] # NoRelease
        BY <2>1, ConstantsAssumption DEF ConstantsAssumption, AgreeInv
  <2>3. pc'[e] = "record" /\ release'[e] = remote'
        BY <2>1 DEF TypeOK
  <2>4. \A k \in Executions : k # e => pc'[k] = pc[k]
        BY <2>1 DEF TypeOK
  <2>5. healed' => \/ \A row \in rows' : row[2] = Final
                   \/ \E k \in Executions : pc'[k] \in {"commit", "update"}
        BY <2>1, <2>4 DEF AgreeInv
  <2>6. QED BY <2>1, <2>2, <2>3, <2>4, <2>5 DEF AgreeInv
<1>4. ASSUME NEW e \in Executions, Record(e), release[e] \in released PROVE AgreeInv'
  <2>1. /\ pc[e] = "record" /\ pc' = [pc EXCEPT ![e] = "commit"]
        /\ rows' = rows \cup {<<release[e], "DRAFT">>}
        /\ UNCHANGED <<remote, visibility, release, healed, fresh>>
        BY <1>4 DEF Record, At, Go, site
  <2>2. pc'[e] = "commit" /\ \A k \in Executions : k # e => pc'[k] = pc[k]
        BY <2>1 DEF TypeOK
  <2>3. Clean' => Clean
        BY <2>1, <2>2 DEF Clean, Late, TypeOK
  <2>4. remote # NoRelease
        BY <2>1 DEF AgreeInv, Late
  <2>5. Clean => \/ \E row \in rows' : row[1] = remote
                 \/ \E k \in Executions : pc'[k] = "record" /\ release[k] = remote
    <3>1. CASE release[e] = remote
      <4>1. <<release[e], "DRAFT">> \in rows'
            BY <2>1
      <4>2. QED BY <3>1, <4>1
    <3>2. CASE release[e] # remote
          BY <2>1, <2>2, <2>4, <3>2 DEF AgreeInv
    <3>3. QED BY <3>1, <3>2
  <2>6. QED BY <2>1, <2>2, <2>3, <2>4, <2>5 DEF AgreeInv, Late
<1>5. ASSUME NEW e \in Executions, Commit(e) PROVE AgreeInv'
  <2>1. /\ pc[e] = "commit" /\ pc' = [pc EXCEPT ![e] = "update"]
        /\ visibility' = Final
        /\ UNCHANGED <<rows, remote, release, healed, fresh>>
        BY <1>5 DEF Commit, At, Go, tables, trouble
  <2>2. pc'[e] = "update" /\ \A k \in Executions : k # e => pc'[k] = pc[k]
        BY <2>1 DEF TypeOK
  <2>3. Clean' => Clean
        BY <2>1, <2>2 DEF Clean, Late, TypeOK
  <2>4. remote # NoRelease
        BY <2>1 DEF AgreeInv, Late
  <2>5. QED BY <2>1, <2>2, <2>3, <2>4 DEF AgreeInv, Late
<1>6. ASSUME NEW e \in Executions, UpdateRows(e) PROVE AgreeInv'
  <2>1. /\ pc[e] = "update" /\ pc' = [pc EXCEPT ![e] = "idle"]
        /\ rows' = {<<row[1], Final>> : row \in rows}
        /\ release' = [release EXCEPT ![e] = NoRelease]
        /\ healed' = (healed \/ e \in fresh) /\ fresh' = fresh \ {e}
        /\ UNCHANGED <<remote, visibility>>
        BY <1>6 DEF UpdateRows, Updated, Ends, At, Go, site
  <2>2. /\ pc'[e] = "idle" /\ \A k \in Executions : k # e => pc'[k] = pc[k]
        /\ \A k \in Executions : k # e => release'[k] = release[k]
        BY <2>1 DEF TypeOK
  <2>3. Clean' => Clean
        BY <2>1, <2>2 DEF Clean, Late, TypeOK
  <2>4. \A row \in rows' : row[2] = Final
        BY <2>1
  <2>5. ASSUME NEW row \in rows PROVE \E new \in rows' : new[1] = row[1]
    <3>1. <<row[1], Final>> \in rows' /\ <<row[1], Final>>[1] = row[1]
          BY <2>1
    <3>2. QED BY <3>1
  <2>6. remote # NoRelease
        BY <2>1 DEF AgreeInv, Late
  <2>7. Clean => /\ visibility = Final \/ \E k \in Executions : pc'[k] \in {"record", "commit"}
                 /\ \/ \E row \in rows' : row[1] = remote
                    \/ \E k \in Executions : pc'[k] = "record" /\ release'[k] = remote
    <3>1. SUFFICES ASSUME Clean
                   PROVE  /\ \/ visibility = Final
                             \/ \E k \in Executions : pc'[k] \in {"record", "commit"}
                          /\ \/ \E row \in rows' : row[1] = remote
                             \/ \E k \in Executions : pc'[k] = "record" /\ release'[k] = remote
          OBVIOUS
    <3>2. /\ visibility = Final \/ \E k \in Executions : pc[k] \in {"record", "commit"}
          /\ \/ \E row \in rows : row[1] = remote
             \/ \E k \in Executions : pc[k] = "record" /\ release[k] = remote
          BY <2>6, <3>1 DEF AgreeInv
    <3>3. QED BY <2>1, <2>2, <2>5, <3>2
  <2>8. \A k \in Executions : pc'[k] # "idle" => release'[k] \in Releases
        BY <2>2 DEF AgreeInv
  <2>9. QED BY <2>1, <2>3, <2>4, <2>6, <2>7, <2>8 DEF AgreeInv
<1>7. QED BY <1>1, <1>2, <1>3, <1>4, <1>5, <1>6, LateFrame

\* Overlapping executions and failures notwithstanding, once all is over and one execution
\* begun after the last failure got through, the remote site and the records agree.
THEOREM RecordsCorrect == Spec => []RecordsAgree
<1>1. Init => AgreeInv
      BY DEF Init, AgreeInv, Late
<1>2. TypeOK /\ AgreeInv /\ [Next]_vars => AgreeInv'
      BY AgreeStep
<1>3. TypeOK /\ AgreeInv => RecordsAgree
  <2>1. SUFFICES ASSUME TypeOK, AgreeInv, healed, \A e \in Executions : At(e, "idle")
                 PROVE  /\ remote # NoRelease => <<remote, visibility>> \in rows
                        /\ \A row \in rows : row[2] = visibility
        BY DEF RecordsAgree
  <2>2. \A e \in Executions : pc[e] = "idle"
        BY <2>1 DEF At
  <2>3. \A row \in rows : row[2] = Final
        BY <2>1, <2>2 DEF AgreeInv
  <2>4. remote # NoRelease => visibility = Final /\ \E row \in rows : row[1] = remote
        BY <2>1, <2>2 DEF AgreeInv, Clean
  <2>5. rows # {} => remote # NoRelease
        BY <2>1 DEF AgreeInv
  <2>6. ASSUME NEW row \in rows, row[1] = remote PROVE row = <<remote, Final>>
        BY <2>1, <2>3, <2>6 DEF TypeOK
  <2>7. QED BY <2>3, <2>4, <2>5, <2>6
<1>4. QED BY <1>1, <1>2, <1>3, TypeCorrect, PTL DEF Spec
==============================================================================
