---------------------------- MODULE Publication ----------------------------
(***************************************************************************)
(* A finished course on its way to the website: executions of WF05, that   *)
(* resolve the taxonomy, stage a release on the remote site, record it and *)
(* switch its visibility; and the streaming gateway, from which stage-     *)
(* draft wants every lesson to be playable.                                *)
(*                                                                         *)
(* The gateway is an async function that downloads without awaiting, in    *)
(* the one process there is: while it downloads it serves nobody else.     *)
(* stage-draft and the other calls run in threads beside it.               *)
(*                                                                         *)
(* A lesson's asset is in the file its upload intent names, in the cache,  *)
(* or on Telegram.  That file is the lesson's work file, which a re-dub    *)
(* rewrites in place.  The remote site is used as with a live API key;     *)
(* what it holds of the course is what was staged and switched last.       *)
(***************************************************************************)
EXTENDS Naturals, Sequences

CONSTANTS
  Lessons,      \* the lessons of the course
  NoLesson,     \* no asset is being downloaded
  Asset,        \* "asset", for which a lesson without a stream URL is looked up
  Executions,   \* executions of WF05, and calls of taxonomy-resolve by an operator
  Releases,     \* release hashes
  NoRelease,    \* the remote site does not have the course
  AutoPublish,  \* AUTO_PUBLISH_ON_COMPLETE
  MaxRuns,      \* bound: executions begun
  MaxFailures   \* bound: failures and re-dubs

ASSUME ConstantsAssumption ==
  /\ NoLesson \notin Lessons /\ Asset \notin Lessons /\ NoRelease \notin Releases
  /\ AutoPublish \in BOOLEAN
  /\ MaxRuns \in Nat /\ MaxFailures \in Nat

VARIABLES
  taxonomy,     \* the rows of course_taxonomy, by created_at: is each locked?
  released,     \* the hashes in course_releases
  rows,         \* publications, as <<release, visibility>>
  remote,       \* the release the remote site has of the course
  visibility,   \* and its visibility there
  lessons,      \* the lessons that were staged there
  uploaded,     \* the lessons with a storage object
  local,        \* what is in the place the intent of a lesson names
  cache,        \* what the cache has of each asset: "NONE", "PART", "WHOLE"
  downloading,  \* the asset the gateway is downloading
  pc,           \* where each execution is
  release,      \* the release it publishes
  locked,       \* its request asks for a locked taxonomy
  todo,         \* the assets it has still to verify
  spoiled,      \* the lessons that were dubbed again, or whose download broke off
  overlapped,   \* two calls of taxonomy-resolve have overlapped
  fresh,        \* the executions begun after the last failure
  healed,       \* one of them is through, or nothing has failed
  runs,         \* executions so far
  failures      \* failures and re-dubs so far

site    == <<remote, visibility, lessons>>
tables  == <<taxonomy, released, rows>>
gateway == <<uploaded, local, cache, downloading, spoiled>>
callers == <<pc, release, locked, todo>>
trouble == <<fresh, healed, failures>>
vars    == <<tables, site, gateway, callers, overlapped, trouble, runs>>

Init ==
  /\ taxonomy = <<>> /\ rows = {}
  /\ released \in SUBSET Releases
  /\ remote = NoRelease /\ visibility = "DRAFT" /\ lessons = {}
  /\ uploaded \in SUBSET Lessons
  /\ local = [l \in Lessons |-> IF l \in uploaded THEN "WHOLE" ELSE "NONE"]
  /\ cache = [l \in Lessons |-> "NONE"]
  /\ downloading = NoLesson
  /\ pc = [e \in Executions |-> "idle"]
  /\ release = [e \in Executions |-> NoRelease]
  /\ locked = [e \in Executions |-> FALSE]
  /\ todo = [e \in Executions |-> {}]
  /\ spoiled = {} /\ overlapped = FALSE
  /\ fresh = {} /\ healed = TRUE
  /\ runs = 0 /\ failures = 0

At(e, p) == pc[e] = p
Go(e, p) == pc' = [pc EXCEPT ![e] = p]

\* An execution ends, and all it knew is gone.
Ends(e) ==
  /\ Go(e, "idle")
  /\ release' = [release EXCEPT ![e] = NoRelease]
  /\ locked' = [locked EXCEPT ![e] = FALSE]
  /\ todo' = [todo EXCEPT ![e] = {}]

\* Its node failed, and WF05 does not try again.
Fails(e) == Ends(e) /\ fresh' = {} /\ healed' = FALSE

-----------------------------------------------------------------------------
(* taxonomy-resolve.                                                       *)

\* WF05 is triggered for a release, or an operator asks for a locked taxonomy.
Start(e) ==
  /\ At(e, "idle") /\ runs < MaxRuns
  /\ \E r \in Releases, ask \in BOOLEAN :
       release' = [release EXCEPT ![e] = r] /\ locked' = [locked EXCEPT ![e] = ask]
  /\ Go(e, "lookup")
  /\ fresh' = fresh \cup {e} /\ runs' = runs + 1
  /\ UNCHANGED <<tables, site, gateway, todo, overlapped, healed, failures>>

\* Mutant of Keeps: the lock that was asked for is all that counts.
MutantAskedLock(row, ask) == ask

\* The row that was found is kept if it is locked or a lock is asked for, and the lock is not
\* stored.
Keeps(row, ask) == row \/ ask

\* WF05 never asks for a lock, and goes on.
AfterTaxonomy(e) ==
  IF locked[e] THEN Ends(e) ELSE Go(e, "list") /\ UNCHANGED <<release, locked, todo>>

\* Some row of the course is looked up, in no order.
Lookup(e) ==
  /\ At(e, "lookup")
  /\ \/ \E i \in DOMAIN taxonomy : Keeps(taxonomy[i], locked[e]) /\ AfterTaxonomy(e)
     \/ /\ taxonomy = <<>> \/ (\E i \in DOMAIN taxonomy : ~Keeps(taxonomy[i], locked[e]))
        /\ Go(e, "resolve")
        /\ UNCHANGED <<release, locked, todo>>
  /\ overlapped' = (overlapped \/ \E k \in Executions \ {e} : pc[k] = "resolve")
  /\ UNCHANGED <<tables, site, gateway, trouble, runs>>

\* Otherwise the taxonomy is resolved, and gets a new row: of a category there is, or of none, ...
InsertTaxonomy(e) ==
  /\ At(e, "resolve")
  /\ taxonomy' = Append(taxonomy, locked[e])
  /\ AfterTaxonomy(e)
  /\ UNCHANGED <<released, rows, site, gateway, overlapped, trouble, runs>>

\* ... but a category that is proposed is not stored anywhere, so the row's foreign key fails.
ProposalFails(e) ==
  /\ At(e, "resolve")
  /\ Fails(e)
  /\ UNCHANGED <<tables, site, gateway, overlapped, failures, runs>>

-----------------------------------------------------------------------------
(* stage-draft.                                                            *)

ListLessons(e) ==
  /\ At(e, "list")
  /\ todo' = [todo EXCEPT ![e] = uploaded \cup (IF uploaded = Lessons THEN {} ELSE {Asset})]
  /\ Go(e, "verify")
  /\ UNCHANGED <<tables, site, gateway, release, locked, overlapped, trouble, runs>>

\* The files in the cache whose name has the asset id in it: all of them have "asset".
Matches(a) == {l \in Lessons : cache[l] # "NONE" /\ a \in {l, Asset}}

\* Mutant of Accessible: a lesson without a stream URL is not looked up.
MutantNoUrl(a) == Matches(a) # {} \/ a = Asset

\* An asset counts as playable if the cache has a file for it, of whatever length, ...
Accessible(a) == Matches(a) # {}

Verified(e, a) ==
  /\ todo' = [todo EXCEPT ![e] = @ \ {a}]
  /\ Go(e, IF todo[e] = {a} THEN "stage" ELSE "verify")

VerifyMedia(e) ==
  /\ At(e, "verify")
  /\ \E a \in todo[e] : Accessible(a) /\ Verified(e, a)
  /\ UNCHANGED <<tables, site, gateway, release, locked, overlapped, trouble, runs>>

\* Mutant of GatewayFree: the gateway serves while it downloads.
MutantConcurrent == TRUE

GatewayFree == downloading = NoLesson

\* ... or if the gateway has a file, of whatever length, where the intent of the lesson says.
OnDisk(l) == l \in uploaded /\ local[l] # "NONE"

ProbeLocal(e) ==
  /\ At(e, "verify") /\ GatewayFree
  /\ \E l \in todo[e] \cap Lessons : OnDisk(l) /\ ~Accessible(l) /\ Verified(e, l)
  /\ UNCHANGED <<tables, site, gateway, release, locked, overlapped, trouble, runs>>

\* The probe of an asset that is on Telegram alone makes the gateway download it.
OnTelegramAlone(l) == l \in uploaded /\ local[l] = "NONE" /\ cache[l] = "NONE"

BeginsDownload(l) ==
  /\ GatewayFree /\ OnTelegramAlone(l)
  /\ downloading' = l
  /\ cache' = [cache EXCEPT ![l] = "PART"]
  /\ UNCHANGED <<uploaded, local, spoiled>>

ProbeDownloads(e) ==
  /\ At(e, "verify")
  /\ \E l \in todo[e] \cap Lessons : BeginsDownload(l)
  /\ Go(e, "probing")
  /\ UNCHANGED <<tables, site, release, locked, todo, overlapped, trouble, runs>>

\* The probe is answered when the download is over.
Probed(p) == pc' = [e \in Executions |-> IF At(e, "probing") THEN p ELSE pc[e]]

\* An asset cannot be verified: the gateway has no "asset", its download broke, or it does not
\* answer within five seconds.
VerifyFails(e) ==
  /\ \/ At(e, "probing") \/ At(e, "unreachable")
     \/ /\ At(e, "verify")
        /\ \E a \in todo[e] : ~Accessible(a) /\ (a = Asset \/ downloading # NoLesson)
  /\ Fails(e)
  /\ UNCHANGED <<tables, site, gateway, overlapped, failures, runs>>

\* The release is staged on the remote site, under the id of the course.
Stage(e) ==
  /\ At(e, "stage")
  /\ remote' = release[e] /\ visibility' = "DRAFT" /\ lessons' = Lessons
  /\ Go(e, "record")
  /\ UNCHANGED <<tables, gateway, release, locked, todo, overlapped, trouble, runs>>

\* Then the publication is recorded.  Its release is a foreign key, so a release that is not
\* there makes the call fail, with the remote site changed.
Record(e) ==
  /\ At(e, "record")
  /\ IF release[e] \in released
     THEN /\ rows' = rows \cup {<<release[e], "DRAFT">>}
          /\ Go(e, "commit")
          /\ UNCHANGED <<release, locked, todo, fresh, healed>>
     ELSE Fails(e) /\ UNCHANGED rows
  /\ UNCHANGED <<taxonomy, released, site, gateway, overlapped, failures, runs>>

-----------------------------------------------------------------------------
(* commit-visibility.                                                      *)

\* Mutant of Final: a name the table does not know.
MutantPublic == IF AutoPublish THEN "PUBLIC" ELSE "DRAFT"

Final == IF AutoPublish THEN "PUBLISHED" ELSE "DRAFT"

Commit(e) ==
  /\ At(e, "commit")
  /\ visibility' = Final
  /\ Go(e, "update")
  /\ UNCHANGED <<tables, remote, lessons, gateway, release, locked, todo, overlapped, trouble,
                 runs>>

\* Mutant of Updated: the publication of the release alone.
MutantOwnRow(e) ==
  {<<row[1], IF row[1] = release[e] THEN Final ELSE row[2]>> : row \in rows}

\* All publications of the remote course.
Updated(e) == {<<row[1], Final>> : row \in rows}

UpdateRows(e) ==
  /\ At(e, "update")
  /\ rows' = Updated(e)
  /\ healed' = (healed \/ e \in fresh) /\ fresh' = fresh \ {e}
  /\ Ends(e)
  /\ UNCHANGED <<taxonomy, released, site, gateway, overlapped, failures, runs>>

\* A call dies, or the network, a database or Telegram fails it.
ExecutionFails(e) ==
  /\ ~At(e, "idle") /\ failures < MaxFailures
  /\ Fails(e) /\ failures' = failures + 1
  /\ UNCHANGED <<tables, site, gateway, overlapped, runs>>

-----------------------------------------------------------------------------
(* The gateway.                                                            *)

\* A viewer asks for an asset: its local file comes first, then the cache, as they are, ...
Served(l) == IF local[l] # "NONE" THEN local[l] ELSE cache[l]

\* ... and then Telegram, which may not have it, or not answer.
ServeFromTelegram(l) ==
  /\ BeginsDownload(l)
  /\ UNCHANGED <<tables, site, callers, overlapped, trouble, runs>>

DownloadEnds ==
  /\ downloading # NoLesson
  /\ cache' = [cache EXCEPT ![downloading] = "WHOLE"]
  /\ downloading' = NoLesson
  /\ Probed("verify")
  /\ UNCHANGED <<tables, site, uploaded, local, spoiled, release, locked, todo, overlapped,
                 trouble, runs>>

\* A download that is interrupted leaves its part in the cache, for whoever asks next.
DownloadBreaks ==
  /\ downloading # NoLesson /\ failures < MaxFailures
  /\ downloading' = NoLesson
  /\ spoiled' = spoiled \cup {downloading} /\ failures' = failures + 1
  /\ Probed("unreachable")
  /\ UNCHANGED <<tables, site, uploaded, local, cache, release, locked, todo, overlapped,
                 fresh, healed, runs>>

-----------------------------------------------------------------------------
(* The pipeline and the disk.                                              *)

\* An upload is verified; a local file is removed.
Upload(l) ==
  /\ l \notin uploaded
  /\ uploaded' = uploaded \cup {l} /\ local' = [local EXCEPT ![l] = "WHOLE"]
  /\ UNCHANGED <<tables, site, cache, downloading, spoiled, callers,
                 overlapped, trouble, runs>>

RemoveFile(l) ==
  /\ local[l] # "NONE"
  /\ local' = [local EXCEPT ![l] = "NONE"]
  /\ UNCHANGED <<tables, site, uploaded, cache, downloading, spoiled, callers,
                 overlapped, trouble, runs>>

\* A re-dub empties the file it is to write, and one that dies leaves what it has written.
Redub(l) ==
  /\ l \in uploaded
  /\ failures < MaxFailures
  /\ local' = [local EXCEPT ![l] = "PART"] /\ spoiled' = spoiled \cup {l}
  /\ failures' = failures + 1
  /\ UNCHANGED <<tables, site, uploaded, cache, downloading, callers, overlapped, fresh, healed,
                 runs>>

RedubEnds(l) ==
  /\ local[l] = "PART"
  /\ local' = [local EXCEPT ![l] = "WHOLE"]
  /\ UNCHANGED <<tables, site, uploaded, cache, downloading, spoiled, callers,
                 overlapped, trouble, runs>>

-----------------------------------------------------------------------------
(* The specification.                                                      *)

Step(e) ==
  \/ Start(e) \/ Lookup(e) \/ InsertTaxonomy(e) \/ ProposalFails(e)
  \/ ListLessons(e) \/ VerifyMedia(e) \/ ProbeLocal(e) \/ ProbeDownloads(e)
  \/ VerifyFails(e) \/ Stage(e) \/ Record(e) \/ Commit(e) \/ UpdateRows(e) \/ ExecutionFails(e)

Next ==
  \/ \E e \in Executions : Step(e)
  \/ \E l \in Lessons :
       ServeFromTelegram(l) \/ Upload(l) \/ RemoveFile(l) \/ Redub(l) \/ RedubEnds(l)
  \/ DownloadEnds \/ DownloadBreaks

Spec == Init /\ [][Next]_vars

-----------------------------------------------------------------------------
(* Properties.                                                             *)

Visibilities == {"DRAFT", "PUBLISHED"}

\* The variables have their types.
TypeOK ==
  /\ taxonomy \in Seq(BOOLEAN)
  /\ released \subseteq Releases /\ rows \subseteq Releases \X Visibilities
  /\ remote \in Releases \cup {NoRelease} /\ visibility \in Visibilities
  /\ lessons \subseteq Lessons /\ uploaded \subseteq Lessons
  /\ local \in [Lessons -> {"NONE", "PART", "WHOLE"}]
  /\ \A l \in Lessons \ uploaded : local[l] = "NONE"
  /\ cache \in [Lessons -> {"NONE", "PART", "WHOLE"}]
  /\ downloading \in Lessons \cup {NoLesson}
  /\ pc \in [Executions -> {"idle", "lookup", "resolve", "list", "verify", "probing",
                            "unreachable", "stage", "record", "commit", "update"}]
  /\ release \in [Executions -> Releases \cup {NoRelease}]
  /\ locked \in [Executions -> BOOLEAN]
  /\ todo \in [Executions -> SUBSET (Lessons \cup {Asset})]
  /\ spoiled \subseteq Lessons /\ overlapped \in BOOLEAN
  /\ fresh \subseteq Executions /\ healed \in BOOLEAN
  /\ runs \in Nat /\ failures \in Nat

\* Once every execution is over, and one of them got through that was begun after the last
\* failure, the release on the remote site is recorded and all publications have its
\* visibility: overlapping stagings and switches of one course do not leave the two apart,
\* and a retry heals what a failure between them has.
RecordsAgree ==
  healed /\ (\A e \in Executions : At(e, "idle")) =>
    /\ remote # NoRelease => <<remote, visibility>> \in rows
    /\ \A row \in rows : row[2] = visibility

\* A lesson is staged only if it was uploaded, or else some asset was in the cache.
StagedIsPlayable == lessons \subseteq uploaded \/ (\E l \in Lessons : cache[l] # "NONE")

\* The gateway never serves a part of a lesson as the whole, unless the lesson was dubbed again
\* or a download of it broke off.
ServedWhole == GatewayFree => \A l \in uploaded \ spoiled : Served(l) # "PART"

\* A locked taxonomy stays the one that is staged, unless calls overlap.
LockIsFinal ==
  ~overlapped /\ (\E i \in DOMAIN taxonomy : taxonomy[i]) => Len(taxonomy) = 1
=============================================================================
