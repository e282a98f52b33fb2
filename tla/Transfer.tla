------------------------------ MODULE Transfer ------------------------------
(***************************************************************************)
(* download_with_resume: workers that download one file, over HTTP, into   *)
(* <dest>.part beside <dest>.meta, and rename it to <dest> at the end.  A  *)
(* file is a sequence of blocks, each of a version of the source.          *)
(*                                                                         *)
(* A worker may die anywhere, the connection may break, end early or stay  *)
(* whole, the source may change, and two workers may execute one job.  An  *)
(* open file follows its name: it goes on to write to what was renamed.    *)
(*                                                                         *)
(* The TRANSFER handler gives neither size nor checksum, so neither check  *)
(* of the code is there.  urllib's read(n) gives what there is when a      *)
(* connection ends early, and no error.                                    *)
(*                                                                         *)
(* Of the job there is what decides whether it is executed again: the      *)
(* attempts, the token of the last one, and whether it is given up.  A     *)
(* second job for the same file is an execution beside this one or after   *)
(* it.                                                                     *)
(***************************************************************************)
EXTENDS Integers, Sequences, FiniteSets

CONSTANTS
  Workers,     \* the workers that execute the job, one after the other or overlapping
  Size,        \* the number of blocks of each version of the source, by version
  NoFile,      \* in the place of a file that is not there
  MaxAttempts, \* max_attempts of the job
  MaxEvents    \* bound: what goes wrong or changes

ASSUME ConstantsAssumption ==
  /\ Size \in Seq(Nat \ {0}) /\ Size # <<>>
  /\ MaxAttempts \in Nat \ {0}
  /\ MaxEvents \in Nat

Versions == DOMAIN Size
Hole == <<0, 0>>
Files == Seq(Versions \X Nat \cup {Hole})  \* a hole is what was never written

ASSUME NoFileAssumption == NoFile \notin Files

Version(v) == [i \in 1..Size[v] |-> <<v, i>>]

\* What may happen besides the steps of the code.
Events == {"change", "death", "error", "early", "overlap", "again"}

VARIABLES
  version,   \* the version the source has now
  etags,     \* the source sends ETags
  honours,   \* it honours If-Range
  partfile,  \* <dest>.part
  dest,      \* <dest>
  meta,      \* the version whose etag <dest>.meta names, 0 without one
  pc,        \* where each worker is
  existing,  \* the size of the part file it saw
  cached,    \* the version whose etag it read
  stream,    \* the version and the next block its connection sends
  mode,      \* how it opens the part file: "wb", "ab"
  handle,    \* the file it has open: "none", "part", "dest" or "gone", an unlinked one
  pos,       \* where in it a worker in mode "wb" writes next
  attempts,  \* attempt_count of the job: each claim counts one
  token,     \* the attempt whose fencing token each worker has
  given_up,  \* the job is in DEAD_LETTER
  happened,  \* the events so far
  count,     \* their number
  broken     \* history: the executions that a death or a broken connection has ended

source == <<version, etags, honours>>
disk   == <<partfile, dest, meta>>
asked  == <<existing, cached>>
conn   == <<stream, mode, handle, pos>>
job    == <<attempts, token, given_up>>
events == <<happened, count, broken>>
vars   == <<source, disk, pc, asked, conn, job, events>>

Init ==
  /\ version = 1
  /\ etags \in BOOLEAN /\ honours \in BOOLEAN
  /\ partfile = NoFile /\ dest = NoFile /\ meta = 0
  /\ pc = [w \in Workers |-> "idle"]
  /\ existing = [w \in Workers |-> 0]
  /\ cached = [w \in Workers |-> 0]
  /\ stream = [w \in Workers |-> <<1, 1>>]
  /\ mode = [w \in Workers |-> "wb"]
  /\ handle = [w \in Workers |-> "none"]
  /\ pos = [w \in Workers |-> 1]
  /\ attempts = 0 /\ token = [w \in Workers |-> 0] /\ given_up = FALSE
  /\ happened = {} /\ count = 0 /\ broken = 0

Happens(e) ==
  /\ count < MaxEvents
  /\ happened' = happened \cup {e} /\ count' = count + 1

At(w, p) == pc[w] = p
Go(w, p) == pc' = [pc EXCEPT ![w] = p]

\* The worker is out of the function, its file closed.
Stops(w) ==
  /\ pc' = [pc EXCEPT ![w] = "idle"]
  /\ existing' = [existing EXCEPT ![w] = 0]
  /\ cached' = [cached EXCEPT ![w] = 0]
  /\ stream' = [stream EXCEPT ![w] = <<1, 1>>]
  /\ mode' = [mode EXCEPT ![w] = "wb"]
  /\ handle' = [handle EXCEPT ![w] = "none"]
  /\ pos' = [pos EXCEPT ![w] = 1]
  /\ token' = [token EXCEPT ![w] = 0]

-----------------------------------------------------------------------------
(* The download.                                                           *)

\* Mutant of PartSize: -1 for a file that is not there.
MutantNoSize == IF partfile = NoFile THEN -1 ELSE Len(partfile)

PartSize == IF partfile = NoFile THEN 0 ELSE Len(partfile)

\* A worker claims the job, which is done as long as the file is not there and the job not
\* given up; beside another one, or once more, if the queue makes it.  It looks at the part
\* file and at the etag it belongs to.
Start(w) ==
  LET alone == \A k \in Workers : At(k, "idle") IN
  /\ At(w, "idle") /\ ~given_up
  /\ IF alone /\ dest = NoFile THEN UNCHANGED <<happened, count>>
                               ELSE Happens(IF alone THEN "again" ELSE "overlap")
  /\ attempts' = attempts + 1
  /\ token' = [token EXCEPT ![w] = attempts + 1]
  /\ existing' = [existing EXCEPT ![w] = PartSize]
  /\ cached' = [cached EXCEPT ![w] = meta]
  /\ Go(w, "request")
  /\ UNCHANGED <<source, disk, conn, given_up, broken>>

\* The source's answer to a request of the whole file, or of what follows the part file if
\* there is one: the status, and the first block it sends.
Answers(w) ==
  LET changed == cached[w] # 0 /\ honours /\ cached[w] # version
      ranged  == existing[w] > 0 /\ ~changed
  IN  IF ~ranged THEN {<<200, 1>>}
      ELSE IF existing[w] >= Size[version] THEN {<<416, 0>>}
      ELSE {<<206, existing[w] + 1>>}

\* Mutant of ModeFor: the part file is kept, whatever the status.
MutantAppends(status, w) == "ab"

\* A 206 of another version starts over, though it sends what follows the old part.
ModeFor(status, w) ==
  IF status = 200 THEN "wb"
  ELSE IF cached[w] # 0 /\ etags /\ cached[w] # version THEN "wb"
  ELSE "ab"

\* The answer comes, and the metadata is saved before any of its bytes.
Answer(w) ==
  /\ At(w, "request")
  /\ \E answer \in Answers(w) :
       /\ answer[1] # 416
       /\ mode' = [mode EXCEPT ![w] = ModeFor(answer[1], w)]
       /\ stream' = [stream EXCEPT ![w] = <<version, answer[2]>>]
  /\ meta' = IF etags THEN version ELSE 0
  /\ Go(w, "open")
  /\ UNCHANGED <<source, partfile, dest, asked, handle, pos, job, events>>

\* Mutant of After416: an error like any other.
MutantError == "failing"

After416 == "hash"

\* There is nothing after the part file: it is taken to be complete.
NotSatisfiable(w) ==
  /\ At(w, "request")
  /\ \E answer \in Answers(w) : answer[1] = 416
  /\ Go(w, After416)
  /\ UNCHANGED <<source, disk, asked, conn, job, events>>

Open(w) ==
  /\ At(w, "open")
  /\ partfile' = IF mode[w] = "wb" \/ partfile = NoFile THEN <<>> ELSE partfile
  /\ handle' = [handle EXCEPT ![w] = "part"]
  /\ pos' = [pos EXCEPT ![w] = 1]
  /\ Go(w, "write")
  /\ UNCHANGED <<source, dest, meta, asked, stream, mode, job, events>>

\* A block written at position p, or at the end; what lies between them is a hole.
Written(file, p, block) ==
  [i \in 1..(IF p > Len(file) THEN p ELSE Len(file)) |->
     IF i = p THEN block ELSE IF i <= Len(file) THEN file[i] ELSE Hole]

Put(w, file) ==
  LET p == IF mode[w] = "ab" THEN Len(file) + 1 ELSE pos[w] IN Written(file, p, stream[w])

WriteBlock(w) ==
  /\ At(w, "write") /\ stream[w][2] <= Size[stream[w][1]]
  /\ partfile' = IF handle[w] = "part" THEN Put(w, partfile) ELSE partfile
  /\ dest' = IF handle[w] = "dest" THEN Put(w, dest) ELSE dest
  /\ stream' = [stream EXCEPT ![w] = <<@[1], @[2] + 1>>]
  /\ pos' = [pos EXCEPT ![w] = @ + 1]
  /\ UNCHANGED <<source, meta, pc, asked, mode, handle, job, events>>

Closes(w) ==
  /\ handle' = [handle EXCEPT ![w] = "none"]
  /\ Go(w, "hash")
  /\ UNCHANGED <<source, disk, asked, stream, mode, pos, job, broken>>

EndOfFile(w) ==
  /\ At(w, "write") /\ stream[w][2] > Size[stream[w][1]]
  /\ Closes(w) /\ UNCHANGED <<happened, count>>

\* The part file is hashed: it has to be there.
Hash(w) ==
  /\ At(w, "hash")
  /\ Go(w, IF partfile = NoFile THEN "failing" ELSE "unlink")
  /\ UNCHANGED <<source, disk, asked, conn, job, events>>

\* Where an open file is once <dest> was unlinked, and once <dest>.part took its name.
Unlinked(h) == IF h = "dest" THEN "gone" ELSE h
Replaced(h) == IF h = "part" THEN "dest" ELSE Unlinked(h)

UnlinkDest(w) ==
  /\ At(w, "unlink")
  /\ dest' = NoFile
  /\ handle' = [k \in Workers |-> Unlinked(handle[k])]
  /\ Go(w, "rename")
  /\ UNCHANGED <<source, partfile, meta, asked, stream, mode, pos, job, events>>

Rename(w) ==
  /\ At(w, "rename")
  /\ IF partfile = NoFile
     THEN UNCHANGED <<partfile, dest, handle>> /\ Go(w, "failing")
     ELSE /\ dest' = partfile
          /\ partfile' = NoFile
          /\ handle' = [k \in Workers |-> Replaced(handle[k])]
          /\ Go(w, "unmeta")
  /\ UNCHANGED <<source, meta, asked, stream, mode, pos, job, events>>

UnlinkMeta(w) ==
  /\ At(w, "unmeta")
  /\ meta' = 0
  /\ Stops(w)
  /\ UNCHANGED <<source, partfile, dest, attempts, given_up, events>>

\* An exception fails the job, unless it was claimed again meanwhile: fail_job asks for the
\* token.  It is tried again until its attempts are used up.
FailJob(w) ==
  /\ given_up' = (given_up \/ (token[w] = attempts /\ attempts >= MaxAttempts))
  /\ Stops(w)
  /\ UNCHANGED <<source, disk, attempts>>

\* The part file that was to be hashed or renamed is not there.
Fails(w) == At(w, "failing") /\ FailJob(w) /\ UNCHANGED events

-----------------------------------------------------------------------------
(* What may happen.                                                        *)

SourceChanges ==
  /\ version < Len(Size) /\ Happens("change")
  /\ version' = version + 1
  /\ UNCHANGED <<etags, honours, disk, pc, asked, conn, job, broken>>

\* The connection breaks, or is not made: an exception, and the part file is kept.
Breaks(w) ==
  /\ At(w, "request") \/ At(w, "write")
  /\ Happens("error") /\ broken' = broken + 1
  /\ FailJob(w)

\* It ends early, without an error.
EndsEarly(w) ==
  /\ At(w, "write") /\ stream[w][2] <= Size[stream[w][1]]
  /\ Happens("early")
  /\ Closes(w)

\* The row of a worker that died stays PROCESSING until its lease has run out; then the next
\* claim takes it, whatever its attempts, or the sweep.
Dies(w) ==
  /\ ~At(w, "idle")
  /\ Happens("death") /\ broken' = broken + 1
  /\ Stops(w)
  /\ UNCHANGED <<source, disk, attempts, given_up>>

\* The sweep finds the lease of the last attempt run out, and gives the job up.
SweepGivesUp ==
  /\ dest = NoFile /\ ~given_up /\ attempts >= MaxAttempts
  /\ given_up' = TRUE
  /\ UNCHANGED <<source, disk, pc, asked, conn, attempts, token, events>>

-----------------------------------------------------------------------------
(* The specification.                                                      *)

Step(w) ==
  \/ Start(w) \/ Answer(w) \/ NotSatisfiable(w) \/ Open(w) \/ WriteBlock(w) \/ EndOfFile(w)
  \/ Hash(w) \/ UnlinkDest(w) \/ Rename(w) \/ UnlinkMeta(w) \/ Fails(w)

Next ==
  \/ \E w \in Workers : Step(w) \/ Breaks(w) \/ EndsEarly(w) \/ Dies(w)
  \/ SourceChanges \/ SweepGivesUp

Spec == Init /\ [][Next]_vars

\* The job is executed again until it succeeds or is given up, and its worker goes on.
FairSpec == Spec /\ WF_vars(\E w \in Workers : Step(w))

-----------------------------------------------------------------------------
(* Properties.                                                             *)

\* The variables have their types.
TypeOK ==
  /\ version \in Versions /\ etags \in BOOLEAN /\ honours \in BOOLEAN
  /\ partfile \in Files \cup {NoFile} /\ dest \in Files \cup {NoFile}
  /\ meta \in Versions \cup {0}
  /\ pc \in [Workers -> {"idle", "request", "open", "write", "hash", "unlink", "rename",
                         "unmeta", "failing"}]
  /\ existing \in [Workers -> Nat]
  /\ cached \in [Workers -> Versions \cup {0}]
  /\ stream \in [Workers -> Versions \X Nat]
  /\ mode \in [Workers -> {"wb", "ab"}]
  /\ handle \in [Workers -> {"none", "part", "dest", "gone"}]
  /\ pos \in [Workers -> Nat]
  /\ attempts \in Nat /\ token \in [Workers -> 0..attempts] /\ given_up \in BOOLEAN
  /\ happened \subseteq Events /\ count \in Nat /\ broken \in Nat

Whole(file) == \E v \in Versions : file = Version(v)

\* The ways in which a download can go wrong unnoticed: the connection ended early; two
\* workers executed the job; the source changed and does not tell its versions apart, or
\* changed and a worker died, maybe between the etag it saved and the bytes it belongs to.
Excused ==
  \/ "early" \in happened \/ "overlap" \in happened
  \/ "change" \in happened /\ (~etags \/ ~honours \/ "death" \in happened)

\* What is renamed to <dest> is one whole version of the source, through any breaks, deaths,
\* resumptions and changes, but for those ways.
DestinationIsWhole == dest # NoFile /\ ~Excused => Whole(dest)

\* The file gets there if deaths and broken connections end fewer executions than the job has
\* attempts, and no two workers get into each other's way: the download never fails of itself,
\* whatever an execution that was broken off has left on the disk.
FileArrives ==
  []("overlap" \notin happened /\ broken < MaxAttempts) => <>(dest # NoFile)
=============================================================================
