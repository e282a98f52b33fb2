---------------------------- MODULE TransferProofs ----------------------------
(***************************************************************************)
(* Proofs about Transfer: its types, and that what is renamed to <dest> is *)
(* one whole version of the source, for any number of workers, any sizes   *)
(* and any number of events.                                               *)
(***************************************************************************)
EXTENDS Transfer, TLAPS

-----------------------------------------------------------------------------
(* Types.                                                                  *)

\* An open file that has a name is there.
HandlesOK ==
  \A w \in Workers : /\ handle[w] = "part" => partfile # NoFile
                     /\ handle[w] = "dest" => dest # NoFile

FilesOK == TypeOK /\ HandlesOK

LEMMA SizesOK == /\ 1 \in Versions /\ Versions \subseteq Nat \ {0}
                 /\ Versions = 1..Len(Size) /\ Len(Size) \in Nat
                 /\ \A v \in Versions : Size[v] \in Nat \ {0}
BY ConstantsAssumption DEF Versions

\* A block written into a file makes a file.
LEMMA WrittenIsFile ==
  ASSUME NEW file \in Files, NEW p \in Nat, NEW block \in Versions \X Nat
  PROVE  Written(file, p, block) \in Files
<1> DEFINE n == IF p > Len(file) THEN p ELSE Len(file)
<1>1. Len(file) \in Nat /\ n \in Nat
      BY DEF Files
<1>2. ASSUME NEW i \in 1..n
      PROVE  (IF i = p THEN block ELSE IF i <= Len(file) THEN file[i] ELSE Hole)
                \in Versions \X Nat \cup {Hole}
      BY <1>1, <1>2 DEF Files
<1>3. Written(file, p, block) \in [1..n -> Versions \X Nat \cup {Hole}]
      BY <1>2 DEF Written
<1>4. QED BY <1>1, <1>3 DEF Files

LEMMA PutIsFile ==
  ASSUME FilesOK, NEW w \in Workers, NEW file \in Files
  PROVE  Put(w, file) \in Files
<1>1. Len(file) + 1 \in Nat /\ pos[w] \in Nat /\ stream[w] \in Versions \X Nat
      BY DEF FilesOK, TypeOK, Files
<1>2. QED BY <1>1, WrittenIsFile DEF Put

\* What happens is counted.
LEMMA EventsOK ==
  ASSUME happened \subseteq Events, count \in Nat, NEW e \in Events, Happens(e)
  PROVE  happened' \subseteq Events /\ count' \in Nat
BY DEF Happens

\* A worker that stops drops its token, a claim gives a new one.
LEMMA TokensOK ==
  ASSUME attempts \in Nat, token \in [Workers -> 0..attempts], NEW w \in Workers
  PROVE  /\ [token EXCEPT ![w] = 0] \in [Workers -> 0..attempts]
         /\ [token EXCEPT ![w] = attempts + 1] \in [Workers -> 0..(attempts + 1)]
         /\ attempts + 1 \in Nat
<1>1. 0..attempts \subseteq 0..(attempts + 1) /\ attempts + 1 \in 0..(attempts + 1)
      OBVIOUS
<1>2. QED BY <1>1

LEMMA FilesStep == FilesOK /\ [Next]_vars => FilesOK'
<1> SUFFICES ASSUME FilesOK, [Next]_vars PROVE FilesOK'
    OBVIOUS
<1> USE SizesOK DEF FilesOK
<1>1. ASSUME NEW w \in Workers, Start(w) PROVE FilesOK'
      <2>1. PartSize \in Nat
            BY DEF PartSize, TypeOK, Files
      <2>2. happened' \subseteq Events /\ count' \in Nat
            <3>1. UNCHANGED <<happened, count>> \/ Happens("again") \/ Happens("overlap")
                  BY <1>1 DEF Start
            <3>2. CASE UNCHANGED <<happened, count>>
                  BY <3>2 DEF TypeOK
            <3>3. CASE Happens("again") \/ Happens("overlap")
                  BY <3>3, EventsOK DEF Events, TypeOK
            <3>4. QED BY <3>1, <3>2, <3>3
      <2>3. /\ existing' = [existing EXCEPT ![w] = PartSize]
            /\ cached' = [cached EXCEPT ![w] = meta]
            /\ pc' = [pc EXCEPT ![w] = "request"]
            /\ attempts' = attempts + 1 /\ token' = [token EXCEPT ![w] = attempts + 1]
            /\ UNCHANGED <<version, etags, honours, partfile, dest, meta, stream, mode, handle,
                           pos, given_up, broken>>
            BY <1>1 DEF Start, Go, source, disk, conn
      <2>4. TypeOK'
            <3>1. attempts' \in Nat /\ token' \in [Workers -> 0..attempts']
                  BY <2>3, TokensOK DEF TypeOK
            <3>2. QED BY <2>1, <2>2, <2>3, <3>1 DEF TypeOK
      <2>5. QED BY <2>3, <2>4 DEF HandlesOK
<1>2. ASSUME NEW w \in Workers, Answer(w) PROVE FilesOK'
      <2>1. PICK answer \in Answers(w) :
              /\ answer[1] # 416
              /\ mode' = [mode EXCEPT ![w] = ModeFor(answer[1], w)]
              /\ stream' = [stream EXCEPT ![w] = <<version, answer[2]>>]
            BY <1>2 DEF Answer
      <2>2. answer[2] \in Nat
            <3>1. existing[w] \in Nat
                  BY DEF TypeOK
            <3>2. answer \in {<<200, 1>>, <<416, 0>>, <<206, existing[w] + 1>>}
                  BY <2>1 DEF Answers
            <3>3. QED BY <3>1, <3>2
      <2>3. ModeFor(answer[1], w) \in {"wb", "ab"}
            BY DEF ModeFor
      <2>4. TypeOK'
            BY <1>2, <2>1, <2>2, <2>3 DEF Answer, TypeOK, Go, At, source, asked, job, events
      <2>5. QED BY <1>2, <2>4 DEF Answer, HandlesOK
<1>3. ASSUME NEW w \in Workers, NotSatisfiable(w) PROVE FilesOK'
      BY <1>3 DEF NotSatisfiable, After416, TypeOK, HandlesOK, Go, At, source, disk, asked, conn,
                  job, events
<1>4. ASSUME NEW w \in Workers, Open(w) PROVE FilesOK'
      <2>1. partfile' \in Files /\ partfile' # NoFile
            <3>1. <<>> \in Files
                  BY DEF Files
            <3>2. partfile' = IF mode[w] = "wb" \/ partfile = NoFile THEN <<>> ELSE partfile
                  BY <1>4 DEF Open
            <3>3. CASE mode[w] = "wb" \/ partfile = NoFile
                  BY <3>1, <3>2, <3>3, NoFileAssumption
            <3>4. CASE mode[w] # "wb" /\ partfile # NoFile
                  BY <3>2, <3>4 DEF TypeOK
            <3>5. QED BY <3>3, <3>4
      <2>2. TypeOK'
            BY <1>4, <2>1 DEF Open, TypeOK, Go, At, source, asked, job, events
      <2>3. QED BY <1>4, <2>1, <2>2 DEF Open, HandlesOK, TypeOK
<1>5. ASSUME NEW w \in Workers, WriteBlock(w) PROVE FilesOK'
      <2>1. /\ handle[w] = "part" => partfile' \in Files
            /\ handle[w] # "part" => partfile' = partfile
            /\ handle[w] = "dest" => dest' \in Files
            /\ handle[w] # "dest" => dest' = dest
            BY <1>5, PutIsFile DEF WriteBlock, TypeOK, HandlesOK
      <2>2. /\ stream' = [stream EXCEPT ![w] = <<stream[w][1], stream[w][2] + 1>>]
            /\ pos' = [pos EXCEPT ![w] = pos[w] + 1]
            BY <1>5 DEF WriteBlock
      <2>3. stream' \in [Workers -> Versions \X Nat] /\ pos' \in [Workers -> Nat]
            BY <2>2 DEF TypeOK
      <2>4. TypeOK'
            BY <1>5, <2>1, <2>3 DEF WriteBlock, TypeOK, source, asked, job, events
      <2>5. HandlesOK'
            BY <1>5, <2>1, NoFileAssumption DEF WriteBlock, HandlesOK
      <2>6. QED BY <2>4, <2>5
<1>6. ASSUME NEW w \in Workers, EndOfFile(w) PROVE FilesOK'
      BY <1>6 DEF EndOfFile, Closes, TypeOK, HandlesOK, Go, At, source, disk, asked, job
<1>7. ASSUME NEW w \in Workers, Hash(w) PROVE FilesOK'
      BY <1>7 DEF Hash, TypeOK, HandlesOK, Go, At, source, disk, asked, conn, job, events
<1>8. ASSUME NEW w \in Workers, UnlinkDest(w) PROVE FilesOK'
      <2>1. \A k \in Workers : handle'[k] = Unlinked(handle[k])
            BY <1>8 DEF UnlinkDest
      <2>2. handle' \in [Workers -> {"none", "part", "dest", "gone"}]
            BY <1>8 DEF UnlinkDest, Unlinked, TypeOK
      <2>3. TypeOK'
            BY <1>8, <2>2 DEF UnlinkDest, TypeOK, Go, At, source, asked, job, events
      <2>4. QED BY <1>8, <2>1, <2>3 DEF UnlinkDest, Unlinked, HandlesOK
<1>9. ASSUME NEW w \in Workers, Rename(w) PROVE FilesOK'
      <2>1. CASE partfile = NoFile
            BY <1>9, <2>1 DEF Rename, TypeOK, HandlesOK, Go, At, source, asked, job, events
      <2>2. CASE partfile # NoFile
            <3>1. \A k \in Workers : handle'[k] = Replaced(handle[k])
                  BY <1>9, <2>2 DEF Rename
            <3>2. handle' \in [Workers -> {"none", "part", "dest", "gone"}]
                  BY <1>9, <2>2 DEF Rename, Replaced, Unlinked, TypeOK
            <3>3. TypeOK'
                  BY <1>9, <2>2, <3>2 DEF Rename, TypeOK, Go, At, source, asked, job, events
            <3>4. QED BY <1>9, <2>2, <3>1, <3>3 DEF Rename, Replaced, Unlinked, HandlesOK
      <2>3. QED BY <2>1, <2>2
<1>10. ASSUME NEW w \in Workers, UnlinkMeta(w) PROVE FilesOK'
      BY <1>10, TokensOK DEF UnlinkMeta, Stops, TypeOK, HandlesOK, At, source, events
<1>11. ASSUME NEW w \in Workers, Fails(w) PROVE FilesOK'
      <2>1. given_up' \in BOOLEAN
            BY <1>11, Zenon DEF Fails, FailJob, TypeOK
      <2>2. Stops(w) /\ UNCHANGED <<source, disk, attempts, events>>
            BY <1>11 DEF Fails, FailJob
      <2>3. QED BY <2>1, <2>2, TokensOK DEF Stops, TypeOK, HandlesOK, source, disk, events
<1>12. ASSUME NEW w \in Workers, Breaks(w) \/ Dies(w) PROVE FilesOK'
      <2>1. Happens("error") \/ Happens("death")
            BY <1>12 DEF Breaks, Dies
      <2>2. happened' \subseteq Events /\ count' \in Nat
            BY <2>1, EventsOK DEF Events, TypeOK
      <2>3. Stops(w) /\ broken' = broken + 1 /\ UNCHANGED <<source, disk, attempts>>
            BY <1>12 DEF Breaks, Dies, FailJob
      <2>4. given_up' \in BOOLEAN
            <3>1. CASE Breaks(w)
                  BY <3>1, Zenon DEF Breaks, FailJob, TypeOK
            <3>2. CASE Dies(w)
                  BY <3>2 DEF Dies, TypeOK
            <3>3. QED BY <1>12, <3>1, <3>2
      <2>5. QED BY <2>2, <2>3, <2>4, TokensOK DEF Stops, TypeOK, HandlesOK, source, disk
<1>13. ASSUME NEW w \in Workers, EndsEarly(w) PROVE FilesOK'
      BY <1>13 DEF EndsEarly, Closes, Happens, Events, TypeOK, HandlesOK, Go, At, source, disk,
                   asked, job
<1>14. ASSUME SourceChanges PROVE FilesOK'
      BY <1>14 DEF SourceChanges, Happens, Events, TypeOK, HandlesOK, disk, asked, conn, job
<1>15. ASSUME UNCHANGED vars PROVE FilesOK'
      BY <1>15 DEF TypeOK, HandlesOK, vars, source, disk, asked, conn, job, events
<1>16. ASSUME SweepGivesUp PROVE FilesOK'
      BY <1>16 DEF SweepGivesUp, TypeOK, HandlesOK, source, disk, asked, conn, events
<1>17. QED BY <1>1, <1>2, <1>3, <1>4, <1>5, <1>6, <1>7, <1>8, <1>9, <1>10, <1>11, <1>12, <1>13,
             <1>14, <1>15, <1>16 DEF Next, Step

LEMMA FilesInit == Init => FilesOK
<1> SUFFICES ASSUME Init PROVE FilesOK
    OBVIOUS
<1>1. attempts \in Nat /\ token \in [Workers -> 0..attempts]
      BY DEF Init
<1>2. QED BY <1>1, SizesOK DEF Init, FilesOK, TypeOK, HandlesOK

\* Every reachable state of the transfer is of its types.
THEOREM TypeCorrect == Spec => []TypeOK
<1>1. FilesOK => TypeOK
      BY DEF FilesOK
<1>2. QED BY <1>1, FilesInit, FilesStep, PTL DEF Spec

-----------------------------------------------------------------------------
(* The inductive invariant behind DestinationIsWhole: as long as nothing   *)
(* excuses a mixed file, one worker is active, and what is on the disk is  *)
(* the beginning of one version, which the worker knows.                   *)

\* file is the beginning of version v of the source.
PrefixOf(file, v) ==
  /\ file # NoFile /\ Len(file) <= Size[v]
  /\ \A i \in 1..Len(file) : file[i] = <<v, i>>

\* v is the version the bytes on the disk have to be of: the source's own as long as that did
\* not change, and the one the saved etag names unless a worker died after it saved one.
Trusted(v) ==
  /\ v \in Versions
  /\ "change" \notin happened => v = version
  /\ etags /\ "death" \notin happened => v = meta

\* What a worker that starts may go on from.
Resumable == partfile = NoFile \/ \E v \in Versions : Trusted(v) /\ PrefixOf(partfile, v)

\* What a worker that starts over may find.
Older ==
  \/ partfile = NoFile
  \/ \E v \in Versions : ("change" \notin happened => v = version) /\ PrefixOf(partfile, v)

Complete ==
  \/ partfile = NoFile
  \/ \E v \in Versions : Trusted(v) /\ PrefixOf(partfile, v) /\ Len(partfile) = Size[v]

Alone == \A k, l \in Workers : pc[k] # "idle" /\ pc[l] # "idle" => k = l

Resting(w) == pc[w] \in {"idle", "request", "failing"}

AtRequest(w) == pc[w] = "request" => existing[w] = PartSize /\ cached[w] = meta

AtOpen(w) ==
  pc[w] = "open" =>
    /\ Trusted(stream[w][1])
    /\ mode[w] = "wb" => stream[w][2] = 1 /\ Older
    /\ mode[w] = "ab" => PrefixOf(partfile, stream[w][1]) /\ stream[w][2] = Len(partfile) + 1

AtWrite(w) ==
  pc[w] = "write" =>
    /\ handle[w] = "part"
    /\ Trusted(stream[w][1])
    /\ PrefixOf(partfile, stream[w][1]) /\ stream[w][2] = Len(partfile) + 1
    /\ mode[w] = "wb" => pos[w] = Len(partfile) + 1

AtEnd(w) ==
  /\ pc[w] \in {"hash", "unlink", "rename"} => Complete
  /\ pc[w] = "unmeta" => partfile = NoFile
  /\ pc[w] # "write" => handle[w] = "none"

Undisturbed ==
  /\ Alone
  /\ "change" \notin happened => meta \in {0, version}
  /\ (\A w \in Workers : Resting(w)) => Resumable
  /\ \A w \in Workers : AtRequest(w) /\ AtOpen(w) /\ AtWrite(w) /\ AtEnd(w)
  /\ dest # NoFile => Whole(dest)

TransferInv == Excused \/ Undisturbed

-----------------------------------------------------------------------------
(* Prefixes.                                                               *)

LEMMA EmptyPrefix ==
  ASSUME NEW v \in Versions
  PROVE  PrefixOf(<<>>, v)
<1>1. <<>> \in Files
      BY DEF Files
<1>2. <<>> # NoFile
      BY <1>1, NoFileAssumption
<1>3. Len(<<>>) = 0 /\ 0 <= Size[v]
      BY SizesOK
<1>4. QED BY <1>2, <1>3 DEF PrefixOf

\* The next block makes a longer prefix.
LEMMA LongerPrefix ==
  ASSUME NEW file \in Files, NEW v \in Versions, PrefixOf(file, v), Len(file) + 1 <= Size[v]
  PROVE  LET new == Written(file, Len(file) + 1, <<v, Len(file) + 1>>)
         IN  PrefixOf(new, v) /\ Len(new) = Len(file) + 1
<1> DEFINE n == Len(file) + 1
           new == Written(file, n, <<v, n>>)
<1>1. Len(file) \in Nat /\ n \in Nat /\ n > Len(file)
      BY DEF Files
<1>2. new \in Files
      BY <1>1, SizesOK, WrittenIsFile
<1>3. new # NoFile
      BY <1>2, NoFileAssumption
<1>4. new = [i \in 1..n |-> IF i = n THEN <<v, n>> ELSE IF i <= Len(file) THEN file[i] ELSE Hole]
      BY <1>1 DEF Written
<1>5. Len(new) = n
      <2>1. DOMAIN new = 1..n
            BY <1>4
      <2>2. Len(new) \in Nat /\ DOMAIN new = 1..Len(new)
            BY <1>2 DEF Files
      <2>3. QED BY <1>1, <2>1, <2>2
<1>6. ASSUME NEW i \in 1..n PROVE new[i] = <<v, i>>
      <2>1. CASE i = n
            BY <1>4, <2>1
      <2>2. CASE i # n
            <3>1. i \in 1..Len(file)
                  BY <1>1, <1>6, <2>2
            <3>2. new[i] = file[i]
                  BY <1>1, <1>4, <2>2, <3>1
            <3>3. QED BY <3>1, <3>2 DEF PrefixOf
      <2>3. QED BY <2>1, <2>2
<1>7. QED BY <1>3, <1>5, <1>6 DEF PrefixOf

\* A prefix as long as the version is the version.
LEMMA WholePrefix ==
  ASSUME NEW file \in Files, NEW v \in Versions, PrefixOf(file, v), Len(file) = Size[v]
  PROVE  Whole(file)
<1>1. file = [i \in 1..Len(file) |-> file[i]]
      BY DEF Files
<1>2. \A i \in 1..Len(file) : file[i] = <<v, i>>
      BY DEF PrefixOf
<1>3. file = [i \in 1..Size[v] |-> <<v, i>>]
      BY <1>1, <1>2
<1>4. QED BY <1>3 DEF Whole, Version

-----------------------------------------------------------------------------
(* One worker's step.                                                      *)

OthersIdle(w) == \A k \in Workers \ {w} : pc[k] = "idle"

LEMMA AloneAtWork ==
  ASSUME Undisturbed, NEW w \in Workers, pc[w] # "idle"
  PROVE  OthersIdle(w)
BY DEF Undisturbed, Alone, OthersIdle

\* What has to be shown of a step of the only active worker.
LEMMA OneWorkersStep ==
  ASSUME FilesOK, FilesOK', Undisturbed, NEW w \in Workers, OthersIdle(w),
         pc' = [pc EXCEPT ![w] = pc'[w]],
         \A k \in Workers \ {w} : handle'[k] = handle[k],
         "change" \notin happened' => meta' \in {0, version'},
         Resting(w)' => Resumable',
         AtRequest(w)', AtOpen(w)', AtWrite(w)', AtEnd(w)',
         dest' # NoFile => Whole(dest')
  PROVE  Undisturbed'
<1>1. \A k \in Workers \ {w} : pc'[k] = "idle"
      BY DEF OthersIdle, FilesOK, TypeOK
<1>2. Alone'
      BY <1>1 DEF Alone
<1>3. ASSUME NEW k \in Workers \ {w}
      PROVE  AtRequest(k)' /\ AtOpen(k)' /\ AtWrite(k)' /\ AtEnd(k)'
      <2>1. pc'[k] = "idle" /\ pc[k] = "idle"
            BY <1>1 DEF OthersIdle
      <2>2. handle'[k] = "none"
            BY <2>1 DEF Undisturbed, AtEnd
      <2>3. QED BY <2>1, <2>2 DEF AtRequest, AtOpen, AtWrite, AtEnd
<1>4. (\A k \in Workers : Resting(k)') => Resumable'
      OBVIOUS
<1>5. QED BY <1>2, <1>3, <1>4 DEF Undisturbed

\* Whatever the worker is about, the file on the disk is a prefix of a version that the source
\* has unless it changed.
LEMMA DiskIsOlder ==
  ASSUME FilesOK, Undisturbed, NEW w \in Workers, OthersIdle(w)
  PROVE  Older
<1>1. CASE Resting(w)
      <2>1. \A k \in Workers : Resting(k)
            BY <1>1 DEF OthersIdle, Resting
      <2>2. Resumable
            BY <2>1 DEF Undisturbed
      <2>3. QED BY <2>2 DEF Resumable, Older, Trusted
<1>2. CASE pc[w] = "open"
      <2>1. AtOpen(w) /\ mode[w] \in {"wb", "ab"}
            BY DEF Undisturbed, FilesOK, TypeOK
      <2>2. CASE mode[w] = "wb"
            BY <1>2, <2>1, <2>2 DEF AtOpen
      <2>3. CASE mode[w] = "ab"
            BY <1>2, <2>1, <2>3 DEF AtOpen, Older, Trusted
      <2>4. QED BY <2>1, <2>2, <2>3
<1>3. CASE pc[w] = "write"
      BY <1>3 DEF Undisturbed, AtWrite, Older, Trusted
<1>4. CASE pc[w] \in {"hash", "unlink", "rename"}
      BY <1>4 DEF Undisturbed, AtEnd, Complete, Older, Trusted
<1>5. CASE pc[w] = "unmeta"
      BY <1>5 DEF Undisturbed, AtEnd, Older
<1>6. QED BY <1>1, <1>2, <1>3, <1>4, <1>5 DEF Resting, FilesOK, TypeOK

\* A worker about to ask may go on from what is on the disk.
LEMMA AskingIsResumable ==
  ASSUME Undisturbed, NEW w \in Workers, OthersIdle(w), Resting(w)
  PROVE  Resumable
<1>1. \A k \in Workers : Resting(k)
      BY DEF OthersIdle, Resting
<1>2. QED BY <1>1 DEF Undisturbed

\* An event excuses what follows it.
LEMMA ExcusedStays == FilesOK /\ Excused /\ [Next]_vars => Excused'
<1> SUFFICES ASSUME FilesOK, Excused, [Next]_vars PROVE Excused'
    OBVIOUS
<1>1. happened \subseteq happened' /\ UNCHANGED <<etags, honours>>
      BY DEF Next, Step, Start, Answer, NotSatisfiable, Open, WriteBlock, EndOfFile, Hash,
             UnlinkDest, Rename, UnlinkMeta, FailJob, Fails, Breaks, EndsEarly, Dies,
             SourceChanges, SweepGivesUp, Closes, Happens, vars, source, events
<1>2. QED BY <1>1 DEF Excused

-----------------------------------------------------------------------------
(* The actions.                                                            *)

\* Where only the worker's place changes, the rest of what is known stays.
LEMMA KnownStays ==
  ASSUME UNCHANGED <<source, disk, happened>>
  PROVE  /\ \A v : Trusted(v) => Trusted(v)'
         /\ Older => Older'
         /\ Resumable => Resumable'
         /\ Complete => Complete'
<1>1. UNCHANGED <<version, etags, honours, partfile, dest, meta, happened>>
      BY DEF source, disk
<1>2. \A v : Trusted(v) => Trusted(v)'
      BY <1>1 DEF Trusted
<1>3. Older => Older'
      BY <1>1 DEF Older, PrefixOf
<1>4. Resumable => Resumable'
      BY <1>1, <1>2 DEF Resumable, PrefixOf
<1>5. Complete => Complete'
      BY <1>1, <1>2 DEF Complete, PrefixOf
<1>6. QED BY <1>2, <1>3, <1>4, <1>5

LEMMA StartStays ==
  ASSUME FilesOK, FilesOK', Undisturbed, ~Excused', NEW w \in Workers, Start(w)
  PROVE  Undisturbed'
<1>1. pc[w] = "idle" /\ pc' = [pc EXCEPT ![w] = "request"] /\ pc'[w] = "request"
      BY DEF Start, At, Go, FilesOK, TypeOK
<1>2. OthersIdle(w)
      <2>1. \A k \in Workers : pc[k] = "idle"
            BY DEF Start, Happens, Excused, At
      <2>2. QED BY <2>1 DEF OthersIdle
<1>3. "change" \notin happened' <=> "change" \notin happened
      BY DEF Start, Happens, events
<1>4. "death" \notin happened' <=> "death" \notin happened
      BY DEF Start, Happens, events
<1>5. UNCHANGED <<version, etags, honours, partfile, dest, meta, handle>>
      BY DEF Start, source, disk, conn
<1>6. Resumable'
      <2>1. Resumable
            BY <1>1, <1>2, AskingIsResumable DEF Resting
      <2>2. QED BY <2>1, <1>3, <1>4, <1>5 DEF Resumable, Trusted, PrefixOf
<1>7. AtRequest(w)'
      <2>1. existing'[w] = PartSize /\ cached'[w] = meta
            BY DEF Start, FilesOK, TypeOK
      <2>2. PartSize' = PartSize
            BY <1>5 DEF PartSize
      <2>3. QED BY <2>1, <2>2, <1>5 DEF AtRequest
<1>8. AtOpen(w)' /\ AtWrite(w)' /\ AtEnd(w)'
      BY <1>1, <1>5 DEF AtOpen, AtWrite, AtEnd, Undisturbed
<1>9. "change" \notin happened' => meta' \in {0, version'}
      BY <1>3, <1>5 DEF Undisturbed
<1>10. dest' # NoFile => Whole(dest')
      BY <1>5 DEF Undisturbed
<1>11. QED BY <1>1, <1>2, <1>5, <1>6, <1>7, <1>8, <1>9, <1>10, OneWorkersStep

\* The version a range of which the source sends is that of the file on the disk.
LEMMA RangeContinues ==
  ASSUME FilesOK, Undisturbed, ~Excused, NEW w \in Workers, pc[w] = "request",
         existing[w] > 0, ~(cached[w] # 0 /\ honours /\ cached[w] # version)
  PROVE  /\ PrefixOf(partfile, version) /\ existing[w] = Len(partfile)
         /\ cached[w] \in {0, version}
<1>1. existing[w] = PartSize /\ cached[w] = meta
      BY DEF Undisturbed, AtRequest
<1>2. partfile # NoFile /\ existing[w] = Len(partfile)
      BY <1>1 DEF PartSize
<1>3. OthersIdle(w)
      BY AloneAtWork
<1>4. PICK v \in Versions : Trusted(v) /\ PrefixOf(partfile, v)
      BY <1>2, <1>3, AskingIsResumable DEF Resting, Resumable
<1>5. CASE "change" \notin happened
      BY <1>1, <1>2, <1>4, <1>5 DEF Trusted, Undisturbed
<1>6. CASE "change" \in happened
      <2>1. etags /\ honours /\ "death" \notin happened
            BY <1>6 DEF Excused
      <2>2. v = meta /\ v # 0
            BY <1>4, <2>1, SizesOK DEF Trusted
      <2>3. v = version
            BY <1>1, <2>1, <2>2
      <2>4. QED BY <1>1, <1>2, <1>4, <2>2, <2>3
<1>7. QED BY <1>5, <1>6

LEMMA AnswerStays ==
  ASSUME FilesOK, FilesOK', Undisturbed, ~Excused, NEW w \in Workers, Answer(w)
  PROVE  Undisturbed'
<1>1. pc[w] = "request" /\ pc' = [pc EXCEPT ![w] = "open"] /\ pc'[w] = "open"
      BY DEF Answer, At, Go, FilesOK, TypeOK
<1>2. OthersIdle(w)
      BY <1>1, AloneAtWork
<1>3. UNCHANGED <<version, etags, honours, partfile, dest, handle, happened>>
      BY DEF Answer, source, events
<1>4. PICK answer \in Answers(w) :
        /\ answer[1] # 416
        /\ mode' = [mode EXCEPT ![w] = ModeFor(answer[1], w)]
        /\ stream' = [stream EXCEPT ![w] = <<version, answer[2]>>]
      BY DEF Answer
<1>5. mode'[w] = ModeFor(answer[1], w) /\ stream'[w] = <<version, answer[2]>>
      BY <1>4 DEF FilesOK, TypeOK
<1>6. meta' = IF etags THEN version ELSE 0
      BY DEF Answer
<1>7. Trusted(version)'
      BY <1>3, <1>6 DEF Trusted, FilesOK, TypeOK
<1>8. ASSUME answer = <<200, 1>> PROVE AtOpen(w)'
      <2>1. mode'[w] = "wb" /\ stream'[w] = <<version, 1>>
            BY <1>5, <1>8 DEF ModeFor
      <2>2. Older
            BY <1>2, DiskIsOlder
      <2>3. Older'
            BY <1>3, <2>2 DEF Older, PrefixOf
      <2>4. AtOpen(w)'
            BY <1>3, <1>7, <2>1, <2>3 DEF AtOpen
      <2>5. QED BY <2>4
<1>9. ASSUME answer # <<200, 1>> PROVE AtOpen(w)'
      <2>1. /\ existing[w] > 0
            /\ ~(cached[w] # 0 /\ honours /\ cached[w] # version)
            /\ answer = <<206, existing[w] + 1>>
            BY <1>4, <1>9 DEF Answers
      <2>2. /\ PrefixOf(partfile, version) /\ existing[w] = Len(partfile)
            /\ cached[w] \in {0, version}
            BY <1>1, <2>1, RangeContinues
      <2>3. mode'[w] = "ab" /\ stream'[w] = <<version, Len(partfile) + 1>>
            BY <1>5, <2>1, <2>2 DEF ModeFor
      <2>4. AtOpen(w)'
            BY <1>3, <1>7, <2>2, <2>3 DEF AtOpen, PrefixOf
      <2>5. QED BY <2>4
<1>10. AtRequest(w)' /\ AtWrite(w)' /\ AtEnd(w)' /\ (Resting(w)' => Resumable')
      BY <1>1, <1>3 DEF AtRequest, AtWrite, AtEnd, Resting, Undisturbed
<1>11. QED BY <1>1, <1>2, <1>3, <1>6, <1>8, <1>9, <1>10, OneWorkersStep DEF Undisturbed

LEMMA NotSatisfiableStays ==
  ASSUME FilesOK, FilesOK', Undisturbed, ~Excused, NEW w \in Workers, NotSatisfiable(w)
  PROVE  Undisturbed'
<1>1. pc[w] = "request" /\ pc' = [pc EXCEPT ![w] = "hash"] /\ pc'[w] = "hash"
      BY DEF NotSatisfiable, At, Go, After416, FilesOK, TypeOK
<1>2. OthersIdle(w)
      BY <1>1, AloneAtWork
<1>3. UNCHANGED <<version, etags, honours, partfile, dest, meta, handle, happened>>
      BY DEF NotSatisfiable, source, disk, conn, events
<1>4. /\ existing[w] > 0 /\ existing[w] >= Size[version]
      /\ ~(cached[w] # 0 /\ honours /\ cached[w] # version)
      BY DEF NotSatisfiable, Answers
<1>5. PrefixOf(partfile, version) /\ existing[w] = Len(partfile)
      BY <1>1, <1>4, RangeContinues
<1>6. Len(partfile) = Size[version]
      <2>1. version \in Versions /\ Size[version] \in Nat /\ existing[w] \in Nat
            BY SizesOK DEF FilesOK, TypeOK
      <2>2. QED BY <1>4, <1>5, <2>1 DEF PrefixOf
<1>7. Complete
      <2>1. PICK v \in Versions : Trusted(v) /\ PrefixOf(partfile, v)
            BY <1>1, <1>2, <1>5, AskingIsResumable DEF Resting, Resumable, PrefixOf
      <2>2. Trusted(version)
            <3>1. CASE "change" \notin happened
                  BY <2>1, <3>1 DEF Trusted
            <3>2. CASE "change" \in happened
                  <4>1. etags /\ honours /\ "death" \notin happened
                        BY <3>2 DEF Excused
                  <4>2. cached[w] = meta /\ meta = v /\ v # 0
                        BY <1>1, <2>1, <4>1, SizesOK DEF Undisturbed, AtRequest, Trusted
                  <4>3. QED BY <1>4, <2>1, <4>1, <4>2
            <3>3. QED BY <3>1, <3>2
      <2>3. QED BY <1>5, <1>6, <2>2 DEF Complete, FilesOK, TypeOK
<1>8. Complete'
      BY <1>3, <1>7, KnownStays DEF source, disk
<1>9. handle'[w] = "none"
      BY <1>1, <1>3 DEF Undisturbed, AtEnd
<1>10. AtRequest(w)' /\ AtOpen(w)' /\ AtWrite(w)' /\ AtEnd(w)' /\ (Resting(w)' => Resumable')
      BY <1>1, <1>8, <1>9 DEF AtRequest, AtOpen, AtWrite, AtEnd, Resting
<1>11. QED BY <1>1, <1>2, <1>3, <1>10, OneWorkersStep DEF Undisturbed

LEMMA OpenStays ==
  ASSUME FilesOK, FilesOK', Undisturbed, NEW w \in Workers, Open(w)
  PROVE  Undisturbed'
<1>1. pc[w] = "open" /\ pc' = [pc EXCEPT ![w] = "write"] /\ pc'[w] = "write"
      BY DEF Open, At, Go, FilesOK, TypeOK
<1>2. OthersIdle(w)
      BY <1>1, AloneAtWork
<1>3. /\ UNCHANGED <<version, etags, honours, dest, meta, stream, mode, happened>>
      /\ handle' = [handle EXCEPT ![w] = "part"] /\ pos' = [pos EXCEPT ![w] = 1]
      BY DEF Open, source, events
<1>4. handle'[w] = "part" /\ pos'[w] = 1 /\ \A k \in Workers \ {w} : handle'[k] = handle[k]
      BY <1>3 DEF FilesOK, TypeOK
<1>5. partfile' = IF mode[w] = "wb" \/ partfile = NoFile THEN <<>> ELSE partfile
      BY DEF Open
<1>6. AtOpen(w) /\ mode[w] \in {"wb", "ab"} /\ stream[w][1] \in Versions
      BY DEF Undisturbed, FilesOK, TypeOK
<1>7. Trusted(stream[w][1]) /\ Trusted(stream[w][1])'
      BY <1>1, <1>3, <1>6 DEF AtOpen, Trusted
<1>8. ASSUME mode[w] = "wb" PROVE AtWrite(w)'
      <2>1. partfile' = <<>> /\ Len(partfile') = 0 /\ stream[w][2] = 1
            BY <1>1, <1>5, <1>6, <1>8 DEF AtOpen
      <2>2. PrefixOf(partfile', stream[w][1])
            BY <1>6, <2>1, EmptyPrefix
      <2>3. QED BY <1>3, <1>4, <1>7, <2>1, <2>2 DEF AtWrite, PrefixOf
<1>9. ASSUME mode[w] = "ab" PROVE AtWrite(w)'
      <2>1. PrefixOf(partfile, stream[w][1]) /\ stream[w][2] = Len(partfile) + 1
            BY <1>1, <1>6, <1>9 DEF AtOpen
      <2>2. partfile' = partfile
            BY <1>5, <1>9, <2>1 DEF PrefixOf
      <2>3. QED BY <1>3, <1>4, <1>7, <1>9, <2>1, <2>2 DEF AtWrite, PrefixOf
<1>10. AtWrite(w)'
      BY <1>6, <1>8, <1>9
<1>11. AtRequest(w)' /\ AtOpen(w)' /\ AtEnd(w)' /\ (Resting(w)' => Resumable')
      BY <1>1 DEF AtRequest, AtOpen, AtEnd, Resting
<1>12. QED BY <1>1, <1>2, <1>3, <1>4, <1>10, <1>11, OneWorkersStep DEF Undisturbed

LEMMA WriteBlockStays ==
  ASSUME FilesOK, FilesOK', Undisturbed, NEW w \in Workers, WriteBlock(w)
  PROVE  Undisturbed'
<1> DEFINE v == stream[w][1]
           n == Len(partfile) + 1
<1>1. pc[w] = "write" /\ pc' = pc /\ pc' = [pc EXCEPT ![w] = pc'[w]] /\ pc'[w] = "write"
      BY DEF WriteBlock, At, FilesOK, TypeOK
<1>2. OthersIdle(w)
      BY <1>1, AloneAtWork
<1>3. /\ handle[w] = "part" /\ Trusted(v) /\ PrefixOf(partfile, v) /\ stream[w][2] = n
      /\ mode[w] = "wb" => pos[w] = n
      BY <1>1 DEF Undisturbed, AtWrite
<1>4. UNCHANGED <<version, etags, honours, meta, mode, handle, happened>>
      BY DEF WriteBlock, source, events
<1>5. /\ stream' = [stream EXCEPT ![w] = <<stream[w][1], stream[w][2] + 1>>]
      /\ pos' = [pos EXCEPT ![w] = pos[w] + 1]
      BY DEF WriteBlock
<1>6. stream'[w] = <<v, n + 1>> /\ pos'[w] = pos[w] + 1
      BY <1>3, <1>5 DEF FilesOK, TypeOK
<1>7. dest' = dest /\ partfile' = Put(w, partfile) /\ n <= Size[v]
      BY <1>3 DEF WriteBlock
<1>8. partfile \in Files /\ v \in Versions /\ stream[w] = <<v, n>>
      BY <1>3 DEF PrefixOf, FilesOK, TypeOK
<1>9. partfile' = Written(partfile, n, <<v, n>>)
      BY <1>3, <1>7, <1>8 DEF Put, FilesOK, TypeOK
<1>10. PrefixOf(partfile', v) /\ Len(partfile') = n
      BY <1>3, <1>7, <1>8, <1>9, LongerPrefix
<1>11. Trusted(v)'
      BY <1>3, <1>4, <1>6 DEF Trusted
<1>12. AtWrite(w)'
      BY <1>3, <1>4, <1>6, <1>10, <1>11 DEF AtWrite, Trusted, PrefixOf
<1>13. AtRequest(w)' /\ AtOpen(w)' /\ AtEnd(w)' /\ (Resting(w)' => Resumable')
      BY <1>1 DEF AtRequest, AtOpen, AtEnd, Resting
<1>14. QED BY <1>1, <1>2, <1>4, <1>7, <1>12, <1>13, OneWorkersStep DEF Undisturbed

LEMMA EndOfFileStays ==
  ASSUME FilesOK, FilesOK', Undisturbed, NEW w \in Workers, EndOfFile(w)
  PROVE  Undisturbed'
<1> DEFINE v == stream[w][1]
<1>1. pc[w] = "write" /\ pc' = [pc EXCEPT ![w] = "hash"] /\ pc'[w] = "hash"
      BY DEF EndOfFile, Closes, At, Go, FilesOK, TypeOK
<1>2. OthersIdle(w)
      BY <1>1, AloneAtWork
<1>3. Trusted(v) /\ PrefixOf(partfile, v) /\ stream[w][2] = Len(partfile) + 1
      BY <1>1 DEF Undisturbed, AtWrite
<1>4. /\ UNCHANGED <<source, disk, happened>>
      /\ UNCHANGED <<version, dest, meta>>
      /\ handle' = [handle EXCEPT ![w] = "none"]
      BY DEF EndOfFile, Closes, events, source, disk
<1>5. handle'[w] = "none" /\ \A k \in Workers \ {w} : handle'[k] = handle[k]
      BY <1>4 DEF FilesOK, TypeOK
<1>6. Len(partfile) = Size[v]
      <2>1. Len(partfile) \in Nat /\ v \in Versions /\ Size[v] \in Nat
            <3>1. partfile \in Files
                  BY <1>3 DEF PrefixOf, FilesOK, TypeOK
            <3>2. v \in Versions
                  BY <1>3 DEF Trusted
            <3>3. QED BY <3>1, <3>2, SizesOK DEF Files
      <2>2. Len(partfile) + 1 > Size[v]
            BY <1>3 DEF EndOfFile
      <2>3. QED BY <1>3, <2>1, <2>2 DEF PrefixOf
<1>7. Complete'
      <2>1. Complete
            BY <1>3, <1>6 DEF Complete, Trusted
      <2>2. QED BY <1>4, <2>1, KnownStays
<1>8. AtRequest(w)' /\ AtOpen(w)' /\ AtWrite(w)' /\ AtEnd(w)' /\ (Resting(w)' => Resumable')
      BY <1>1, <1>5, <1>7 DEF AtRequest, AtOpen, AtWrite, AtEnd, Resting
<1>9. QED BY <1>1, <1>2, <1>4, <1>5, <1>8, OneWorkersStep DEF Undisturbed

LEMMA HashStays ==
  ASSUME FilesOK, FilesOK', Undisturbed, NEW w \in Workers, Hash(w)
  PROVE  Undisturbed'
<1> DEFINE next == IF partfile = NoFile THEN "failing" ELSE "unlink"
<1>1. pc[w] = "hash" /\ pc' = [pc EXCEPT ![w] = next] /\ pc'[w] = next
      BY DEF Hash, At, Go, FilesOK, TypeOK
<1>2. OthersIdle(w)
      BY <1>1, AloneAtWork
<1>3. UNCHANGED <<version, partfile, dest, meta, handle>> /\ UNCHANGED <<source, disk, happened>>
      BY DEF Hash, source, disk, conn, events
<1>4. Complete'
      BY <1>1, <1>3, KnownStays DEF Undisturbed, AtEnd
<1>5. handle'[w] = "none"
      BY <1>1, <1>3 DEF Undisturbed, AtEnd
<1>6. AtRequest(w)' /\ AtOpen(w)' /\ AtWrite(w)' /\ AtEnd(w)'
      BY <1>1, <1>4, <1>5 DEF AtRequest, AtOpen, AtWrite, AtEnd
<1>7. Resting(w)' => Resumable'
      BY <1>1, <1>3 DEF Resting, Resumable
<1>8. QED BY <1>1, <1>2, <1>3, <1>6, <1>7, OneWorkersStep DEF Undisturbed

LEMMA UnlinkDestStays ==
  ASSUME FilesOK, FilesOK', Undisturbed, NEW w \in Workers, UnlinkDest(w)
  PROVE  Undisturbed'
<1>1. pc[w] = "unlink" /\ pc' = [pc EXCEPT ![w] = "rename"] /\ pc'[w] = "rename"
      BY DEF UnlinkDest, At, Go, FilesOK, TypeOK
<1>2. OthersIdle(w)
      BY <1>1, AloneAtWork
<1>3. /\ UNCHANGED <<version, etags, honours, partfile, meta, happened>>
      /\ dest' = NoFile
      BY DEF UnlinkDest, source, events
<1>4. \A k \in Workers : handle[k] = "none"
      BY <1>1, <1>2 DEF Undisturbed, AtEnd, OthersIdle
<1>5. \A k \in Workers : handle'[k] = "none"
      BY <1>4 DEF UnlinkDest, Unlinked
<1>6. Complete'
      <2>1. Complete
            BY <1>1 DEF Undisturbed, AtEnd
      <2>2. QED BY <1>3, <2>1 DEF Complete, Trusted, PrefixOf
<1>7. AtRequest(w)' /\ AtOpen(w)' /\ AtWrite(w)' /\ AtEnd(w)' /\ (Resting(w)' => Resumable')
      BY <1>1, <1>5, <1>6 DEF AtRequest, AtOpen, AtWrite, AtEnd, Resting
<1>8. QED BY <1>1, <1>2, <1>3, <1>4, <1>5, <1>7, OneWorkersStep DEF Undisturbed

LEMMA RenameStays ==
  ASSUME FilesOK, FilesOK', Undisturbed, NEW w \in Workers, Rename(w)
  PROVE  Undisturbed'
<1> DEFINE next == IF partfile = NoFile THEN "failing" ELSE "unmeta"
<1>1. pc[w] = "rename" /\ pc' = [pc EXCEPT ![w] = next] /\ pc'[w] = next
      BY DEF Rename, At, Go, FilesOK, TypeOK
<1>2. OthersIdle(w)
      BY <1>1, AloneAtWork
<1>3. UNCHANGED <<version, etags, honours, meta, happened>> /\ partfile' = NoFile
      BY DEF Rename, source, events
<1>4. \A k \in Workers : handle[k] = "none"
      BY <1>1, <1>2 DEF Undisturbed, AtEnd, OthersIdle
<1>5. \A k \in Workers : handle'[k] = "none"
      BY <1>4 DEF Rename, Replaced, Unlinked
<1>6. dest' # NoFile => Whole(dest')
      <2>1. CASE partfile = NoFile
            BY <2>1 DEF Rename, Undisturbed
      <2>2. CASE partfile # NoFile
            <3>1. dest' = partfile /\ partfile \in Files
                  BY <2>2 DEF Rename, FilesOK, TypeOK
            <3>2. PICK v \in Versions : PrefixOf(partfile, v) /\ Len(partfile) = Size[v]
                  BY <1>1, <2>2 DEF Undisturbed, AtEnd, Complete
            <3>3. QED BY <3>1, <3>2, WholePrefix
      <2>3. QED BY <2>1, <2>2
<1>7. AtRequest(w)' /\ AtOpen(w)' /\ AtWrite(w)' /\ AtEnd(w)' /\ (Resting(w)' => Resumable')
      BY <1>1, <1>3, <1>5 DEF AtRequest, AtOpen, AtWrite, AtEnd, Resumable
<1>8. QED BY <1>1, <1>2, <1>3, <1>4, <1>5, <1>6, <1>7, OneWorkersStep DEF Undisturbed

\* Where a worker leaves the function, what it leaves on the disk has to be good to go on from.
LEMMA StopStays ==
  ASSUME FilesOK, FilesOK', Undisturbed, NEW w \in Workers, pc[w] # "idle", Stops(w),
         "change" \notin happened' => meta' \in {0, version'},
         Resumable', dest' # NoFile => Whole(dest')
  PROVE  Undisturbed'
<1>1. pc' = [pc EXCEPT ![w] = "idle"] /\ pc'[w] = "idle"
      BY DEF Stops, FilesOK, TypeOK
<1>2. OthersIdle(w)
      BY AloneAtWork
<1>3. handle'[w] = "none" /\ \A k \in Workers \ {w} : handle'[k] = handle[k]
      BY DEF Stops, FilesOK, TypeOK
<1>4. AtRequest(w)' /\ AtOpen(w)' /\ AtWrite(w)' /\ AtEnd(w)'
      BY <1>1, <1>3 DEF AtRequest, AtOpen, AtWrite, AtEnd
<1>5. QED BY <1>1, <1>2, <1>3, <1>4, OneWorkersStep

LEMMA UnlinkMetaStays ==
  ASSUME FilesOK, FilesOK', Undisturbed, NEW w \in Workers, UnlinkMeta(w)
  PROVE  Undisturbed'
<1>1. pc[w] = "unmeta" /\ Stops(w) /\ meta' = 0
      BY DEF UnlinkMeta, At
<1>2. UNCHANGED <<version, partfile, dest, happened>>
      BY DEF UnlinkMeta, source, events
<1>3. partfile' = NoFile
      BY <1>1, <1>2 DEF Undisturbed, AtEnd
<1>4. Resumable'
      BY <1>3 DEF Resumable
<1>5. QED BY <1>1, <1>2, <1>4, StopStays DEF Undisturbed

LEMMA FailsStays ==
  ASSUME FilesOK, FilesOK', Undisturbed, NEW w \in Workers, Fails(w)
  PROVE  Undisturbed'
<1>1. pc[w] = "failing" /\ Stops(w)
      BY DEF Fails, FailJob, At
<1>2. UNCHANGED <<source, disk, happened>> /\ UNCHANGED <<version, dest, meta>>
      BY DEF Fails, FailJob, events, source, disk
<1>3. Resumable
      BY <1>1, AloneAtWork, AskingIsResumable DEF Resting
<1>4. Resumable'
      BY <1>2, <1>3, KnownStays
<1>5. QED BY <1>1, <1>2, <1>4, StopStays DEF Undisturbed

LEMMA BreaksStays ==
  ASSUME FilesOK, FilesOK', Undisturbed, NEW w \in Workers, Breaks(w)
  PROVE  Undisturbed'
<1>1. pc[w] \in {"request", "write"} /\ Stops(w)
      BY DEF Breaks, FailJob, At
<1>2. /\ UNCHANGED <<version, etags, honours, partfile, dest, meta>>
      /\ happened' = happened \cup {"error"}
      BY DEF Breaks, FailJob, Happens, source, disk
<1>3. Resumable
      <2>1. CASE pc[w] = "request"
            BY <2>1, AloneAtWork, AskingIsResumable DEF Resting
      <2>2. CASE pc[w] = "write"
            BY <2>2 DEF Undisturbed, AtWrite, Resumable, Trusted
      <2>3. QED BY <1>1, <2>1, <2>2
<1>4. Resumable'
      BY <1>2, <1>3 DEF Resumable, Trusted, PrefixOf
<1>5. QED BY <1>1, <1>2, <1>4, StopStays DEF Undisturbed

LEMMA DiesStays ==
  ASSUME FilesOK, FilesOK', Undisturbed, ~Excused', NEW w \in Workers, Dies(w)
  PROVE  Undisturbed'
<1>1. pc[w] # "idle" /\ Stops(w)
      BY DEF Dies, At
<1>2. /\ UNCHANGED <<version, etags, honours, partfile, dest, meta>>
      /\ happened' = happened \cup {"death"}
      BY DEF Dies, Happens, source, disk
<1>3. "change" \notin happened' /\ "change" \notin happened /\ "death" \in happened'
      BY <1>2 DEF Excused
<1>4. Older
      BY <1>1, AloneAtWork, DiskIsOlder
<1>5. Resumable'
      BY <1>2, <1>3, <1>4 DEF Older, Resumable, Trusted, PrefixOf
<1>6. QED BY <1>1, <1>2, <1>3, <1>5, StopStays DEF Undisturbed

LEMMA SourceChangesStays ==
  ASSUME FilesOK, Undisturbed, SourceChanges
  PROVE  Undisturbed'
<1>1. /\ UNCHANGED <<etags, honours, partfile, dest, meta, pc, existing, cached, stream, mode,
                     handle, pos>>
      /\ happened' = happened \cup {"change"}
      BY DEF SourceChanges, Happens, disk, asked, conn
<1>2. "change" \in happened' /\ ("death" \notin happened' <=> "death" \notin happened)
      BY <1>1
<1>3. \A v : Trusted(v) => Trusted(v)'
      BY <1>1, <1>2 DEF Trusted
<1>4. Older => Older'
      BY <1>1, <1>2 DEF Older, PrefixOf
<1>5. Resumable => Resumable'
      BY <1>1, <1>3 DEF Resumable, PrefixOf
<1>6. Complete => Complete'
      BY <1>1, <1>3 DEF Complete, PrefixOf
<1>7. Alone' /\ ((\A w \in Workers : Resting(w)') => Resumable') /\ (dest' # NoFile => Whole(dest'))
      BY <1>1, <1>5 DEF Undisturbed, Alone, Resting
<1>8. ASSUME NEW w \in Workers PROVE AtRequest(w)' /\ AtOpen(w)' /\ AtWrite(w)' /\ AtEnd(w)'
      <2>1. AtRequest(w)'
            BY <1>1 DEF Undisturbed, AtRequest, PartSize
      <2>2. AtOpen(w)'
            BY <1>1, <1>3, <1>4 DEF Undisturbed, AtOpen, PrefixOf
      <2>3. AtWrite(w)'
            BY <1>1, <1>3 DEF Undisturbed, AtWrite, PrefixOf
      <2>4. AtEnd(w)'
            BY <1>1, <1>6 DEF Undisturbed, AtEnd
      <2>5. QED BY <2>1, <2>2, <2>3, <2>4
<1>9. QED BY <1>2, <1>7, <1>8 DEF Undisturbed

-----------------------------------------------------------------------------
(* The theorem.                                                            *)

LEMMA TransferStep == FilesOK /\ FilesOK' /\ TransferInv /\ [Next]_vars => TransferInv'
<1> SUFFICES ASSUME FilesOK, FilesOK', Undisturbed, [Next]_vars, ~Excused'
             PROVE  Undisturbed'
    BY ExcusedStays DEF TransferInv
<1>1. ~Excused
      BY ExcusedStays
<1>2. ASSUME NEW w \in Workers, Step(w) PROVE Undisturbed'
      BY <1>1, <1>2, StartStays, AnswerStays, NotSatisfiableStays, OpenStays, WriteBlockStays,
         EndOfFileStays, HashStays, UnlinkDestStays, RenameStays, UnlinkMetaStays, FailsStays
         DEF Step
<1>3. ASSUME NEW w \in Workers, Breaks(w) \/ EndsEarly(w) \/ Dies(w) PROVE Undisturbed'
      <2>1. ~EndsEarly(w)
            BY DEF EndsEarly, Happens, Excused
      <2>2. QED BY <1>3, <2>1, BreaksStays, DiesStays
<1>4. ASSUME UNCHANGED vars PROVE Undisturbed'
      BY <1>4 DEF vars, source, disk, asked, conn, job, events, Undisturbed, Alone, Resting,
                  Resumable, AtRequest, AtOpen, AtWrite, AtEnd, Older, Complete, Trusted, PrefixOf,
                  PartSize
<1>5. ASSUME SweepGivesUp PROVE Undisturbed'
      BY <1>5 DEF SweepGivesUp, source, disk, asked, conn, events, Undisturbed, Alone, Resting,
                  Resumable, AtRequest, AtOpen, AtWrite, AtEnd, Older, Complete, Trusted,
                  PrefixOf, PartSize
<1>6. QED BY <1>2, <1>3, <1>4, <1>5, SourceChangesStays DEF Next

LEMMA TransferInit == Init => TransferInv
<1> SUFFICES ASSUME Init PROVE Undisturbed
    BY DEF TransferInv
<1>1. Alone /\ Resumable /\ meta = 0 /\ dest = NoFile
      BY DEF Init, Alone, Resumable
<1>2. ASSUME NEW w \in Workers PROVE AtRequest(w) /\ AtOpen(w) /\ AtWrite(w) /\ AtEnd(w)
      BY DEF Init, AtRequest, AtOpen, AtWrite, AtEnd
<1>3. QED BY <1>1, <1>2 DEF Undisturbed

\* What download_with_resume renames to <dest> is one whole version of its source, however often
\* it was broken off and resumed, as long as none of the ways in which a download can go wrong
\* unnoticed has been taken.
THEOREM WholeCorrect == Spec => []DestinationIsWhole
<1>1. TransferInv => DestinationIsWhole
      BY DEF TransferInv, Undisturbed, DestinationIsWhole
<1>2. QED BY <1>1, FilesInit, FilesStep, TransferInit, TransferStep, PTL DEF Spec
===============================================================================
