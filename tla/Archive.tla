------------------------------ MODULE Archive ------------------------------
(***************************************************************************)
(* The algorithms on the files of a course: the volumes of its archive,    *)
(* the inventory of what was extracted, and the links its page has to the  *)
(* archive's parts.                                                        *)
(***************************************************************************)
EXTENDS Integers, SequencesExt, Orders

CONSTANTS
  Unnumbered,   \* a file or a link has no part number
  Root          \* the directory of the extraction, and its name

\* The chapter of the files that are in no directory.
FirstChapter == "first"

\* The extraction is into a directory that is named by the identifier of the course.
ASSUME ArchiveAssumption == Unnumbered \notin Nat /\ Root # FirstChapter

-----------------------------------------------------------------------------
(* group_and_verify_parts.  A volume is its part number, or Unnumbered.    *)

Numbers(volumes) == ToSet(volumes)

\* Mutant of Contiguous: the first number is not looked at.
MutantAnyFirst(sorted) == \A i \in DOMAIN sorted : sorted[i] = i + sorted[1] - 1

Contiguous(sorted) == sorted[1] = 1 /\ \A i \in DOMAIN sorted : sorted[i] = i

\* One file without a number makes the first file the whole archive, whatever the rest.
FirstVolume(volumes) ==
  IF volumes = <<>> THEN [ok |-> FALSE, volume |-> 0, parts |-> 0]
  ELSE IF Unnumbered \in Numbers(volumes) THEN [ok |-> TRUE, volume |-> 1, parts |-> 1]
  ELSE LET sorted == Ascending(Numbers(volumes)) IN
       [ok     |-> Contiguous(sorted),
        volume |-> SelectLastInSeq(volumes, LAMBDA n : n = 1),
        parts  |-> Len(sorted)]

\* Numbered volumes are accepted exactly if they are all there, from the first to the last;
\* the extraction starts at one with the number 1, and the count is the last number.
VolumesAreComplete(volumes) ==
  LET r == FirstVolume(volumes)
      N == Numbers(volumes)
  IN  Unnumbered \notin N =>
        /\ r.ok <=> (\E last \in N : N = 1..last)
        /\ r.ok => volumes[r.volume] = 1 /\ r.parts \in N /\ \A n \in N : n <= r.parts

-----------------------------------------------------------------------------
(* build_sealed_inventory.  The files are in the natural order of their    *)
(* paths; a file has the name of its directory, and is a video or not.     *)

ChapterOf(dir) == IF dir = Root THEN FirstChapter ELSE dir

\* Mutant of NextNumber: lessons are numbered within their chapter.
MutantPerChapter(state, c) ==
  Cardinality({n \in 1..state.counter :
                 \E i \in DOMAIN state.chapters :
                   state.chapters[i].title = c /\ n \in ToSet(state.chapters[i].lessons)}) + 1

\* lesson_counter: lessons are numbered through the whole course.
NextNumber(state, c) == state.counter

\* A lesson is appended to its chapter, which is made when it first appears.
WithLesson(chapters, c, n) ==
  IF \E i \in DOMAIN chapters : chapters[i].title = c
  THEN [i \in DOMAIN chapters |->
          IF chapters[i].title = c THEN [chapters[i] EXCEPT !.lessons = Append(@, n)]
          ELSE chapters[i]]
  ELSE Append(chapters, [title |-> c, lessons |-> <<n>>])

\* A video becomes a lesson of its directory's chapter.
AddFile(state, file) ==
  LET c == ChapterOf(file.dir) IN
  IF ~file.video THEN state
  ELSE [chapters |-> WithLesson(state.chapters, c, NextNumber(state, c)),
        counter  |-> state.counter + 1]

\* The loop over the files.
Scanned(files) ==
  LET state[n \in 0..Len(files)] ==
        IF n = 0 THEN [chapters |-> <<>>, counter |-> 1] ELSE AddFile(state[n - 1], files[n])
  IN  state[Len(files)]

\* An archive without a video raises CorruptArchiveException.
Inventory(files) ==
  LET chapters == Scanned(files).chapters IN [ok |-> chapters # <<>>, chapters |-> chapters]

\* There is an inventory exactly if there is a video.  Lesson n is the n-th video of the
\* archive, and is in the chapter of its directory, and there alone; directories of one name
\* share a chapter.  Chapters are in the order of their first lessons, and lessons in the
\* order of their paths.
InventoryIsSealed(files) ==
  LET I == Inventory(files).chapters
      videos == At(files, Ascending({i \in DOMAIN files : files[i].video}))
  IN  /\ Inventory(files).ok <=> \E i \in DOMAIN files : files[i].video
      /\ \A n \in DOMAIN videos : \E c \in DOMAIN I :
           /\ I[c].title = ChapterOf(videos[n].dir)
           /\ \A d \in DOMAIN I : n \in ToSet(I[d].lessons) <=> d = c
      /\ \A c \in DOMAIN I :
           /\ I[c].title # Root
           /\ \A i \in DOMAIN I[c].lessons : I[c].lessons[i] \in DOMAIN videos
           /\ \A i, j \in DOMAIN I[c].lessons : i < j => I[c].lessons[i] < I[c].lessons[j]
           /\ \A d \in 1..c - 1 : Head(I[d].lessons) < Head(I[c].lessons)

-----------------------------------------------------------------------------
(* The archive links of a course page: each has a URL, and a part number   *)
(* in it or none.                                                          *)

\* Mutant of PartNumber: a link without a number counts as the first part.
MutantFirst(links, i) == IF links[i].number = Unnumbered THEN 1 ELSE links[i].number

\* A link without a number has its position, among all links of the page.
PartNumber(links, i) == IF links[i].number = Unnumbered THEN i ELSE links[i].number

\* A URL is taken where it is first seen; parts are sorted by number, and keep their order.
PartLinks(links) ==
  LET fresh == {i \in DOMAIN links : \A k \in 1..i - 1 : links[k].url # links[i].url}
      order == SortedBy([i \in fresh |-> PartNumber(links, i)], fresh)
  IN  [k \in DOMAIN order |->
         [url |-> links[order[k]].url, number |-> PartNumber(links, order[k])]]

\* Every URL becomes one part; and if all links have numbers, or none has, different URLs
\* have different parts, unless two name the same: a part is then not taken for another.
PartsAreDistinct(links) ==
  LET P == PartLinks(links)
      named == {i \in DOMAIN links : links[i].number # Unnumbered}
      clash == \E i, j \in named : links[i].number = links[j].number /\ links[i].url # links[j].url
  IN  /\ {P[k].url : k \in DOMAIN P} = {links[i].url : i \in DOMAIN links}
      /\ \A i, j \in DOMAIN P : i < j => P[i].url # P[j].url /\ P[i].number <= P[j].number
      /\ named \in {{}, DOMAIN links} /\ ~clash =>
           \A i, j \in DOMAIN P : i # j => P[i].number # P[j].number
=============================================================================
