---------------------------- MODULE MCAlgorithms ----------------------------
(***************************************************************************)
(* The algorithms of Ranges, Dubbing, Archive, Taxonomy and Relay on every *)
(* input of a bounded size: each state is one input of one of them.        *)
(***************************************************************************)
EXTENDS Ranges, Dubbing, Archive, Taxonomy, Relay

CONSTANTS
  Names, Words, \* names of categories and tags, and words that stand for a topic
  Urls,         \* URLs of links
  Dirs,         \* names of directories
  PartNumbers,  \* numbers in the names of files and links
  Starts,       \* times at which speech should begin
  Pauses,       \* times between two lines, negative if they overlap
  Lengths,      \* lengths of lines
  Sounds,       \* how long speech lasts, and plays
  MaxSize,      \* bound: the bytes of a file, and of a chunk that is read
  MaxLength,    \* bound: the elements of a sequence
  MaxList,      \* bound: the categories, and the keywords
  MaxTags,      \* bound: the tags that exist
  MaxPieces,    \* bound: the pieces of speech
  MaxKeys,      \* bound: the API keys
  MaxModels     \* bound: the models

ASSUME BoundsAssumption ==
  /\ PartNumbers \subseteq Nat /\ Lengths \subseteq Nat
  /\ Sounds \subseteq [length : Nat, plays : Nat]
  /\ Starts \subseteq Int /\ Pauses \subseteq Int
  /\ MaxSize \in Nat /\ MaxLength \in Nat /\ MaxList \in Nat /\ MaxTags \in Nat
  /\ MaxPieces \in Nat
  /\ MaxKeys \in Nat /\ MaxModels \in Nat

VARIABLE input  \* the input, a record with the algorithm it is for

ShortPauses == {-1, 1, 2}
EarlyAndLate == {-1, 2, 3, 6}

\* Speech at the engine's rate, made for a lower and for a higher rate, and missing.
FourSounds ==
  {[length |-> 2, plays |-> 2], [length |-> 3, plays |-> 2], [length |-> 2, plays |-> 3],
   [length |-> 0, plays |-> 0]}

\* Two words stand for a topic.
TwoTriggers == <<[word |-> "w1", topic |-> "n1"], [word |-> "w2", topic |-> "n2"]>>

UpTo(S, n) == UNION {[1..k -> S] : k \in 0..n}

For(algorithm) == input.for = algorithm

Init == input = [for |-> "none"]

AskRange ==
  \E size, actual \in 0..MaxSize, chunk \in 1..MaxSize,
     h \in [form : Forms, m : 0..MaxSize + 1, n : -1..MaxSize + 1] :
    input' = [for |-> "range", size |-> size, actual |-> actual, chunk |-> chunk, h |-> h]

\* Lines follow each other with an overlap, a short or a long pause.
Laid(shapes) ==
  LET end[n \in 0..Len(shapes)] ==
        IF n = 0 THEN 1 ELSE end[n - 1] + shapes[n].pause + shapes[n].length
  IN  [n \in DOMAIN shapes |->
         [start |-> end[n - 1] + shapes[n].pause, end |-> end[n], text |-> shapes[n].text]]

GiveLines ==
  \E shapes \in UpTo([pause : Pauses, length : Lengths, text : {"blank", "open", "ended"}],
                     MaxLength) :
    input' = [for |-> "lines", lines |-> Laid(shapes)]

PieceOf(shape) ==
  [start |-> shape.start, length |-> shape.sound.length, plays |-> shape.sound.plays,
   slip |-> shape.slip]

GivePieces ==
  \E shapes \in UpTo([start : Starts, sound : Sounds, slip : BOOLEAN], MaxPieces) :
    input' = [for |-> "pieces", pieces |-> [k \in DOMAIN shapes |-> PieceOf(shapes[k])]]

Speak ==
  \E keys \in 1..MaxKeys, models \in 1..MaxModels :
    \E index \in 0..keys - 1, works \in SUBSET ((0..models - 1) \X (0..keys - 1)) :
      input' = [for |-> "speech", index |-> index, models |-> models, keys |-> keys,
                works |-> works]

GiveVolumes ==
  \E volumes \in UpTo(PartNumbers \cup {Unnumbered}, MaxLength) :
    input' = [for |-> "volumes", volumes |-> volumes]

GiveFiles ==
  \E files \in UpTo([dir : Dirs \cup {Root}, video : BOOLEAN], MaxLength) :
    input' = [for |-> "files", files |-> files]

GiveLinks ==
  \E links \in UpTo([url : Urls, number : PartNumbers \cup {Unnumbered}], MaxLength) :
    input' = [for |-> "links", links |-> links]

GiveCourse ==
  \E corpus \in SUBSET (Names \cup Words),
     cats \in UpTo([name : Names, synonyms : SUBSET Words], MaxList) :
    \E title \in {""} \cup (Names \cap corpus) :
      input' = [for |-> "course", corpus |-> corpus, title |-> title, cats |-> cats]

GiveTags ==
  \E corpus \in SUBSET (Names \cup Words), existing \in UpTo(Names, MaxTags),
     keywords \in UpTo([name : Names, words : {{w} : w \in Words}], MaxList) :
    input' = [for |-> "tags", corpus |-> corpus, existing |-> existing, keywords |-> keywords]

GiveChain ==
  \E chain \in UpTo({"answer", "redirect", "nowhere", "forbidden"}, MaxLength) :
    input' = [for |-> "chain", chain |-> chain]

Next ==
  /\ For("none")
  /\ \/ AskRange \/ GiveLines \/ GivePieces \/ Speak \/ GiveVolumes \/ GiveFiles \/ GiveLinks
     \/ GiveCourse \/ GiveTags \/ GiveChain

Spec == Init /\ [][Next]_input

-----------------------------------------------------------------------------
(* Each algorithm has its property on each of its inputs.                  *)

\* The gateway answers with exactly the bytes a Range header asks for (handle_range_request),
\* and streams as many as it announced, unless the file has shrunk (stream_file_range).
RangesExact ==
  For("range") => /\ RangeIsExact(input.size, input.h)
                  /\ StreamIsExact(input.size, input.actual, input.h, input.chunk)

\* Subtitles become whole sentences (group_segments_into_sentences).
SentencesWhole == For("lines") => SentencesAreWhole(input.lines)

\* Speech is laid out in time, to a sample for each piece, without overlaps
\* (assemble_audio_segments).
SpeechInTime == For("pieces") => SpeechKeepsTime(input.pieces)

\* Keys that work take turns, and the first model that works speaks (synthesize_voice).
TurnsTaken ==
  For("speech") => KeysTakeTurns(input.index, input.models, input.keys, input.works)

\* A multipart archive is extracted only if it is complete (group_and_verify_parts).
VolumesComplete == For("volumes") => VolumesAreComplete(input.volumes)

\* The inventory has every video once, in order (build_sealed_inventory).
InventorySealed == For("files") => InventoryIsSealed(input.files)

\* The links of a page become distinct parts (parse_course_details).
PartsDistinct == For("links") => PartsAreDistinct(input.links)

\* Categories are reused before they are proposed, and tags are distinct and as many as the
\* limits allow (_match_or_propose_category, _select_tags).
TaxonomyResolved ==
  /\ For("course") => CategoriesAreReused(input.corpus, input.title, input.cats)
  /\ For("tags") => TagsAreChosen(input.corpus, input.existing, input.keywords)

\* An answer behind few enough redirects is relayed (relay_stream).
AnswersRelayed == For("chain") => AnswersAreRelayed(input.chain)
=============================================================================
