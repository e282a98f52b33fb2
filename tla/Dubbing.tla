------------------------------ MODULE Dubbing ------------------------------
(***************************************************************************)
(* The algorithms of the dubbing engine: how subtitle lines become         *)
(* sentences, how the spoken sentences are laid out in time, and which     *)
(* model and API key speak a sentence.                                     *)
(*                                                                         *)
(* A line of subtitles has a start, an end and a text, which is "blank",   *)
(* "open", or "ended" by a full stop.  Times are numbers of ticks, of      *)
(* which a sample has Sample.                                              *)
(***************************************************************************)
EXTENDS Integers, SequencesExt, Orders

CONSTANTS
  MaxDuration,  \* max_duration of a sentence
  MaxGap,       \* max_gap between its lines
  Sample        \* 1 / sample_rate

ASSUME DubbingAssumption == MaxDuration \in Nat /\ MaxGap \in Nat /\ Sample \in Nat \ {0}

-----------------------------------------------------------------------------
(* group_segments_into_sentences.                                          *)

Ended(line) == line.text = "ended"

\* Mutant of Breaks: the duration of the group as it is, without the line.
MutantPastDuration(group, line) ==
  \/ Ended(Last(group))
  \/ line.start - Last(group).end > MaxGap
  \/ Last(group).end - Head(group).start > MaxDuration

\* A line does not continue the group before it.
Breaks(group, line) ==
  \/ Ended(Last(group))
  \/ line.start - Last(group).end > MaxGap
  \/ line.end - Head(group).start > MaxDuration

\* The loop's body, on the finished groups and the current one.
AddLine(st, line) ==
  LET breaks == st.group # <<>> /\ Breaks(st.group, line)
      done   == IF breaks THEN Append(st.done, st.group) ELSE st.done
      group  == IF breaks THEN <<line>> ELSE Append(st.group, line)
  IN  IF line.text = "blank" THEN st
      ELSE IF Ended(line) THEN [done |-> Append(done, group), group |-> <<>>]
      ELSE [done |-> done, group |-> group]

\* The finished groups and the current one, after all lines.
Grouped(lines) ==
  LET st[n \in 0..Len(lines)] ==
        IF n = 0 THEN [done |-> <<>>, group |-> <<>>] ELSE AddLine(st[n - 1], lines[n])
  IN  st[Len(lines)]

Sentences(lines) ==
  LET st == Grouped(lines)
  IN  IF st.group = <<>> THEN st.done ELSE Append(st.done, st.group)

\* Only the last line of a sentence ends it, no gap within it is too long, and it is too
\* long only if it is one line.
Whole(s) ==
  /\ s # <<>>
  /\ \A i \in 1..Len(s) - 1 : ~Ended(s[i]) /\ s[i + 1].start - s[i].end <= MaxGap
  /\ \A i \in 2..Len(s) : s[i].end - s[1].start <= MaxDuration

\* s could not have had the first line of t too.
Parted(s, t) ==
  \/ Ended(s[Len(s)])
  \/ t[1].start - s[Len(s)].end > MaxGap
  \/ t[1].end - s[1].start > MaxDuration

\* The sentences are the lines that have a text, in their order, none lost and none twice,
\* and are whole; and no sentence could have had the next line too.
SentencesAreWhole(lines) ==
  LET S == Sentences(lines)
      texts == {i \in DOMAIN lines : lines[i].text # "blank"}
  IN  /\ FlattenSeq(S) = At(lines, Ascending(texts))
      /\ \A k \in DOMAIN S : Whole(S[k])
      /\ \A k \in 1..Len(S) - 1 : Parted(S[k], S[k + 1])

-----------------------------------------------------------------------------
(* assemble_audio_segments.  A piece of speech has a start; a length, by   *)
(* which the clock moves on; the time that its samples play at the         *)
(* engine's rate, which is another if they were made for another rate      *)
(* (both are 0 if the file is missing, and a file that cannot be read is   *)
(* copied as if it had the engine's rate); and whether the silence before  *)
(* it slips, see below.                                                    *)

\* Pieces are sorted by start; those that start together keep their order.
InTime(pieces) ==
  At(pieces, SortedBy([i \in DOMAIN pieces |-> pieces[i].start], DOMAIN pieces))

\* A piece that should begin before the video does begins with it.
Begin(piece) == Max({0, piece.start})

\* Mutant of Gap: the gap before a piece is as long as its start says.
MutantPads(now, piece) == Begin(piece)

\* The time from now to the start of the piece, if that is still to come.
Gap(now, piece) == Max({0, Begin(piece) - now})

\* int() keeps the whole samples of a gap; a gap of whole samples can be one sample short,
\* where its length in floating point is a little less.
Silence(gap, slip) ==
  gap - (gap % Sample) - (IF slip /\ gap > 0 /\ gap % Sample = 0 THEN Sample ELSE 0)

\* current_time_sec after each number of pieces: the gap counts in full.
Clock(P) ==
  LET now[k \in 0..Len(P)] ==
        IF k = 0 THEN 0 ELSE now[k - 1] + Gap(now[k - 1], P[k]) + P[k].length
  IN  now

\* The silence that is written before piece k.
Pause(P, k) == Silence(Gap(Clock(P)[k - 1], P[k]), P[k].slip)

\* The sums of the first elements of a sequence.
Sums(s) == LET sum[k \in 0..Len(s)] == IF k = 0 THEN 0 ELSE sum[k - 1] + s[k] IN  sum

\* What is written with each number of pieces.
Written(P) == Sums([k \in DOMAIN P |-> Pause(P, k) + P[k].plays])

\* Where each piece is heard in the assembled file.
Assemble(pieces) ==
  LET P == InTime(pieces)
  IN  [k \in DOMAIN P |-> Written(P)[k - 1] + Pause(P, k)]

\* The speech in each number of pieces, as it was spoken and as it is played.
Speech(P) == Sums([k \in DOMAIN P |-> P[k].length])
Played(P) == Sums([k \in DOMAIN P |-> P[k].plays])

\* No piece is heard over another.  A piece is due at its start, or when the speech before it
\* is over: the delay of one that is too long is passed on until the pauses have made up for
\* it.  It is heard when it is due, moved by what the pieces before it play longer or shorter
\* than they last, and at most a sample earlier for each piece up to it.
SpeechKeepsTime(pieces) ==
  LET P == InTime(pieces)
      at == Assemble(pieces)
      due(k) == Max({Begin(P[i]) + (Speech(P)[k - 1] - Speech(P)[i - 1]) : i \in 1..k})
      moved(k) == Played(P)[k] - Speech(P)[k]
  IN  \A k \in DOMAIN P :
        /\ k > 1 => P[k].start >= P[k - 1].start /\ at[k] >= at[k - 1] + P[k - 1].plays
        /\ due(k) + moved(k - 1) - at[k] \in 0..k * Sample

-----------------------------------------------------------------------------
(* synthesize_voice, of one sentence that is not cached.                   *)

\* The keys are tried from the current one on, for one model after the other.
Attempts(index, models, keys) ==
  [i \in 1..models * keys |->
     [model |-> (i - 1) \div keys, key |-> (index + ((i - 1) % keys)) % keys]]

\* Mutant of Advance: the index moves on by one.
MutantByOne(index, attempt, keys) == (index + 1) % keys

\* The next sentence begins with the key after the one that spoke.
Advance(index, attempt, keys) == (index + attempt + 1) % keys

\* Models and keys that do not work now are the complement of works.
Synthesize(index, models, keys, works) ==
  LET A == Attempts(index, models, keys)
      i == SelectInSeq(A, LAMBDA a : <<a.model, a.key>> \in works)
  IN  IF i = 0 THEN [ok |-> FALSE, model |-> 0, key |-> 0, index |-> index]
      ELSE [ok |-> TRUE, model |-> A[i].model, key |-> A[i].key,
            index |-> Advance(index, (i - 1) % keys, keys)]

\* One sentence after the other.
InARow(index, models, keys, works) ==
  LET spoken[c \in 0..keys] ==
        IF c = 0 THEN [ok |-> FALSE, model |-> 0, key |-> 0, index |-> index]
        ELSE Synthesize(spoken[c - 1].index, models, keys, works)
  IN  spoken

\* A sentence is spoken if any model works with any key, by the first model that does; and
\* the keys take turns: as many sentences in a row as a model has keys that work are spoken
\* with different keys.
KeysTakeTurns(index, models, keys, works) ==
  LET spoken == InARow(index, models, keys, works)
      first == spoken[1]
      good  == {k \in 0..keys - 1 : <<first.model, k>> \in works}
  IN  /\ first.ok <=> works # {}
      /\ first.ok => /\ <<first.model, first.key>> \in works
                     /\ \A w \in works : w[1] >= first.model
                     /\ {spoken[c].key : c \in 1..Cardinality(good)} = good
=============================================================================
