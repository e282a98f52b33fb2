-------------------------- MODULE AlgorithmsProofs --------------------------
(***************************************************************************)
(* The algorithms, on every input: the invariants of MCAlgorithms, for all *)
(* bounds and all values of the constants.  Each rests on a lemma that has *)
(* the property of the algorithm for any input of its type.                *)
(***************************************************************************)
EXTENDS MCAlgorithms, AlgorithmLemmas

-----------------------------------------------------------------------------
(* Relay: redirects.                                                       *)

Responses == {"answer", "redirect", "nowhere", "forbidden"}

\* The redirect loop has a result for each number of hops.
LEMMA FollowLoop ==
  ASSUME RelayAssumption, NEW chain \in Seq(Responses)
  PROVE  \E after :
           /\ after = [hops \in 0..MaxHops + 1 |->
                LET r == Response(chain, hops + 1) IN
                IF ~Follows(hops) THEN [passes |-> hops, open |-> FALSE]
                ELSE IF r = "forbidden" THEN [passes |-> 0, open |-> FALSE]
                ELSE IF r = "redirect" THEN after[hops + 1]
                ELSE [passes |-> hops + 1, open |-> TRUE]]
<1> DEFINE M == MaxHops + 1
           S == [passes : Nat, open : BOOLEAN]
           step(hops, next) ==
             IF ~Follows(hops) THEN [passes |-> hops, open |-> FALSE]
             ELSE IF Response(chain, hops + 1) = "forbidden" THEN [passes |-> 0, open |-> FALSE]
             ELSE IF Response(chain, hops + 1) = "redirect" THEN next
             ELSE [passes |-> hops + 1, open |-> TRUE]
           F == [p \in (1..M) \X S |-> step(M - p[1], p[2])]
           s0 == [passes |-> M, open |-> FALSE]
<1>1. M \in Nat
      BY DEF RelayAssumption
<1>2. s0 \in S
      BY <1>1
<1>3. ASSUME NEW hops \in 0..M, NEW next \in S PROVE step(hops, next) \in S
      OBVIOUS
<1>4. F \in [(1..M) \X S -> S]
  <2>1. ASSUME NEW p \in (1..M) \X S PROVE step(M - p[1], p[2]) \in S
    <3>1. M - p[1] \in 0..M /\ p[2] \in S
          BY <1>1
    <3> HIDE DEF step, S
    <3>2. QED BY <1>3, <3>1
  <2> HIDE DEF step, S
  <2>2. QED BY <2>1
<1>5. PICK g \in [0..M -> S] : Recursive(g, F, s0, M)
  <2> HIDE DEF F, S, s0, M, step
  <2>1. QED BY <1>1, <1>2, <1>4, Recursion
<1> DEFINE after == [hops \in 0..M |-> g[M - hops]]
<1>6. ASSUME NEW hops \in 0..M PROVE after[hops] = step(hops, after[hops + 1])
  <2> HIDE DEF step
  <2>1. CASE hops = M
    <3>1. ~Follows(hops)
          BY <2>1, <1>1 DEF Follows, RelayAssumption
    <3>2. after[hops] = s0
          BY <1>1, <1>5, <2>1 DEF Recursive
    <3>3. QED BY <2>1, <3>1, <3>2 DEF step
  <2>2. CASE hops \in 0..M - 1
    <3>1. M - hops \in 1..M /\ (M - hops) - 1 = M - (hops + 1) /\ hops + 1 \in 0..M
          BY <1>1, <2>2
    <3>2. g[M - hops] = F[<<M - hops, g[M - (hops + 1)]>>]
      <4>1. g[M - hops] = F[<<M - hops, g[(M - hops) - 1]>>]
        <5> HIDE DEF F, s0, S, M
        <5>1. QED BY <1>5, <3>1 DEF Recursive
      <4> HIDE DEF F, s0, S, M
      <4>2. QED BY <3>1, <4>1
    <3>3. g[M - (hops + 1)] \in S /\ M - (M - hops) = hops
          BY <1>1, <3>1
    <3>4. F[<<M - hops, g[M - (hops + 1)]>>] = step(hops, g[M - (hops + 1)])
      <4> HIDE DEF S
      <4>1. QED BY <3>1, <3>3
    <3> HIDE DEF F
    <3>5. QED BY <3>1, <3>2, <3>4
  <2>3. QED BY <1>1, <2>1, <2>2
<1>7. after = [hops \in 0..M |-> step(hops, after[hops + 1])]
  <2>1. after = [hops \in 0..M |-> after[hops]]
        OBVIOUS
  <2> HIDE DEF after, step
  <2>2. QED BY <1>6, <2>1
<1>8. QED BY <1>7

\* The relay passes on the first answer, or the last redirect it may follow.
LEMMA ChainIsRelayed ==
  ASSUME RelayAssumption, NEW chain \in Seq(Responses)
  PROVE  AnswersAreRelayed(chain)
<1> DEFINE L == Len(chain) + 1
           isFirst(n) == /\ Response(chain, n) # "redirect"
                         /\ \A k \in 1..n - 1 : chain[k] = "redirect"
           first == CHOOSE n \in 1..L : isFirst(n)
<1>1. Len(chain) \in Nat /\ DOMAIN chain = 1..Len(chain)
      OBVIOUS
<1>2. first \in 1..L /\ isFirst(first)
  <2> DEFINE T == {n \in 1..L : Response(chain, n) # "redirect"}
  <2>1. L \in T
        BY <1>1 DEF Response
  <2>2. T \in SUBSET Nat
        BY <1>1
  <2>3. PICK n \in T : \A k \in T : n <= k
    <3> HIDE DEF T
    <3>1. QED BY <2>1, <2>2, LeastNumber
  <2>4. ASSUME NEW k \in 1..n - 1 PROVE chain[k] = "redirect"
    <3>1. k \notin T /\ k \in 1..L /\ k \in 1..Len(chain)
          BY <1>1, <2>3
    <3>2. QED BY <1>1, <3>1 DEF Response
  <2>5. \E m \in 1..L : isFirst(m)
        BY <2>3, <2>4
  <2> HIDE DEF isFirst
  <2>6. QED BY <2>5
<1> DEFINE after == CHOOSE after :
              after = [hops \in 0..MaxHops + 1 |->
                LET r == Response(chain, hops + 1) IN
                IF ~Follows(hops) THEN [passes |-> hops, open |-> FALSE]
                ELSE IF r = "forbidden" THEN [passes |-> 0, open |-> FALSE]
                ELSE IF r = "redirect" THEN after[hops + 1]
                ELSE [passes |-> hops + 1, open |-> TRUE]]
<1>3. after = [hops \in 0..MaxHops + 1 |->
                LET r == Response(chain, hops + 1) IN
                IF ~Follows(hops) THEN [passes |-> hops, open |-> FALSE]
                ELSE IF r = "forbidden" THEN [passes |-> 0, open |-> FALSE]
                ELSE IF r = "redirect" THEN after[hops + 1]
                ELSE [passes |-> hops + 1, open |-> TRUE]]
      BY FollowLoop
<1>4. Follow(chain) = after[0]
      BY DEF Follow
<1> HIDE DEF after, first
<1> DEFINE outcome == IF first > MaxHops THEN [passes |-> MaxHops, open |-> FALSE]
                      ELSE IF Response(chain, first) = "forbidden"
                        THEN [passes |-> 0, open |-> FALSE]
                        ELSE [passes |-> first, open |-> TRUE]
           T == {h \in 0..MaxHops : h < first => after[h] = outcome}
<1>5. MaxHops \in Nat \ {0}
      BY DEF RelayAssumption
<1>6. MaxHops \in T
      BY <1>2, <1>3, <1>5 DEF Follows
<1>7. ASSUME NEW h \in 0..MaxHops - 1, h + 1 \in T PROVE h \in T
  <2>1. SUFFICES ASSUME h < first PROVE after[h] = outcome
        BY <1>5
  <2>2. h \in 0..MaxHops + 1 /\ Follows(h) /\ h + 1 \in 1..first
        BY <1>2, <1>5, <2>1 DEF Follows
  <2>3. CASE h + 1 = first
    <3>1. Response(chain, h + 1) # "redirect"
          BY <1>2, <2>3
    <3>2. ~(first > MaxHops)
          BY <1>5, <2>3
    <3>3. QED BY <1>3, <2>2, <2>3, <3>1, <3>2
  <2>4. CASE h + 1 # first
    <3>1. h + 1 < first /\ h + 1 \in 1..first - 1 /\ h + 1 \in 1..Len(chain)
          BY <1>1, <1>2, <1>5, <2>2, <2>4
    <3>2. Response(chain, h + 1) = "redirect"
          BY <1>1, <1>2, <3>1 DEF Response
    <3>3. after[h] = after[h + 1]
          BY <1>3, <2>2, <3>2
    <3>4. QED BY <1>7, <3>1, <3>3
  <2>5. QED BY <2>3, <2>4
<1>8. 0 \in T
  <2> HIDE DEF T
  <2>1. QED BY <1>5, <1>6, <1>7, Downward
<1>9. after[0] = outcome
      BY <1>2, <1>8
<1>10. first > MaxHops => chain[MaxHops] = "redirect"
      BY <1>2, <1>5
<1>11. QED
  <2> DEFINE r == after[0]
  <2>1. first \in Nat
        BY <1>1, <1>2
  <2>2. /\ r.passes <= MaxHops
        /\ first <= MaxHops /\ Response(chain, first) # "forbidden" =>
             r.passes = first /\ r.open
        /\ r.open => r.passes = first
        /\ first > MaxHops => r.passes = MaxHops /\ chain[r.passes] = "redirect"
        BY <1>5, <1>9, <1>10, <2>1
  <2>3. first = CHOOSE n \in 1..L : isFirst(n)
        BY DEF first
  <2> HIDE DEF outcome
  <2>4. QED BY <1>4, <2>2, <2>3 DEF AnswersAreRelayed

-----------------------------------------------------------------------------
(* Ranges: answers and streams.                                            *)

\* A slice lies within the file.
LEMMA SliceInFile ==
  ASSUME NEW size \in Nat, NEW h \in Headers, size # 0, ~Unsatisfiable(size, h)
  PROVE  /\ FirstByte(size, h) \in Nat /\ LastByte(size, h) \in Nat
         /\ FirstByte(size, h) <= LastByte(size, h) /\ LastByte(size, h) < size
<1>1. FirstByte(size, h) \in Int /\ FirstByte(size, h) >= 0
  BY DEF Headers, FirstByte, Larger
<1>2. LastByte(size, h) \in Int
  BY DEF Headers, LastByte
<1> QED
  BY <1>1, <1>2 DEF Unsatisfiable

\* A satisfiable range is the set of bytes that are asked for.
LEMMA SliceIsWanted ==
  ASSUME NEW size \in Nat, NEW h \in Headers, size # 0, h.form # "absent",
         ~Unsatisfiable(size, h)
  PROVE  FirstByte(size, h)..LastByte(size, h) = Wanted(size, h)
<1>1. h.m \in Nat /\ h.n \in Int /\ h.form \in Forms
  BY DEF Headers
<1>2. CASE h.form = "suffix"
  BY <1>1, <1>2 DEF Unsatisfiable, FirstByte, LastByte, Wanted, Larger
<1>3. CASE h.form = "open"
  BY <1>1, <1>3 DEF Unsatisfiable, FirstByte, LastByte, Wanted
<1>4. CASE h.form = "closed"
  BY <1>1, <1>4 DEF Unsatisfiable, FirstByte, LastByte, Wanted
<1>5. CASE h.form = "openless"
  BY <1>1, <1>5 DEF Unsatisfiable, FirstByte, LastByte, Wanted
<1> QED
  BY <1>1, <1>2, <1>3, <1>4, <1>5 DEF Forms, Unsatisfiable

\* An unsatisfiable range asks for no byte, ends beyond the file, or is malformed.
LEMMA UnsatisfiableIsEmpty ==
  ASSUME NEW size \in Nat, NEW h \in Headers, size # 0, h.form # "absent",
         Unsatisfiable(size, h)
  PROVE  \/ Wanted(size, h) = {}
         \/ h.form = "closed" /\ h.n >= size
         \/ h.form = "malformed"
<1>1. h.m \in Nat /\ h.n \in Int /\ h.form \in Forms
  BY DEF Headers
<1>2. CASE h.form = "suffix"
  BY <1>1, <1>2 DEF Unsatisfiable, FirstByte, LastByte, Wanted, Larger
<1>3. CASE h.form = "open"
  BY <1>1, <1>3 DEF Unsatisfiable, FirstByte, LastByte, Wanted
<1>4. CASE h.form = "closed"
  BY <1>1, <1>4 DEF Unsatisfiable, FirstByte, LastByte, Wanted
<1>5. CASE h.form = "openless"
  BY <1>1, <1>5 DEF Unsatisfiable, FirstByte, LastByte
<1> QED
  BY <1>1, <1>2, <1>3, <1>4, <1>5 DEF Forms

\* A Range header is answered with exactly the bytes it asks for (handle_range_request),
\* whatever the size of the file and the numbers in the header.
LEMMA AnswerIsExact ==
  ASSUME NEW size \in Nat, NEW h \in Headers
  PROVE  RangeIsExact(size, h)
<1> DEFINE a == Answer(size, h)
<1>1. CASE size = 0 \/ h.form = "absent"
  BY <1>1 DEF RangeIsExact, Answer
<1>2. CASE size # 0 /\ h.form # "absent" /\ Unsatisfiable(size, h)
  BY <1>2, UnsatisfiableIsEmpty DEF RangeIsExact, Answer
<1>3. CASE size # 0 /\ h.form # "absent" /\ ~Unsatisfiable(size, h)
  <2>1. a = [status |-> 206, start |-> FirstByte(size, h),
             length |-> LastByte(size, h) - FirstByte(size, h) + 1]
    BY <1>3 DEF Answer
  <2>2. a.length > 0 /\ a.start + a.length - 1 = LastByte(size, h)
    BY <1>3, <2>1, SliceInFile
  <2>3. a.start..a.start + a.length - 1 = Wanted(size, h)
    BY <1>3, <2>1, <2>2, SliceIsWanted
  <2> QED
    BY <2>1, <2>2, <2>3 DEF RangeIsExact
<1> QED
  BY <1>1, <1>2, <1>3

\* The loop streams all it should, or what there is from start on.
LEMMA StreamedIsAll ==
  ASSUME NEW size \in Nat, NEW start \in Nat, NEW length \in Nat, NEW chunk \in Nat \ {0}
  PROVE  Streamed(size, start, length, chunk) = Smaller(length, Larger(0, size - start))
<1> DEFINE M == length + chunk
           got(done) == Smaller(ReadSize(chunk, length - done), Larger(0, size - (start + done)))
           step(sent, done) == IF done >= length \/ got(done) = 0 THEN done
                               ELSE sent[done + got(done)]
           all == Smaller(length, Larger(0, size - start))
           total == [done \in 0..M |-> IF done >= all THEN done ELSE all]
<1>1. all \in 0..length /\ all \in 0..M /\ M \in Nat /\ length \in 0..M
      BY DEF Smaller, Larger
<1>2. ASSUME NEW done \in 0..M, ~(done >= length \/ got(done) = 0)
      PROVE  /\ done + got(done) \in 0..M /\ done + got(done) > done
             /\ done + got(done) <= all
      BY <1>2 DEF Smaller, Larger, ReadSize
<1>3. ASSUME NEW done \in 0..M, done >= length \/ got(done) = 0
      PROVE  done >= all
      BY <1>3 DEF Smaller, Larger, ReadSize
<1> HIDE DEF got, all, M
<1>4. ASSUME NEW done \in 0..M PROVE total[done] = step(total, done)
  <2>1. CASE done >= length \/ got(done) = 0
        BY <1>3, <2>1
  <2>2. CASE ~(done >= length \/ got(done) = 0)
    <3>1. done + got(done) \in 0..M /\ done + got(done) > done /\ done + got(done) <= all
          BY <1>2, <2>2
    <3>2. total[done] = all
          BY <1>1, <3>1
    <3>3. total[done + got(done)] = all
          BY <1>1, <3>1
    <3>4. QED BY <2>2, <3>2, <3>3
  <2>3. QED BY <2>1, <2>2
<1>5. total = [done \in 0..M |-> step(total, done)]
  <2>1. total = [done \in 0..M |-> total[done]]
        OBVIOUS
  <2> HIDE DEF total, step
  <2>2. QED BY <1>4, <2>1
<1> DEFINE sent == CHOOSE sent : sent = [done \in 0..M |-> step(sent, done)]
<1>6. sent = [done \in 0..M |-> step(sent, done)]
  <2> HIDE DEF total
  <2>1. QED BY <1>5
<1> HIDE DEF sent
<1> DEFINE T == {n \in 0..M : \A done \in n..M : sent[done] = total[done]}
<1>7. M \in T
  <2>1. M >= length /\ M >= all
        BY <1>1 DEF M
  <2>2. sent[M] = M /\ total[M] = M
        BY <1>1, <1>6, <2>1
  <2>3. QED BY <1>1, <2>2
<1>8. ASSUME NEW n \in 0..M - 1, n + 1 \in T PROVE n \in T
  <2>1. \A done \in n + 1..M : sent[done] = total[done]
        BY <1>8
  <2>2. n \in 0..M /\ sent[n] = step(sent, n) /\ total[n] = step(total, n)
    <3>1. n \in 0..M
          BY <1>1
    <3> HIDE DEF total, step
    <3>2. QED BY <1>4, <1>6, <3>1
  <2>3. sent[n] = total[n]
    <3>1. CASE n >= length \/ got(n) = 0
      <4> HIDE DEF total
      <4>1. QED BY <2>2, <3>1
    <3>2. CASE ~(n >= length \/ got(n) = 0)
      <4>1. n + got(n) \in n + 1..M
            BY <1>1, <1>2, <2>2, <3>2
      <4> HIDE DEF total
      <4>2. QED BY <2>1, <2>2, <3>2, <4>1
    <3>3. QED BY <3>1, <3>2
  <2>4. ASSUME NEW done \in n..M PROVE sent[done] = total[done]
    <3>1. done = n \/ done \in n + 1..M
          BY <1>1
    <3> HIDE DEF total
    <3>2. QED BY <2>1, <2>3, <3>1
  <2> HIDE DEF total
  <2>5. QED BY <2>2, <2>4
<1>9. 0 \in T
  <2> HIDE DEF T
  <2>1. 0..M \subseteq T
        BY <1>1, <1>7, <1>8, Downward
  <2>2. QED BY <1>1, <2>1
<1>10. sent[0] = total[0] /\ total[0] = all
      BY <1>1, <1>9
<1>11. Streamed(size, start, length, chunk) = sent[0]
      BY DEF Streamed, sent, got, M
<1>12. QED BY <1>10, <1>11 DEF all

\* The stream of an answer is as long as the answer said (stream_file_range).
LEMMA StreamKeepsWord ==
  ASSUME NEW size \in Nat, NEW actual \in Nat, NEW h \in Headers, NEW chunk \in Nat \ {0}
  PROVE  StreamIsExact(size, actual, h, chunk)
<1> DEFINE a == Answer(size, h)
<1>1. SUFFICES ASSUME a.status # 416
               PROVE  LET n == Streamed(actual, a.start, a.length, chunk)
                      IN  n <= a.length /\ (actual >= size => n = a.length)
      BY DEF StreamIsExact
<1>2. a.start \in Nat /\ a.length \in Nat /\ a.start + a.length <= size
  <2>1. CASE size = 0 \/ h.form = "absent"
        BY <2>1 DEF Answer
  <2>2. CASE ~(size = 0 \/ h.form = "absent")
    <3>1. ~Unsatisfiable(size, h)
          BY <1>1, <2>2 DEF Answer
    <3>2. a = [status |-> 206, start |-> FirstByte(size, h),
               length |-> LastByte(size, h) - FirstByte(size, h) + 1]
          BY <2>2, <3>1 DEF Answer
    <3> HIDE DEF a
    <3>3. QED BY <2>2, <3>1, <3>2, SliceInFile
  <2>3. QED BY <2>1, <2>2
<1> HIDE DEF a
<1>3. Streamed(actual, a.start, a.length, chunk)
        = Smaller(a.length, Larger(0, actual - a.start))
      BY <1>2, StreamedIsAll
<1>4. QED BY <1>2, <1>3 DEF Smaller, Larger

-----------------------------------------------------------------------------
(* Taxonomy: the category and the tags of a course.                        *)

\* A category of the text, or of a topic, is one of the categories; and none is missed.
LEMMA CategoryFound ==
  ASSUME NEW A, NEW cats \in Seq(A), NEW corpus, NEW topic
  PROVE  /\ Direct(corpus, cats) = 0 =>
              \A i \in DOMAIN cats : cats[i].name \notin corpus
         /\ Direct(corpus, cats) # 0 => Direct(corpus, cats) \in DOMAIN cats
         /\ ForTopic(cats, topic) = 0 => \A i \in DOMAIN cats : cats[i].name # topic
         /\ ForTopic(cats, topic) # 0 =>
              ForTopic(cats, topic) \in DOMAIN cats /\ cats[ForTopic(cats, topic)].name = topic
<1> DEFINE I == {i \in 1..Len(cats) :
                   cats[i].name \in corpus \/ cats[i].synonyms \cap corpus # {}}
           J == {i \in 1..Len(cats) : cats[i].name = topic}
<1>1. Len(cats) \in Nat /\ DOMAIN cats = 1..Len(cats)
      OBVIOUS
<1>2. /\ Direct(corpus, cats) = IF I # {} THEN Min(I) ELSE 0
      /\ ForTopic(cats, topic) = IF J # {} THEN Min(J) ELSE 0
      BY DEF Direct, ForTopic, SelectInSeq
<1>3. I \in SUBSET (1..Len(cats)) /\ J \in SUBSET (1..Len(cats))
      OBVIOUS
<1>4. /\ Direct(corpus, cats) = 0 <=> I = {}
      /\ Direct(corpus, cats) # 0 => Direct(corpus, cats) \in 1..Len(cats)
  <2> HIDE DEF I, J
  <2>1. QED BY <1>1, <1>2, <1>3, FirstPlace
<1>5. /\ ForTopic(cats, topic) = 0 <=> J = {}
      /\ ForTopic(cats, topic) # 0 => ForTopic(cats, topic) \in J
  <2> HIDE DEF I, J
  <2>1. QED BY <1>1, <1>2, <1>3, FirstPlace
<1>6. QED BY <1>1, <1>4, <1>5

\* What Category makes of the categories' names and the text.
Reused(c, names, corpus) ==
  \/ c.found = "existing" /\ c.name \in names /\ c.confidence \in {90, 95}
  \/ /\ names \cap corpus = {}
     /\ \/ c.found = "existing" /\ c.name \in names /\ c.confidence = 92
        \/ /\ c.found = "new" /\ c.name \notin names /\ AutoCreate
           /\ c.confidence \in {70, 85}
        \/ c.found = "none" /\ c.confidence = 40

\* Then it has reused them.
LEMMA ReusedFor ==
  ASSUME NEW corpus, NEW title, NEW cats, NEW c, c = Category(corpus, title, cats),
         NEW names, names = {cats[i].name : i \in DOMAIN cats},
         Reused(c, names, corpus)
  PROVE  CategoriesAreReused(corpus, title, cats)
<1> USE DEF Reused
<1>1. Status(c) = "RESOLVED" <=> c.found # "none"
  <2>1. CASE c.found = "none"
        BY <2>1 DEF Status
  <2>2. CASE c.found # "none"
    <3>1. ~(c.confidence < 65)
          BY <2>2
    <3>2. QED BY <2>2, <3>1 DEF Status
  <2>3. QED BY <2>1, <2>2
<1>2. c.found = "new" => c.name \notin names /\ AutoCreate
      OBVIOUS
<1>3. c.found = "existing" => c.name \in names
      OBVIOUS
<1>4. names \cap corpus # {} => c.found = "existing" /\ c.confidence \in {90, 95}
      OBVIOUS
<1>5. QED BY <1>1, <1>2, <1>3, <1>4, Zenon DEF CategoriesAreReused

\* A category is reused before it is proposed (_match_or_propose_category).
LEMMA CategoryIsReused ==
  ASSUME NEW A, NEW cats \in Seq(A), NEW corpus, NEW title \in {""} \cup corpus
  PROVE  CategoriesAreReused(corpus, title, cats)
<1> DEFINE c == Category(corpus, title, cats)
           names == {cats[i].name : i \in DOMAIN cats}
           i == Direct(corpus, cats)
           t == Trigger(corpus)
           topic == Triggers[t].topic
           j == ForTopic(cats, topic)
<1>1. CASE i # 0
  <2>1. c = [found |-> "existing", name |-> cats[i].name,
             confidence |-> IF cats[i].name \in corpus THEN 95 ELSE 90]
        BY <1>1 DEF Category, Existing
  <2>2. cats[i].name \in names
        BY <1>1, CategoryFound
  <2> HIDE DEF c, i, names
  <2>3. c.found = "existing" /\ c.name \in names /\ c.confidence \in {90, 95}
        BY <2>1, <2>2
  <2>4. QED BY <2>3, ReusedFor DEF c, names, Reused
<1>2. CASE i = 0
  <2>1. names \cap corpus = {}
    <3>1. \A k \in DOMAIN cats : cats[k].name \notin corpus
          BY <1>2, CategoryFound
    <3>2. QED BY <3>1
  <2>2. CASE c = FromTitle(title)
    <3>1. CASE AutoCreate /\ title # ""
      <4>1. c = [found |-> "new", name |-> title, confidence |-> 70] /\ title \notin names
            BY <2>1, <2>2, <3>1 DEF FromTitle, Proposed
      <4> HIDE DEF c, names
      <4>2. c.found = "new" /\ c.name \notin names /\ AutoCreate /\ c.confidence \in {70, 85}
            BY <3>1, <4>1
      <4>3. QED BY <2>1, <4>2, ReusedFor DEF c, names, Reused
    <3>2. CASE ~(AutoCreate /\ title # "")
      <4>1. c = [found |-> "none", name |-> "", confidence |-> 40]
            BY <2>2, <3>2 DEF FromTitle, NoCategory
      <4> HIDE DEF c, names
      <4>2. c.found = "none" /\ c.confidence = 40
            BY <4>1
      <4>3. c = Category(corpus, title, cats) /\ names = {cats[k].name : k \in DOMAIN cats}
            BY DEF c, names
      <4>4. Reused(c, names, corpus)
            BY <2>1, <4>2 DEF Reused
      <4>5. QED BY <4>3, <4>4, ReusedFor, Zenon
    <3>3. QED BY <3>1, <3>2
  <2>3. CASE c # FromTitle(title)
    <3>1. t # 0 /\ c = ByTopic(topic, cats, title)
          BY <1>2, <2>3 DEF Category
    <3>2. CASE j # 0
      <4>1. c = [found |-> "existing", name |-> cats[j].name, confidence |-> 92]
            BY <3>1, <3>2 DEF ByTopic, Existing
      <4>2. cats[j].name \in names
            BY <3>2, CategoryFound
      <4> HIDE DEF c, j, names
      <4>3. c.found = "existing" /\ c.name \in names /\ c.confidence = 92
            BY <4>1, <4>2
      <4>4. QED BY <2>1, <4>3, ReusedFor DEF c, names, Reused
    <3>3. CASE j = 0
      <4>1. AutoCreate /\ c = [found |-> "new", name |-> topic, confidence |-> 85]
            BY <2>3, <3>1, <3>3 DEF ByTopic, Proposed
      <4>2. topic \notin names
            BY <3>3, CategoryFound
      <4> HIDE DEF c, topic, names
      <4>3. c.found = "new" /\ c.name \notin names /\ AutoCreate /\ c.confidence \in {70, 85}
            BY <4>1, <4>2
      <4>4. QED BY <2>1, <4>3, ReusedFor DEF c, names, Reused
    <3>4. QED BY <3>2, <3>3
  <2>4. QED BY <2>2, <2>3
<1>3. QED BY <1>1, <1>2

\* What is offered as a tag, its name of A.
Offers(A) == [name : A, fits : BOOLEAN]

\* The names of the first n tags offered that fit.
Fitting(offered, n) == {offered[i].name : i \in {i \in 1..n : offered[i].fits}}

\* f has the tags after each turn of the loop over the tags offered.
TagRun(f, tags, offered) ==
  /\ f[0] = tags /\ f[Len(offered)] = TakeTags(tags, offered)
  /\ \A n \in 1..Len(offered) : f[n] = TakeTag(f[n - 1], offered[n])

\* The loop goes through such tags.
LEMMA TagLoop ==
  ASSUME NEW A, NEW offered \in Seq(Offers(A)), NEW tags \in Seq(A)
  PROVE  \E f \in [0..Len(offered) -> Seq(A)] : TagRun(f, tags, offered)
<1> DEFINE S == Seq(A)
           B == Offers(A)
           F == [p \in S \X B |-> TakeTag(p[1], p[2])]
           D == DOMAIN offered
<1>1. /\ Len(offered) \in Nat /\ D = 1..Len(offered)
      /\ \A n \in 1..Len(offered) : offered[n] \in B
      /\ offered \in Seq(B) /\ tags \in S
      OBVIOUS
<1>2. ASSUME NEW ts \in S, NEW o \in B PROVE TakeTag(ts, o) \in S
      BY DEF TakeTag, Offers
<1>3. F \in [S \X B -> S]
  <2>1. ASSUME NEW p \in S \X B PROVE TakeTag(p[1], p[2]) \in S
        BY <1>2
  <2> HIDE DEF S, B
  <2>2. QED BY <2>1
<1>4. ASSUME NEW ts \in S, NEW o \in B PROVE F[<<ts, o>>] = TakeTag(ts, o)
  <2> HIDE DEF S, B
  <2>1. QED OBVIOUS
<1>5. PICK g \in [SUBSET D -> S] : Folds(g, F, tags, offered)
  <2> HIDE DEF F, B
  <2>1. QED BY <1>1, <1>3, Folding
<1> HIDE DEF F, S, B
<1>6. ASSUME NEW s \in SUBSET D, s # {} PROVE Max(s) \in D /\ s \ {Max(s)} \in SUBSET D
  <2>1. s \in SUBSET (0..Len(offered))
        BY <1>1
  <2>2. QED BY <1>1, <1>6, <2>1, MaxIsGreatest
<1>7. g = [s \in SUBSET D |-> IF s = {} THEN tags
                              ELSE TakeTag(g[s \ {Max(s)}], offered[Max(s)])]
  <2> DEFINE h(s) == IF s = {} THEN tags ELSE TakeTag(g[s \ {Max(s)}], offered[Max(s)])
  <2>1. ASSUME NEW s \in SUBSET D PROVE g[s] = h(s)
    <3>1. CASE s = {}
          BY <1>5, <3>1 DEF Folds
    <3>2. CASE s # {}
      <4>1. g[s] = F[<<g[s \ {Max(s)}], offered[Max(s)]>>]
            BY <1>5, <3>2 DEF Folds
      <4>2. g[s \ {Max(s)}] \in S /\ offered[Max(s)] \in B
            BY <1>1, <1>6, <3>2
      <4>3. QED BY <1>4, <3>2, <4>1, <4>2
    <3>3. QED BY <3>1, <3>2
  <2>2. g = [s \in SUBSET D |-> g[s]]
        OBVIOUS
  <2> HIDE DEF h
  <2>3. g = [s \in SUBSET D |-> h(s)]
        BY <2>1, <2>2
  <2>4. QED BY <2>3 DEF h
<1> DEFINE iter == CHOOSE iter : iter =
             [s \in SUBSET D |-> IF s = {} THEN tags
                                 ELSE TakeTag(iter[s \ {Max(s)}], offered[Max(s)])]
<1>8. iter = [s \in SUBSET D |-> IF s = {} THEN tags
                                 ELSE TakeTag(iter[s \ {Max(s)}], offered[Max(s)])]
      BY <1>7
<1>9. TakeTags(tags, offered) = iter[D]
      BY DEF TakeTags, FoldLeft, MapThenFoldSet
<1> HIDE DEF iter
<1>10. iter[{}] = tags
       BY <1>8
<1>11. ASSUME NEW s \in SUBSET D, s # {}, iter[s \ {Max(s)}] \in S
       PROVE  iter[s] = F[<<iter[s \ {Max(s)}], offered[Max(s)]>>]
       BY <1>1, <1>4, <1>6, <1>8, <1>11
<1>12. PICK f \in [0..Len(offered) -> S] : Runs(f, F, tags, offered, iter[D])
  <2>1. tags \in S /\ FoldsWithin(S, iter, F, tags, offered)
        BY <1>10, <1>11 DEF S, FoldsWithin
  <2>2. QED BY <1>1, <1>3, <2>1, FoldIsRun
<1>13. ASSUME NEW n \in 1..Len(offered) PROVE f[n] = TakeTag(f[n - 1], offered[n])
  <2>1. f[n] = F[<<f[n - 1], offered[n]>>]
        BY <1>12 DEF Runs
  <2>2. n - 1 \in 0..Len(offered)
        BY <1>1
  <2>3. QED BY <1>1, <1>4, <2>1, <2>2
<1>14. QED BY <1>9, <1>12, <1>13 DEF Runs, S, TagRun

Distinct(s) == \A i, j \in 1..Len(s) : s[i] = s[j] => i = j

\* What a loop has made of tags once the tags offered that fit have had the names W: they are
\* all among the tags, or those are full.
Chosen(out, tags, W) ==
  /\ Distinct(out)
  /\ Len(tags) <= Len(out) /\ Len(out) <= TagCount
  /\ \A i \in 1..Len(tags) : out[i] = tags[i]
  /\ ToSet(out) \subseteq ToSet(tags) \cup W
  /\ Len(out) < TagCount => W \subseteq ToSet(out)

\* A turn of a loop.
LEMMA TagTurn ==
  ASSUME NEW A, NEW tags \in Seq(A), NEW ts \in Seq(A), NEW o \in Offers(A), NEW W,
         Chosen(ts, tags, W)
  PROVE  Chosen(TakeTag(ts, o), tags, W \cup (IF o.fits THEN {o.name} ELSE {}))
<1> DEFINE name == o.name
           out == TakeTag(ts, o)
           V == W \cup (IF o.fits THEN {name} ELSE {})
<1>1. /\ Len(ts) \in Nat /\ Len(tags) \in Nat /\ TagCount \in Nat \ {0}
      /\ name \in A /\ o.fits \in BOOLEAN
      BY TaxonomyAssumption DEF TaxonomyAssumption, Offers
<1>2. CASE Len(ts) < TagCount /\ o.fits /\ Unseen(ts, name)
  <2>1. out = Append(ts, name)
        BY <1>2 DEF TakeTag
  <2>2. /\ Len(out) = Len(ts) + 1 /\ out[Len(ts) + 1] = name
        /\ \A i \in 1..Len(ts) : out[i] = ts[i]
        /\ DOMAIN out = 1..Len(ts) + 1
        BY <2>1
  <2> HIDE DEF out
  <2>3. Distinct(out)
    <3>1. \A i \in 1..Len(ts) : ts[i] # name
          BY <1>2 DEF Unseen
    <3>2. \A i, j \in 1..Len(ts) : ts[i] = ts[j] => i = j
          BY DEF Chosen, Distinct
    <3>3. ASSUME NEW i \in 1..Len(ts) + 1, NEW j \in 1..Len(ts) + 1, out[i] = out[j]
          PROVE  i = j
      <4>1. (i \in 1..Len(ts) \/ i = Len(ts) + 1) /\ (j \in 1..Len(ts) \/ j = Len(ts) + 1)
            BY <1>1
      <4>2. QED BY <2>2, <3>1, <3>2, <3>3, <4>1
    <3>4. QED BY <2>2, <3>3 DEF Distinct
  <2>4. Len(tags) <= Len(out) /\ Len(out) <= TagCount
        BY <1>1, <1>2, <2>2 DEF Chosen
  <2>5. ASSUME NEW i \in 1..Len(tags) PROVE out[i] = tags[i]
    <3>1. i \in 1..Len(ts)
          BY <1>1 DEF Chosen
    <3>2. QED BY <2>2, <3>1 DEF Chosen
  <2>6. ToSet(out) = ToSet(ts) \cup {name}
    <3>1. ToSet(out) = {out[i] : i \in 1..Len(ts) + 1} /\ ToSet(ts) = {ts[i] : i \in 1..Len(ts)}
          BY <2>2 DEF ToSet
    <3>2. 1..Len(ts) + 1 = (1..Len(ts)) \cup {Len(ts) + 1}
          BY <1>1
    <3>3. QED BY <2>2, <3>1, <3>2
  <2>7. ToSet(out) \subseteq ToSet(tags) \cup V /\ (W \subseteq ToSet(ts) => V \subseteq ToSet(out))
        BY <1>2, <2>6 DEF Chosen
  <2>8. Len(out) < TagCount => W \subseteq ToSet(ts)
        BY <1>1, <1>2 DEF Chosen
  <2>9. Chosen(out, tags, V)
        BY <2>3, <2>4, <2>5, <2>7, <2>8 DEF Chosen
  <2>10. QED BY <2>9 DEF out
<1>3. CASE ~(Len(ts) < TagCount /\ o.fits /\ Unseen(ts, name))
  <2>1. out = ts
        BY <1>3 DEF TakeTag
  <2>2. Len(ts) < TagCount => V \subseteq ToSet(ts)
    <3>1. SUFFICES ASSUME Len(ts) < TagCount, o.fits PROVE name \in ToSet(ts)
          BY DEF Chosen
    <3>2. ~Unseen(ts, name)
          BY <1>3, <3>1
    <3>3. QED BY <3>2 DEF Unseen, ToSet
  <2> HIDE DEF out
  <2>3. QED BY <2>1, <2>2 DEF Chosen, out
<1>4. QED BY <1>2, <1>3

\* A loop over the tags offered.
LEMMA TagsTaken ==
  ASSUME NEW A, NEW offered \in Seq(Offers(A)), NEW tags \in Seq(A),
         Distinct(tags), Len(tags) <= TagCount,
         NEW out, out = TakeTags(tags, offered)
  PROVE  out \in Seq(A) /\ Chosen(out, tags, Fitting(offered, Len(offered)))
<1> DEFINE N == Len(offered)
<1>1. N \in Nat /\ DOMAIN offered = 1..N /\ \A n \in 1..N : offered[n] \in Offers(A)
      OBVIOUS
<1>2. PICK f \in [0..N -> Seq(A)] :
        f[0] = tags /\ out = f[N] /\ \A n \in 1..N : f[n] = TakeTag(f[n - 1], offered[n])
  <2>1. PICK f \in [0..N -> Seq(A)] : TagRun(f, tags, offered)
        BY TagLoop
  <2>2. QED BY <2>1 DEF TagRun
<1> DEFINE T == {n \in 0..N : Chosen(f[n], tags, Fitting(offered, n))}
<1>3. 0 \in T
  <2>1. Chosen(tags, tags, {})
        BY TaxonomyAssumption DEF Chosen, TaxonomyAssumption
  <2>2. Fitting(offered, 0) = {} /\ 0 \in 0..N
        BY <1>1 DEF Fitting
  <2>3. QED BY <1>2, <2>1, <2>2
<1>4. ASSUME NEW n \in 0..N - 1, n \in T PROVE n + 1 \in T
  <2>1. n \in 0..N /\ n + 1 \in 1..N /\ (n + 1) - 1 = n /\ n + 1 \in 0..N
        BY <1>1
  <2> DEFINE o == offered[n + 1]
  <2>2. f[n + 1] = TakeTag(f[n], o)
        BY <1>2, <2>1
  <2>3. f[n] \in Seq(A) /\ o \in Offers(A)
        BY <1>1, <2>1
  <2>4. Fitting(offered, n + 1) = Fitting(offered, n) \cup (IF o.fits THEN {o.name} ELSE {})
    <3>1. 1..n + 1 = (1..n) \cup {n + 1}
          BY <2>1
    <3>2. QED BY <3>1 DEF Fitting
  <2> HIDE DEF o
  <2>5. Chosen(f[n], tags, Fitting(offered, n))
        BY <1>4
  <2>6. Chosen(TakeTag(f[n], o), tags,
               Fitting(offered, n) \cup (IF o.fits THEN {o.name} ELSE {}))
        BY <2>3, <2>5, TagTurn, Zenon
  <2>7. QED BY <2>1, <2>2, <2>4, <2>6
<1>5. N \in T
  <2> HIDE DEF T, N
  <2>1. 0..N \subseteq T
        BY <1>1, <1>3, <1>4, Upward
  <2>2. QED BY <1>1, <2>1
<1>6. N \in 0..N
      BY <1>1
<1>7. QED BY <1>2, <1>5, <1>6

\* The tags of the text that exist, and the keywords it has.
OldNames(corpus, existing) == ToSet(existing) \cap (corpus \ Short)
NewNames(corpus, keywords) ==
  {k.name : k \in {k \in ToSet(keywords) : ({k.name} \cup k.words) \cap corpus # {}}}

\* All of offered fits exactly for the names.
Offered(offered, A, names) ==
  offered \in Seq(Offers(A)) /\ Fitting(offered, Len(offered)) = names

\* The tags of the text that exist are offered first, and then the keywords it has.
LEMMA OffersFit ==
  ASSUME NEW A, NEW W, NEW corpus, NEW existing \in Seq(A),
         NEW keywords \in Seq([name : A, words : W])
  PROVE  /\ Offered(OldTags(corpus, existing), A, OldNames(corpus, existing))
         /\ Offered(NewTags(corpus, keywords), A, NewNames(corpus, keywords))
         /\ IsFiniteSet(NewNames(corpus, keywords))
<1> DEFINE old == OldTags(corpus, existing)
           new == NewTags(corpus, keywords)
           fine(x) == x \in corpus \ Short
           has(k) == ({k.name} \cup k.words) \cap corpus # {}
           m == Len(existing)
           n == Len(keywords)
<1>1. /\ m \in Nat /\ DOMAIN existing = 1..m /\ \A i \in 1..m : existing[i] \in A
      /\ n \in Nat /\ DOMAIN keywords = 1..n
      /\ \A i \in 1..n : keywords[i].name \in A
  <2> DEFINE K == [name : A, words : W]
  <2>1. keywords \in Seq(K) /\ \A k \in K : k.name \in A
        OBVIOUS
  <2> HIDE DEF K
  <2>2. QED BY <2>1
<1>2. /\ old \in [1..m -> Offers(A)]
      /\ \A i \in 1..m : old[i].name = existing[i] /\ (old[i].fits = fine(existing[i]))
  <2>1. old = [i \in 1..m |-> [name |-> existing[i], fits |-> fine(existing[i])]]
        BY <1>1 DEF OldTags
  <2>2. \A x : fine(x) \in BOOLEAN
        OBVIOUS
  <2> HIDE DEF fine, old, m
  <2>3. \A i \in 1..m : old[i] = [name |-> existing[i], fits |-> fine(existing[i])]
        BY <2>1, Zenon
  <2>4. ASSUME NEW i \in 1..m
        PROVE  /\ old[i] \in Offers(A) /\ old[i].name = existing[i]
               /\ old[i].fits = fine(existing[i])
    <3> DEFINE x == existing[i]
               b == fine(x)
    <3>1. x \in A /\ b \in BOOLEAN /\ old[i] = [name |-> x, fits |-> b]
          BY <1>1, <2>2, <2>3 DEF m
    <3> HIDE DEF x, b
    <3>2. old[i] \in Offers(A) /\ old[i].name = x /\ old[i].fits = b
          BY <3>1 DEF Offers
    <3>3. QED BY <3>2 DEF x, b
  <2>5. QED BY <2>1, <2>4, Zenon
<1>3. /\ new \in [1..n -> Offers(A)]
      /\ \A i \in 1..n : new[i].name = keywords[i].name /\ (new[i].fits = has(keywords[i]))
  <2> DEFINE Has(k) == k.name \in corpus \/ k.words \cap corpus # {}
  <2>1. new = [i \in 1..n |-> [name |-> keywords[i].name, fits |-> Has(keywords[i])]]
        BY <1>1 DEF NewTags
  <2>2. \A k : Has(k) \in BOOLEAN /\ has(k) = Has(k)
        OBVIOUS
  <2> HIDE DEF has, Has, new, n
  <2>3. \A i \in 1..n : new[i] = [name |-> keywords[i].name, fits |-> Has(keywords[i])]
        BY <2>1, Zenon
  <2>4. ASSUME NEW i \in 1..n
        PROVE  /\ new[i] \in Offers(A) /\ new[i].name = keywords[i].name
               /\ new[i].fits = has(keywords[i])
    <3> DEFINE x == keywords[i].name
               b == Has(keywords[i])
    <3>1. x \in A /\ b \in BOOLEAN /\ new[i] = [name |-> x, fits |-> b]
          BY <1>1, <2>2, <2>3 DEF n
    <3> HIDE DEF x, b
    <3>2. new[i] \in Offers(A) /\ new[i].name = x /\ new[i].fits = b
          BY <3>1 DEF Offers
    <3>3. QED BY <2>2, <3>2 DEF x, b
  <2>5. QED BY <2>1, <2>4, Zenon
<1> HIDE DEF old, new
<1>4. old \in Seq(Offers(A)) /\ Len(old) = m /\ new \in Seq(Offers(A)) /\ Len(new) = n
  <2>1. m \in Nat /\ n \in Nat
        BY <1>1
  <2> HIDE DEF m, n
  <2>2. \A S, k, f : k \in Nat /\ f \in [1..k -> S] => f \in Seq(S) /\ Len(f) = k
        OBVIOUS
  <2>3. QED BY <1>2, <1>3, <2>1, <2>2
<1>5. Fitting(old, m) = OldNames(corpus, existing)
  <2>1. Fitting(old, m) = {old[i].name : i \in {i \in 1..m : old[i].fits}}
        BY DEF Fitting
  <2>2. ToSet(existing) = {existing[i] : i \in 1..m}
        BY <1>1 DEF ToSet
  <2> HIDE DEF m
  <2>3. {i \in 1..m : old[i].fits} = {i \in 1..m : existing[i] \in corpus \ Short}
        BY <1>2
  <2>4. QED BY <1>2, <2>1, <2>2, <2>3 DEF OldNames
<1>6. Fitting(new, n) = NewNames(corpus, keywords)
  <2>1. Fitting(new, n) = {new[i].name : i \in {i \in 1..n : new[i].fits}}
        BY DEF Fitting
  <2>2. ToSet(keywords) = {keywords[i] : i \in 1..n}
        BY <1>1 DEF ToSet
  <2>3. NewNames(corpus, keywords) = {k.name : k \in {k \in ToSet(keywords) : has(k)}}
        BY DEF NewNames
  <2> HIDE DEF n, has
  <2>4. {i \in 1..n : new[i].fits} = {i \in 1..n : has(keywords[i])}
        BY <1>3
  <2>5. QED BY <1>3, <2>1, <2>2, <2>3, <2>4
<1>7. IsFiniteSet(Fitting(new, n))
  <2> DEFINE names == [i \in 1..n |-> keywords[i].name]
  <2>1. names \in Seq(A) /\ Fitting(new, n) \subseteq ToSet(names)
        BY <1>1, <1>3 DEF Fitting, ToSet
  <2>2. IsFiniteSet(ToSet(names))
        BY <2>1, SetOfSequence
  <2>3. QED BY <2>1, <2>2, FS_Subset
<1>8. QED BY <1>4, <1>5, <1>6, <1>7 DEF Offered, old, new

\* The tags are distinct, of the text, and as many as the limits allow (_select_tags).
LEMMA TagsAreRight ==
  ASSUME NEW A, NEW corpus, NEW existing \in Seq(A),
         NEW W, NEW keywords \in Seq([name : A, words : W])
  PROVE  TagsAreChosen(corpus, existing, keywords)
<1> DEFINE old == OldNames(corpus, existing)
           new == NewNames(corpus, keywords)
           offers == OldTags(corpus, existing)
           more == NewTags(corpus, keywords)
           t1 == TakeTags(<<>>, offers)
           t2 == TakeTags(t1, more)
           m == IF Len(t2) > 8 THEN 8 ELSE Len(t2)
           T == SubSeq(t2, 1, m)
           limit == IF TagCount > 8 THEN 8 ELSE TagCount
<1>1. Tags(corpus, existing, keywords) = T
      BY DEF Tags
<1>2. TagCount \in Nat \ {0}
      BY TaxonomyAssumption DEF TaxonomyAssumption
<1>3. /\ offers \in Seq(Offers(A)) /\ Fitting(offers, Len(offers)) = old
       /\ more \in Seq(Offers(A)) /\ Fitting(more, Len(more)) = new /\ IsFiniteSet(new)
  <2>1. Offered(offers, A, old) /\ Offered(more, A, new) /\ IsFiniteSet(new)
        BY OffersFit
  <2> HIDE DEF offers, more, old, new
  <2>2. QED BY <2>1 DEF Offered
<1> HIDE DEF offers, more, old, new
<1>4. t1 \in Seq(A) /\ Chosen(t1, <<>>, old)
  <2>1. <<>> \in Seq(A) /\ Distinct(<<>>) /\ Len(<<>>) <= TagCount
        BY <1>2 DEF Distinct
  <2> HIDE DEF t1
  <2>2. t1 \in Seq(A) /\ Chosen(t1, <<>>, Fitting(offers, Len(offers)))
        BY <1>3, <2>1, TagsTaken DEF t1
  <2>3. QED BY <1>3, <2>2
<1> HIDE DEF t1
<1>5. t2 \in Seq(A) /\ Chosen(t2, t1, new)
  <2>1. Distinct(t1) /\ Len(t1) <= TagCount
        BY <1>4 DEF Chosen
  <2> HIDE DEF t2
  <2>2. t2 \in Seq(A) /\ Chosen(t2, t1, Fitting(more, Len(more)))
        BY <1>3, <1>4, <2>1, TagsTaken DEF t2
  <2>3. QED BY <1>3, <2>2
<1> HIDE DEF t2
<1>6. Len(t1) \in Nat /\ Len(t2) \in Nat /\ DOMAIN t1 = 1..Len(t1) /\ DOMAIN t2 = 1..Len(t2)
      BY <1>4, <1>5
<1>7. ToSet(t1) \subseteq old
  <2>1. ToSet(<<>>) = {}
        BY DEF ToSet
  <2>2. QED BY <1>4, <2>1 DEF Chosen
<1>8. ToSet(t1) \subseteq ToSet(t2)
      BY <1>5, <1>6 DEF Chosen, ToSet
<1>9. m \in 0..Len(t2) /\ m \in Nat
      BY <1>6
<1>10. T \in Seq(A) /\ Len(T) = m /\ DOMAIN T = 1..m /\ \A i \in 1..m : T[i] = t2[i]
  <2>1. \A i \in 1..m : t2[i] \in A
        BY <1>5, <1>6, <1>9
  <2> HIDE DEF m
  <2>2. Len(T) = (IF 1 <= m THEN m - 1 + 1 ELSE 0) /\ T \in Seq(A)
        BY <1>9, <2>1, SubSeqProperties
  <2>3. \A i \in 1..m - 1 + 1 : T[i] = t2[1 + i - 1]
        BY <1>9, <2>1, SubSeqProperties
  <2> HIDE DEF T
  <2>4. \A i \in 1..m : i \in 1..m - 1 + 1 /\ 1 + i - 1 = i
        BY <1>9
  <2>5. \A i \in 1..m : T[i] = t2[i]
        BY <2>3, <2>4
  <2>6. Len(T) = m
        BY <1>9, <2>2
  <2>7. QED BY <2>2, <2>5, <2>6
<1> HIDE DEF T
<1>11. ToSet(T) = {t2[i] : i \in 1..m}
       BY <1>10 DEF ToSet
<1>12. ToSet(T) \subseteq ToSet(t2) /\ ToSet(t2) \subseteq old \cup new
  <2>1. \A i \in 1..m : i \in 1..Len(t2)
        BY <1>6, <1>9
  <2>2. ToSet(T) \subseteq ToSet(t2)
        BY <1>6, <1>11, <2>1 DEF ToSet
  <2>3. QED BY <1>5, <1>7, <2>2 DEF Chosen
<1>13. Distinct(t2) /\ Distinct(T)
  <2>1. Distinct(t2)
        BY <1>5 DEF Chosen
  <2>2. \A i \in 1..m : i \in 1..Len(t2)
        BY <1>6, <1>9
  <2>3. QED BY <1>10, <2>1, <2>2 DEF Distinct
<1>14. Len(T) = Cardinality(ToSet(T)) /\ Cardinality(ToSet(t2)) = Len(t2)
       BY <1>5, <1>10, <1>13, DistinctCount DEF Distinct
<1>15. IsFiniteSet(old \cup new)
  <2>1. IsFiniteSet(ToSet(existing))
        BY SetOfSequence
  <2>2. IsFiniteSet(old)
        BY <2>1, FS_Subset DEF old, OldNames
  <2>3. QED BY <1>3, <2>2, FS_Union
<1>16. Len(t2) <= TagCount /\ (Len(t2) < TagCount => ToSet(t2) = old \cup new)
  <2>1. Len(t2) < TagCount => Len(t1) < TagCount
        BY <1>2, <1>5, <1>6 DEF Chosen
  <2>2. Len(t2) < TagCount => old \subseteq ToSet(t2) /\ new \subseteq ToSet(t2)
        BY <1>4, <1>5, <1>8, <2>1 DEF Chosen
  <2>3. Len(t2) <= TagCount
        BY <1>5 DEF Chosen
  <2>4. QED BY <1>12, <2>2, <2>3
<1>17. Len(T) = IF Cardinality(old \cup new) < limit THEN Cardinality(old \cup new) ELSE limit
  <2>1. Cardinality(old \cup new) \in Nat /\ Len(t2) <= Cardinality(old \cup new)
        BY <1>12, <1>14, <1>15, FS_Subset, FS_CardinalityType
  <2>2. Len(t2) < TagCount => Len(t2) = Cardinality(old \cup new)
        BY <1>14, <1>16
  <2>3. QED BY <1>2, <1>6, <1>10, <1>16, <2>1, <2>2
<1>18. ToSet(T) \subseteq old \/ old \subseteq ToSet(T)
  <2>1. CASE m <= Len(t1)
    <3>1. \A i \in 1..m : i \in 1..Len(t1) /\ t2[i] = t1[i]
          BY <1>5, <1>6, <1>9, <2>1 DEF Chosen
    <3>2. ToSet(T) \subseteq ToSet(t1)
          BY <1>6, <1>11, <3>1 DEF ToSet
    <3>3. QED BY <1>7, <3>2
  <2>2. CASE ~(m <= Len(t1))
    <3>1. Len(t1) < TagCount
          BY <1>2, <1>6, <1>9, <1>16, <2>2
    <3>2. old \subseteq ToSet(t1)
          BY <1>4, <3>1 DEF Chosen
    <3>3. \A i \in 1..Len(t1) : i \in 1..m /\ t2[i] = t1[i]
          BY <1>5, <1>6, <1>9, <2>2 DEF Chosen
    <3>4. ToSet(t1) \subseteq ToSet(T)
          BY <1>6, <1>11, <3>3 DEF ToSet
    <3>5. QED BY <3>2, <3>4
  <2>3. QED BY <2>1, <2>2
<1>19. ToSet(T) \subseteq old \cup new
       BY <1>12
<1> HIDE DEF limit
<1>20. QED
  BY <1>1, <1>14, <1>17, <1>18, <1>19, Zenon
     DEF TagsAreChosen, old, new, limit, OldNames, NewNames

-----------------------------------------------------------------------------
(* Archive: the volumes, the inventory and the links of a page.            *)

\* A set of numbers in order is 1, 2, 3... exactly if it is the numbers up to one of it.
LEMMA ContiguousNumbers ==
  ASSUME NEW S \in SUBSET Nat, IsFiniteSet(S), S # {}
  PROVE  /\ Contiguous(Ascending(S)) <=> \E last \in S : S = 1..last
         /\ Contiguous(Ascending(S)) => S = 1..Cardinality(S)
         /\ Len(Ascending(S)) = Cardinality(S)
<1> DEFINE s == Ascending(S)
           N == Cardinality(S)
           below(x) == Cardinality({y \in S : y < x})
<1>1. N \in Nat /\ N # 0
      BY FS_CardinalityType, FS_EmptySet
<1>2. Ascends(s, S)
      BY AscendingAscends
<1> HIDE DEF s
<1>3. /\ s \in [1..N -> S] /\ DOMAIN s = 1..N
      /\ \A x \in S : below(x) + 1 \in 1..N /\ s[below(x) + 1] = x
      BY <1>2 DEF Ascends
<1>4. Len(s) = N
      BY <1>1, <1>3
<1>5. ASSUME Contiguous(s) PROVE S = 1..N
  <2>1. \A i \in 1..N : s[i] = i /\ s[i] \in S
        BY <1>3, <1>5 DEF Contiguous
  <2>2. \A x \in S : x \in 1..N
    <3>1. TAKE x \in S
    <3>2. below(x) + 1 \in 1..N /\ s[below(x) + 1] = x
          BY <1>3
    <3> HIDE DEF below
    <3>3. QED BY <2>1, <3>2
  <2>3. \A x \in 1..N : x \in S
        BY <2>1
  <2>4. QED BY <2>2, <2>3
<1>6. ASSUME NEW last \in S, S = 1..last PROVE Contiguous(s)
  <2>1. last \in Nat /\ last # 0
        BY <1>6
  <2>2. N = last
        BY <1>6, <2>1, FS_Interval
  <2>3. ASSUME NEW i \in 1..N PROVE s[i] = i
    <3>1. {y \in S : y < i} = 1..i - 1
          BY <1>6, <2>1, <2>2
    <3>2. below(i) = i - 1
      <4>1. i - 1 \in Nat
            BY <2>1, <2>2
      <4>2. Cardinality(1..i - 1) = i - 1
            BY <4>1, FS_Interval
      <4>3. QED BY <3>1, <4>2
    <3>3. i \in S
          BY <1>6, <2>2
    <3>4. s[below(i) + 1] = i
          BY <1>3, <3>3
    <3>5. below(i) + 1 = i
          BY <2>1, <2>2, <3>2
    <3> HIDE DEF below
    <3>6. QED BY <3>4, <3>5
  <2>4. 1 \in 1..N
        BY <1>1
  <2>5. QED BY <1>3, <2>3, <2>4 DEF Contiguous
<1>7. ASSUME Contiguous(s) PROVE \E last \in S : S = 1..last
  <2>1. S = 1..N /\ N \in S
        BY <1>1, <1>5, <1>7
  <2>2. QED BY <2>1
<1>8. QED BY <1>4, <1>5, <1>6, <1>7 DEF s

\* Numbered volumes are accepted exactly if they are complete (group_and_verify_parts).
LEMMA VolumesAreRight ==
  ASSUME NEW volumes \in Seq(Nat \cup {Unnumbered})
  PROVE  VolumesAreComplete(volumes)
<1> DEFINE r == FirstVolume(volumes)
           N == Numbers(volumes)
<1>1. SUFFICES ASSUME Unnumbered \notin N
               PROVE  /\ r.ok <=> (\E last \in N : N = 1..last)
                      /\ r.ok => volumes[r.volume] = 1 /\ r.parts \in N /\ \A n \in N : n <= r.parts
      BY DEF VolumesAreComplete
<1>2. /\ Len(volumes) \in Nat /\ DOMAIN volumes = 1..Len(volumes)
      /\ N = {volumes[i] : i \in 1..Len(volumes)}
      BY DEF Numbers, ToSet
<1>3. N \in SUBSET Nat
      BY <1>1, <1>2
<1>4. IsFiniteSet(N)
      BY SetOfSequence DEF Numbers
<1>5. CASE volumes = <<>>
  <2>1. N = {} /\ r = [ok |-> FALSE, volume |-> 0, parts |-> 0]
        BY <1>2, <1>5 DEF FirstVolume
  <2> HIDE DEF r, N
  <2>2. QED BY <2>1
<1>6. CASE volumes # <<>>
  <2> DEFINE I == {i \in 1..Len(volumes) : volumes[i] = 1}
             sorted == Ascending(N)
             ok == Contiguous(sorted)
             volume == IF I # {} THEN Max(I) ELSE 0
  <2>1. r = [ok |-> ok, volume |-> volume, parts |-> Len(sorted)]
        BY <1>1, <1>6 DEF FirstVolume, SelectLastInSeq
  <2>2. N # {}
    <3>1. 1 \in 1..Len(volumes)
          BY <1>2, <1>6
    <3>2. QED BY <1>2, <3>1
  <2>3. /\ ok <=> (\E last \in N : N = 1..last)
        /\ ok => N = 1..Cardinality(N)
        /\ Len(sorted) = Cardinality(N)
    <3> HIDE DEF N
    <3>1. QED BY <1>3, <1>4, <2>2, ContiguousNumbers
  <2>4. r.ok = ok /\ r.volume = volume /\ r.parts = Cardinality(N)
    <3> HIDE DEF r, ok, volume, sorted, N
    <3>1. QED BY <2>1, <2>3
  <2>5. ASSUME ok PROVE volumes[volume] = 1
    <3>1. Cardinality(N) \in Nat /\ Cardinality(N) # 0
          BY <1>4, <2>2, FS_CardinalityType, FS_EmptySet
    <3>2. 1 \in N
          BY <2>3, <2>5, <3>1
    <3>3. I # {} /\ I \in SUBSET (0..Len(volumes))
          BY <1>2, <3>2
    <3>4. Max(I) \in I
      <4> HIDE DEF I
      <4>1. QED BY <1>2, <3>3, MaxIsGreatest
    <3>5. QED BY <3>3, <3>4
  <2>6. ASSUME ok PROVE Cardinality(N) \in N /\ \A n \in N : n <= Cardinality(N)
    <3>1. Cardinality(N) \in Nat /\ Cardinality(N) # 0
          BY <1>4, <2>2, FS_CardinalityType, FS_EmptySet
    <3> HIDE DEF N
    <3>2. QED BY <2>3, <2>6, <3>1
  <2> HIDE DEF r, ok, volume, N
  <2>7. QED BY <2>3, <2>4, <2>5, <2>6
<1>7. QED BY <1>5, <1>6

-----------------------------------------------------------------------------
(* The links of a page.                                                    *)

\* The links of a page become distinct parts (parse_course_details).
LEMMA PartsAreRight ==
  ASSUME NEW U, NEW links \in Seq([url : U, number : Nat \cup {Unnumbered}])
  PROVE  PartsAreDistinct(links)
<1> DEFINE n == Len(links)
           num(i) == PartNumber(links, i)
           url(i) == links[i].url
           fresh == {i \in DOMAIN links : \A k \in 1..i - 1 : links[k].url # links[i].url}
           N == Cardinality(fresh)
           key == [i \in fresh |-> PartNumber(links, i)]
           order == SortedBy(key, fresh)
           P == PartLinks(links)
           named == {i \in DOMAIN links : links[i].number # Unnumbered}
           clash == \E i, j \in named :
                      links[i].number = links[j].number /\ links[i].url # links[j].url
<1>1. n \in Nat /\ DOMAIN links = 1..n /\ \A i \in 1..n : links[i].number \in Nat \cup {Unnumbered}
  <2> DEFINE A == [url : U, number : Nat \cup {Unnumbered}]
  <2>1. \A a \in A : a.number \in Nat \cup {Unnumbered}
        OBVIOUS
  <2>2. n \in Nat /\ DOMAIN links = 1..n /\ \A i \in 1..n : links[i] \in A
    <3> HIDE DEF A
    <3>1. links \in Seq(A)
          BY DEF A
    <3>2. QED BY <3>1
  <2>3. QED BY <2>1, <2>2
<1>2. \A i \in 1..n : num(i) \in Nat
      BY <1>1 DEF PartNumber
<1>3. fresh \in SUBSET (1..n) /\ IsFiniteSet(fresh)
  <2>1. fresh \in SUBSET (1..n)
        BY <1>1
  <2>2. IsFiniteSet(1..n)
        BY <1>1, FS_Interval
  <2> HIDE DEF fresh
  <2>3. QED BY <2>1, <2>2, FS_Subset
<1>4. P = [k \in DOMAIN order |-> [url |-> url(order[k]), number |-> num(order[k])]]
      BY DEF PartLinks
<1>5. Sorts(order, key, fresh) /\ \A i \in fresh : key[i] = num(i)
  <2>1. key \in [fresh -> Int] /\ \A i \in fresh : key[i] = num(i)
        BY <1>2, <1>3
  <2>2. fresh \in SUBSET Nat
        BY <1>3
  <2> HIDE DEF fresh, key
  <2>3. QED BY <1>3, <2>1, <2>2, SortedBySorts
<1> HIDE DEF P, order, key
<1>6. /\ DOMAIN order = 1..N /\ \A k \in 1..N : order[k] \in fresh /\ order[k] \in 1..n
      /\ \A i \in fresh : \E k \in 1..N : order[k] = i
      /\ \A i, j \in 1..N : i < j =>
           \/ num(order[i]) < num(order[j])
           \/ num(order[i]) = num(order[j]) /\ order[i] < order[j]
  <2>1. \A i \in fresh : i \in 1..n
        BY <1>3
  <2> HIDE DEF fresh, num
  <2>2. QED BY <1>5, <2>1 DEF Sorts, Before
<1>7. DOMAIN P = 1..N /\ \A k \in 1..N : P[k].url = url(order[k]) /\ P[k].number = num(order[k])
  <2> HIDE DEF url, num, fresh
  <2>1. QED BY <1>4, <1>6
<1>8. \A i, j \in fresh : url(i) = url(j) => i = j
  <2>1. ASSUME NEW i \in fresh, NEW j \in fresh, i < j PROVE url(i) # url(j)
    <3>1. i \in 1..j - 1
          BY <1>3, <2>1
    <3>2. QED BY <3>1
  <2>2. \A i \in fresh : i \in Int
        BY <1>3
  <2> HIDE DEF fresh, url
  <2>3. QED BY <2>1, <2>2
<1>9. ASSUME NEW i \in 1..n PROVE \E k \in 1..N : order[k] \in 1..n /\ url(order[k]) = url(i)
  <2> DEFINE T == {k \in 1..n : url(k) = url(i)}
  <2>1. T \in SUBSET Nat /\ T # {}
        BY <1>1
  <2>2. PICK m \in T : \A k \in T : m <= k
    <3> HIDE DEF T
    <3>1. QED BY <2>1, LeastNumber
  <2>3. m \in fresh
    <3>1. ASSUME NEW k \in 1..m - 1 PROVE url(k) # url(m)
          BY <2>2
    <3>2. QED BY <1>1, <3>1
  <2>4. QED BY <1>6, <2>3
<1>10. {P[k].url : k \in DOMAIN P} = {links[i].url : i \in DOMAIN links}
  <2> HIDE DEF fresh, N
  <2>1. \A k \in 1..N : P[k].url = url(order[k]) /\ order[k] \in 1..n
        BY <1>6, <1>7
  <2>2. \A i \in 1..n : \E k \in 1..N : P[k].url = url(i)
        BY <1>9, <2>1
  <2>3. QED BY <1>1, <1>7, <2>1, <2>2
<1>11. ASSUME NEW i \in DOMAIN P, NEW j \in DOMAIN P, i < j
       PROVE  /\ P[i].url # P[j].url /\ P[i].number <= P[j].number
              /\ order[i] \in fresh /\ order[j] \in fresh /\ order[i] # order[j]
  <2>1. i \in 1..N /\ j \in 1..N
        BY <1>7
  <2>2. num(order[i]) \in Nat /\ num(order[j]) \in Nat /\ order[i] \in Int /\ order[j] \in Int
        BY <1>2, <1>6, <2>1
  <2> HIDE DEF fresh, N, url, num
  <2>3. num(order[i]) <= num(order[j]) /\ order[i] # order[j]
        BY <1>6, <1>11, <2>1, <2>2
  <2>4. url(order[i]) # url(order[j])
        BY <1>6, <1>8, <2>1, <2>3
  <2>5. QED BY <1>6, <1>7, <2>1, <2>3, <2>4
<1>12. ASSUME named \in {{}, DOMAIN links}, ~clash,
              NEW i \in fresh, NEW j \in fresh, i # j
       PROVE  num(i) # num(j)
  <2>1. url(i) # url(j) /\ i \in 1..n /\ j \in 1..n
        BY <1>3, <1>8, <1>12
  <2>2. CASE named = {}
    <3>1. links[i].number = Unnumbered /\ links[j].number = Unnumbered
          BY <1>1, <2>1, <2>2
    <3>2. QED BY <1>12, <3>1 DEF PartNumber
  <2>3. CASE named = DOMAIN links
    <3>1. i \in named /\ j \in named
          BY <1>1, <2>1, <2>3
    <3>2. links[i].number # links[j].number
          BY <1>12, <2>1, <3>1
    <3>3. QED BY <3>1, <3>2 DEF PartNumber
  <2>4. QED BY <1>12, <2>2, <2>3
<1>13. ASSUME named \in {{}, DOMAIN links}, ~clash, NEW i \in DOMAIN P, NEW j \in DOMAIN P, i # j
       PROVE  P[i].number # P[j].number
  <2>1. N \in Nat
        BY <1>3, FS_CardinalityType
  <2> HIDE DEF fresh, N, url, num, named, clash
  <2>2. i \in 1..N /\ j \in 1..N
        BY <1>7, <1>13
  <2>3. i \in Int /\ j \in Int
        BY <2>1, <2>2
  <2>4. order[i] \in fresh /\ order[j] \in fresh /\ order[i] # order[j]
        BY <1>11, <1>13, <2>2, <2>3
  <2>5. num(order[i]) # num(order[j])
        BY <1>12, <1>13, <2>4
  <2>6. QED BY <1>7, <2>2, <2>5
<1>14. QED
  <2> DEFINE all == named \in {{}, DOMAIN links} /\ ~clash
  <2>1. all => \A i, j \in DOMAIN P : i # j => P[i].number # P[j].number
        BY <1>13
  <2>2. \A i, j \in DOMAIN P : i < j => P[i].url # P[j].url /\ P[i].number <= P[j].number
        BY <1>11
  <2>3. QED BY <1>10, <2>1, <2>2, Zenon DEF PartsAreDistinct, P

-----------------------------------------------------------------------------
(* Dubbing: the layout of the speech.                                      *)

Pieces == [start : Int, length : Nat, plays : Nat, slip : BOOLEAN]

\* The greatest of a set of numbers.
LEMMA GreatestIsMax ==
  ASSUME NEW S \in SUBSET Int, NEW m \in S, \A t \in S : t <= m
  PROVE  Max(S) = m
<1>1. \A x \in S : (\A y \in S : x >= y) => x = m
      OBVIOUS
<1>2. \A y \in S : m >= y
      OBVIOUS
<1>3. QED BY <1>1, <1>2 DEF Max

\* Which of two numbers is the greater.
LEMMA GreaterOfTwo ==
  \A n \in Int : /\ Max({0, n}) \in Nat /\ Max({0, n}) >= n
                 /\ Max({0, n}) = 0 \/ Max({0, n}) = n
<1>1. ASSUME NEW n \in Int
      PROVE  /\ Max({0, n}) \in Nat /\ Max({0, n}) >= n
             /\ Max({0, n}) = 0 \/ Max({0, n}) = n
  <2>1. CASE n <= 0
    <3>1. Max({0, n}) = 0
          BY <2>1, GreatestIsMax
    <3>2. QED BY <2>1, <3>1
  <2>2. CASE n > 0
    <3>1. Max({0, n}) = n
          BY <2>2, GreatestIsMax
    <3>2. QED BY <2>2, <3>1
  <2>3. QED BY <2>1, <2>2
<1>2. QED BY <1>1

LEMMA PieceParts ==
  \A piece \in Pieces : /\ piece.start \in Int /\ piece.length \in Nat /\ piece.plays \in Nat
                        /\ piece.slip \in BOOLEAN /\ Begin(piece) \in Nat
BY GreaterOfTwo DEF Pieces, Begin

\* After the gap it is the start of the piece, or later.
LEMMA GapFills ==
  ASSUME NEW now \in Nat, NEW piece \in Pieces
  PROVE  /\ Gap(now, piece) \in Nat
         /\ now + Gap(now, piece) = now \/ now + Gap(now, piece) = Begin(piece)
         /\ now + Gap(now, piece) >= Begin(piece)
<1> DEFINE b == Begin(piece)
           g == Max({0, b - now})
<1>1. b \in Nat /\ b - now \in Int
      BY PieceParts
<1> HIDE DEF b
<1>2. g \in Nat /\ g >= b - now /\ (g = 0 \/ g = b - now)
      BY <1>1, GreaterOfTwo
<1> HIDE DEF g
<1>3. g \in Nat /\ (now + g = now \/ now + g = b) /\ now + g >= b
      BY <1>1, <1>2
<1>4. Gap(now, piece) = g
      BY DEF Gap, g, b
<1>5. QED BY <1>3, <1>4 DEF b

\* The silence is not longer than the gap, and at most a sample shorter.
LEMMA SilenceFits ==
  ASSUME NEW gap \in Nat, NEW slip \in BOOLEAN
  PROVE  Silence(gap, slip) \in Nat /\ gap - Silence(gap, slip) \in 0..Sample
<1> DEFINE rest == gap % Sample
<1>1. Sample \in Nat \ {0}
      BY DubbingAssumption DEF DubbingAssumption
<1>2. rest \in 0..Sample - 1 /\ rest <= gap
      BY <1>1
<1>3. gap > 0 /\ rest = 0 => gap >= Sample
  <2>1. gap < Sample => rest = gap
        BY <1>1
  <2> HIDE DEF rest
  <2>2. QED BY <1>1, <1>2, <2>1
<1> DEFINE less == IF slip /\ gap > 0 /\ rest = 0 THEN Sample ELSE 0
<1>4. Silence(gap, slip) = gap - rest - less
      BY DEF Silence
<1> HIDE DEF rest
<1>5. less \in Nat /\ rest + less \in 0..Sample /\ rest + less <= gap
  <2>1. CASE slip /\ gap > 0 /\ rest = 0
        BY <1>1, <1>3, <2>1
  <2>2. CASE ~(slip /\ gap > 0 /\ rest = 0)
        BY <1>1, <1>2, <2>2
  <2>3. QED BY <2>1, <2>2
<1> HIDE DEF less
<1>6. QED BY <1>1, <1>2, <1>4, <1>5

\* A sum of numbers grows with each number.
LEMMA SumsGrow ==
  ASSUME NEW s \in Seq(Nat)
  PROVE  /\ Sums(s) \in [0..Len(s) -> Nat] /\ Sums(s)[0] = 0
         /\ \A k \in 1..Len(s) : Sums(s)[k] = Sums(s)[k - 1] + s[k]
<1> DEFINE N == Len(s)
           F == [p \in (1..N) \X Nat |-> p[2] + s[p[1]]]
           step(g, k) == IF k = 0 THEN 0 ELSE g[k - 1] + s[k]
<1>1. N \in Nat /\ \A k \in 1..N : s[k] \in Nat
      OBVIOUS
<1>2. F \in [(1..N) \X Nat -> Nat] /\ \A k \in 1..N, n \in Nat : F[<<k, n>>] = n + s[k]
      BY <1>1
<1> HIDE DEF F
<1>3. PICK g \in [0..N -> Nat] : Recursive(g, F, 0, N)
      BY <1>1, <1>2, Recursion
<1>4. ASSUME NEW k \in 1..N PROVE g[k] = g[k - 1] + s[k]
  <2>1. g[k - 1] \in Nat
        BY <1>1
  <2>2. QED BY <1>2, <1>3, <2>1 DEF Recursive
<1>5. g = [k \in 0..N |-> step(g, k)]
      BY <1>1, <1>3, <1>4 DEF Recursive
<1> DEFINE sum == CHOOSE sum : sum = [k \in 0..N |-> step(sum, k)]
<1>6. sum = [k \in 0..N |-> step(sum, k)] /\ Sums(s) = sum
      BY <1>5 DEF Sums
<1> HIDE DEF sum
<1>7. sum[0] = 0 /\ \A k \in 1..N : sum[k] = sum[k - 1] + s[k]
      BY <1>1, <1>6
<1> DEFINE T == {k \in 0..N : sum[k] \in Nat}
<1>8. 0..N \subseteq T
  <2>1. 0 \in T
        BY <1>1, <1>7
  <2>2. ASSUME NEW k \in 0..N - 1, k \in T PROVE k + 1 \in T
    <3>1. sum[k] \in Nat /\ k + 1 \in 1..N /\ (k + 1) - 1 = k
          BY <2>2
    <3>2. sum[k + 1] = sum[k] + s[k + 1]
          BY <1>7, <3>1
    <3>3. QED BY <1>1, <3>1, <3>2
  <2> HIDE DEF T
  <2>3. QED BY <1>1, <2>1, <2>2, Upward
<1>9. sum \in [0..N -> Nat]
      BY <1>6, <1>8
<1>10. QED BY <1>6, <1>7, <1>9

\* The clock moves on by the gap before each piece, and by its length.
LEMMA ClockRuns ==
  ASSUME NEW P \in Seq(Pieces)
  PROVE  /\ Clock(P) \in [0..Len(P) -> Nat] /\ Clock(P)[0] = 0
         /\ \A k \in 1..Len(P) :
              Clock(P)[k] = Clock(P)[k - 1] + Gap(Clock(P)[k - 1], P[k]) + P[k].length
<1> DEFINE N == Len(P)
           F == [p \in (1..N) \X Nat |-> p[2] + Gap(p[2], P[p[1]]) + P[p[1]].length]
           step(g, k) == IF k = 0 THEN 0 ELSE g[k - 1] + Gap(g[k - 1], P[k]) + P[k].length
<1>1. N \in Nat /\ \A k \in 1..N : P[k] \in Pieces /\ P[k].length \in Nat
      BY PieceParts
<1>2. ASSUME NEW k \in 1..N, NEW now \in Nat PROVE now + Gap(now, P[k]) + P[k].length \in Nat
  <2>1. Gap(now, P[k]) \in Nat
        BY <1>1, GapFills
  <2>2. QED BY <1>1, <2>1
<1>3. F \in [(1..N) \X Nat -> Nat]
      BY <1>2
<1>4. \A k \in 1..N, now \in Nat : F[<<k, now>>] = now + Gap(now, P[k]) + P[k].length
      OBVIOUS
<1> HIDE DEF F
<1>5. PICK g \in [0..N -> Nat] : Recursive(g, F, 0, N)
      BY <1>1, <1>3, Recursion
<1>6. g = [k \in 0..N |-> step(g, k)]
  <2>1. ASSUME NEW k \in 0..N PROVE g[k] = step(g, k)
    <3>1. CASE k = 0
          BY <1>5, <3>1 DEF Recursive
    <3>2. CASE k # 0
      <4>1. k \in 1..N /\ g[k - 1] \in Nat
            BY <1>1, <3>2
      <4>2. QED BY <1>4, <1>5, <3>2, <4>1 DEF Recursive
    <3>3. QED BY <3>1, <3>2
  <2>2. g = [k \in 0..N |-> g[k]]
        OBVIOUS
  <2> HIDE DEF step
  <2>3. QED BY <2>1, <2>2
<1> DEFINE now == CHOOSE now : now = [k \in 0..N |-> step(now, k)]
<1>7. now = [k \in 0..N |-> step(now, k)] /\ Clock(P) = now
      BY <1>6 DEF Clock
<1> HIDE DEF now
<1>8. now[0] = 0 /\ \A k \in 1..N : now[k] = now[k - 1] + Gap(now[k - 1], P[k]) + P[k].length
      BY <1>1, <1>7
<1> DEFINE T == {k \in 0..N : now[k] \in Nat}
<1>9. 0..N \subseteq T
  <2>1. 0 \in T
        BY <1>1, <1>8
  <2>2. ASSUME NEW k \in 0..N - 1, k \in T PROVE k + 1 \in T
    <3>1. now[k] \in Nat /\ k + 1 \in 1..N /\ (k + 1) - 1 = k
          BY <2>2
    <3>2. now[k + 1] = now[k] + Gap(now[k], P[k + 1]) + P[k + 1].length
          BY <1>8, <3>1
    <3>3. now[k] + Gap(now[k], P[k + 1]) + P[k + 1].length \in Nat
          BY <1>2, <3>1
    <3>4. QED BY <3>1, <3>2, <3>3
  <2> HIDE DEF T
  <2>3. QED BY <1>1, <2>1, <2>2, Upward
<1>10. now \in [0..N -> Nat]
      BY <1>7, <1>9
<1>11. QED BY <1>7, <1>8, <1>10

\* The gap before piece k, by the clock.
GapBefore(P, k) == Gap(Clock(P)[k - 1], P[k])

\* The silence before each piece, and what is spoken, played and written up to it.
LEMMA LayoutGrows ==
  ASSUME NEW P \in Seq(Pieces)
  PROVE  /\ \A k \in 1..Len(P) :
              /\ GapBefore(P, k) \in Nat /\ Pause(P, k) \in Nat
              /\ GapBefore(P, k) - Pause(P, k) \in 0..Sample
         /\ Speech(P) \in [0..Len(P) -> Nat] /\ Speech(P)[0] = 0
         /\ \A k \in 1..Len(P) : Speech(P)[k] = Speech(P)[k - 1] + P[k].length
         /\ Played(P) \in [0..Len(P) -> Nat] /\ Played(P)[0] = 0
         /\ \A k \in 1..Len(P) : Played(P)[k] = Played(P)[k - 1] + P[k].plays
         /\ Written(P) \in [0..Len(P) -> Nat] /\ Written(P)[0] = 0
         /\ \A k \in 1..Len(P) : Written(P)[k] = Written(P)[k - 1] + (Pause(P, k) + P[k].plays)
<1> DEFINE N == Len(P)
           l == [k \in DOMAIN P |-> P[k].length]
           p == [k \in DOMAIN P |-> P[k].plays]
           w == [k \in DOMAIN P |-> Pause(P, k) + P[k].plays]
<1>1. /\ N \in Nat /\ DOMAIN P = 1..N
      /\ \A k \in 1..N : /\ P[k] \in Pieces /\ P[k].length \in Nat /\ P[k].plays \in Nat
                         /\ P[k].slip \in BOOLEAN
      BY PieceParts
<1>2. ASSUME NEW k \in 1..N
      PROVE  /\ GapBefore(P, k) \in Nat /\ Pause(P, k) \in Nat
             /\ GapBefore(P, k) - Pause(P, k) \in 0..Sample
  <2>1. Clock(P)[k - 1] \in Nat
    <3>1. k - 1 \in 0..N
          BY <1>1
    <3> HIDE DEF N
    <3>2. Clock(P) \in [0..N -> Nat]
          BY ClockRuns DEF N
    <3>3. QED BY <3>1, <3>2
  <2>2. GapBefore(P, k) \in Nat
        BY <1>1, <2>1, GapFills DEF GapBefore
  <2>3. Pause(P, k) = Silence(GapBefore(P, k), P[k].slip)
        BY DEF Pause, GapBefore
  <2>4. QED BY <1>1, <2>2, <2>3, SilenceFits
<1>3. /\ l \in Seq(Nat) /\ Len(l) = N /\ \A k \in 1..N : l[k] = P[k].length
      /\ p \in Seq(Nat) /\ Len(p) = N /\ \A k \in 1..N : p[k] = P[k].plays
      BY <1>1
<1>4. w \in Seq(Nat) /\ Len(w) = N /\ \A k \in 1..N : w[k] = Pause(P, k) + P[k].plays
      BY <1>1, <1>2
<1> HIDE DEF l, p, w
<1>5. Speech(P) \in [0..N -> Nat] /\ Speech(P)[0] = 0
      /\ \A k \in 1..N : Speech(P)[k] = Speech(P)[k - 1] + P[k].length
  <2>1. Speech(P) = Sums(l)
        BY DEF Speech, l
  <2> HIDE DEF N
  <2>2. /\ Sums(l) \in [0..N -> Nat] /\ Sums(l)[0] = 0
        /\ \A k \in 1..N : Sums(l)[k] = Sums(l)[k - 1] + l[k]
        BY <1>3, SumsGrow
  <2>3. QED BY <1>3, <2>1, <2>2
<1>6. Played(P) \in [0..N -> Nat] /\ Played(P)[0] = 0
      /\ \A k \in 1..N : Played(P)[k] = Played(P)[k - 1] + P[k].plays
  <2>1. Played(P) = Sums(p)
        BY DEF Played, p
  <2> HIDE DEF N
  <2>2. /\ Sums(p) \in [0..N -> Nat] /\ Sums(p)[0] = 0
        /\ \A k \in 1..N : Sums(p)[k] = Sums(p)[k - 1] + p[k]
        BY <1>3, SumsGrow
  <2>3. QED BY <1>3, <2>1, <2>2
<1>7. Written(P) \in [0..N -> Nat] /\ Written(P)[0] = 0
      /\ \A k \in 1..N : Written(P)[k] = Written(P)[k - 1] + (Pause(P, k) + P[k].plays)
  <2>1. Written(P) = Sums(w)
        BY DEF Written, w
  <2> HIDE DEF N
  <2>2. /\ Sums(w) \in [0..N -> Nat] /\ Sums(w)[0] = 0
        /\ \A k \in 1..N : Sums(w)[k] = Sums(w)[k - 1] + w[k]
        BY <1>4, SumsGrow
  <2>3. QED BY <1>4, <2>1, <2>2
<1>8. QED BY <1>2, <1>5, <1>6, <1>7

\* What is written falls behind the clock by at most a sample for each piece, apart from what
\* the pieces play longer or shorter than they last.
Behind(P, k) == Clock(P)[k] + (Played(P)[k] - Speech(P)[k]) - Written(P)[k]

LEMMA SamplesAdd == \A k \in Nat : (k + 1) * Sample = k * Sample + Sample /\ k * Sample \in Nat
<1>1. Sample \in Nat
      BY DubbingAssumption DEF DubbingAssumption
<1>2. QED BY <1>1

LEMMA WrittenFollows ==
  ASSUME NEW P \in Seq(Pieces)
  PROVE  \A k \in 0..Len(P) : Behind(P, k) \in 0..k * Sample
<1> DEFINE N == Len(P)
           C == Clock(P)
           W == Written(P)
           L == Speech(P)
           Q == Played(P)
           T == {k \in 0..N : Behind(P, k) \in 0..k * Sample}
<1>1. N \in Nat /\ \A k \in 1..N : P[k].length \in Nat /\ P[k].plays \in Nat
      BY PieceParts
<1>2. /\ C \in [0..N -> Nat] /\ C[0] = 0
      /\ \A k \in 1..N : C[k] = C[k - 1] + GapBefore(P, k) + P[k].length
      BY ClockRuns DEF GapBefore
<1>3. /\ \A k \in 1..N : /\ GapBefore(P, k) \in Nat /\ Pause(P, k) \in Nat
                         /\ GapBefore(P, k) - Pause(P, k) \in 0..Sample
      /\ L \in [0..N -> Nat] /\ L[0] = 0 /\ \A k \in 1..N : L[k] = L[k - 1] + P[k].length
      /\ Q \in [0..N -> Nat] /\ Q[0] = 0 /\ \A k \in 1..N : Q[k] = Q[k - 1] + P[k].plays
      /\ W \in [0..N -> Nat] /\ W[0] = 0
      /\ \A k \in 1..N : W[k] = W[k - 1] + (Pause(P, k) + P[k].plays)
      BY LayoutGrows
<1>4. \A k \in 0..N : Behind(P, k) = C[k] + (Q[k] - L[k]) - W[k]
      BY DEF Behind
<1> HIDE DEF C, W, L, Q
<1>5. 0 \in T
  <2>1. Behind(P, 0) = 0 /\ 0 \in 0..N
        BY <1>1, <1>2, <1>3, <1>4
  <2>2. 0 * Sample \in Nat
        BY SamplesAdd
  <2>3. QED BY <2>1, <2>2
<1>6. ASSUME NEW k \in 0..N - 1, k \in T PROVE k + 1 \in T
  <2>1. k \in Nat /\ k + 1 \in 1..N /\ (k + 1) - 1 = k /\ k \in 0..N /\ k + 1 \in 0..N
        BY <1>1
  <2> DEFINE gap == GapBefore(P, k + 1)
             pause == Pause(P, k + 1)
  <2>2. /\ C[k + 1] = C[k] + gap + P[k + 1].length
        /\ W[k + 1] = W[k] + (pause + P[k + 1].plays)
        /\ L[k + 1] = L[k] + P[k + 1].length /\ Q[k + 1] = Q[k] + P[k + 1].plays
        BY <1>2, <1>3, <2>1
  <2>3. /\ C[k] \in Nat /\ W[k] \in Nat /\ L[k] \in Nat /\ Q[k] \in Nat
        /\ P[k + 1].length \in Nat /\ P[k + 1].plays \in Nat
        /\ gap \in Nat /\ pause \in Nat /\ gap - pause \in 0..Sample
        BY <1>1, <1>2, <1>3, <2>1
  <2> HIDE DEF gap, pause
  <2>4. Behind(P, k + 1) = Behind(P, k) + (gap - pause)
    <3>1. /\ Behind(P, k) = C[k] + (Q[k] - L[k]) - W[k]
          /\ Behind(P, k + 1) = C[k + 1] + (Q[k + 1] - L[k + 1]) - W[k + 1]
          BY <1>4, <2>1
    <3> DEFINE l == P[k + 1].length
               p == P[k + 1].plays
    <3>2. /\ Behind(P, k + 1) = (C[k] + gap + l) + ((Q[k] + p) - (L[k] + l)) - (W[k] + (pause + p))
          /\ l \in Nat /\ p \in Nat
          BY <2>2, <2>3, <3>1
    <3> DEFINE c == C[k]
               q == Q[k]
               s == L[k]
               w == W[k]
    <3> HIDE DEF l, p
    <3>3. /\ Behind(P, k) = c + (q - s) - w
          /\ Behind(P, k + 1) = (c + gap + l) + ((q + p) - (s + l)) - (w + (pause + p))
          /\ c \in Nat /\ q \in Nat /\ s \in Nat /\ w \in Nat /\ gap \in Nat /\ pause \in Nat
          BY <2>3, <3>1, <3>2
    <3> HIDE DEF c, q, s, w
    <3>4. QED BY <3>2, <3>3
  <2>5. Behind(P, k) \in 0..k * Sample
        BY <1>6
  <2>6. (k + 1) * Sample = k * Sample + Sample /\ k * Sample \in Nat /\ Sample \in Nat
        BY <2>1, SamplesAdd, DubbingAssumption DEF DubbingAssumption
  <2> DEFINE a == k * Sample
             b == (k + 1) * Sample
  <2>7. b = a + Sample /\ a \in Nat /\ Behind(P, k) \in 0..a
        BY <2>5, <2>6
  <2> HIDE DEF a, b
  <2>8. Behind(P, k + 1) \in 0..b
    <3> DEFINE lost == gap - pause
    <3>1. lost \in 0..Sample /\ Behind(P, k + 1) = Behind(P, k) + lost
          BY <2>3, <2>4
    <3> HIDE DEF lost
    <3>2. QED BY <2>6, <2>7, <3>1
  <2>9. QED BY <2>1, <2>8 DEF b
<1>7. 0..N \subseteq T
  <2> HIDE DEF T
  <2>1. QED BY <1>1, <1>5, <1>6, Upward
<1>8. QED BY <1>7

\* sorted() keeps the pieces, and puts them in the order of their starts.
LEMMA PiecesInTime ==
  ASSUME NEW pieces \in Seq(Pieces)
  PROVE  /\ InTime(pieces) \in Seq(Pieces)
         /\ \A k \in 2..Len(InTime(pieces)) : InTime(pieces)[k].start >= InTime(pieces)[k - 1].start
<1> DEFINE D == DOMAIN pieces
           n == Len(pieces)
           key == [i \in D |-> pieces[i].start]
           order == SortedBy(key, D)
           P == InTime(pieces)
<1>1. n \in Nat /\ D = 1..n /\ \A i \in D : pieces[i] \in Pieces /\ pieces[i].start \in Int
      BY PieceParts
<1>2. Cardinality(D) = n /\ IsFiniteSet(D) /\ D \in SUBSET Nat
  <2>1. Cardinality(1..n) = n /\ IsFiniteSet(1..n)
        BY <1>1, FS_Interval
  <2>2. QED BY <1>1, <2>1
<1>3. key \in [D -> Int] /\ \A i \in D : key[i] = pieces[i].start
      BY <1>1
<1>4. Sorts(order, key, D)
  <2> HIDE DEF D, key
  <2>1. QED BY <1>2, <1>3, SortedBySorts
<1>5. P = [k \in DOMAIN order |-> pieces[order[k]]]
      BY DEF InTime, At
<1> HIDE DEF P, order, key, D
<1>6. order \in [1..n -> D] /\ \A i, j \in 1..n : i < j => Before(key, order[i], order[j])
      BY <1>2, <1>4 DEF Sorts
<1>7. P \in [1..n -> Pieces] /\ \A k \in 1..n : P[k] = pieces[order[k]]
      BY <1>1, <1>5, <1>6
<1>8. P \in Seq(Pieces) /\ Len(P) = n
      BY <1>1, <1>7
<1>9. ASSUME NEW k \in 2..n PROVE P[k].start >= P[k - 1].start
  <2>1. k \in 1..n /\ k - 1 \in 1..n /\ k - 1 < k
        BY <1>1
  <2>2. Before(key, order[k - 1], order[k])
        BY <1>6, <2>1
  <2>3. order[k] \in D /\ order[k - 1] \in D
        BY <1>6, <2>1
  <2>4. key[order[k]] = P[k].start /\ key[order[k - 1]] = P[k - 1].start
        BY <1>3, <1>7, <2>1, <2>3
  <2>5. P[k].start \in Int /\ P[k - 1].start \in Int
        BY <1>7, <2>1, PieceParts
  <2>6. QED BY <2>2, <2>4, <2>5 DEF Before
<1>10. QED BY <1>8, <1>9 DEF P

\* Each piece is due as early as the pieces before it let it.
LEMMA SpeechIsDue ==
  ASSUME NEW P \in Seq(Pieces)
  PROVE  \A k \in 1..Len(P) :
           Max({Begin(P[i]) + (Speech(P)[k - 1] - Speech(P)[i - 1]) : i \in 1..k})
             = Clock(P)[k - 1] + GapBefore(P, k)
<1> DEFINE N == Len(P)
           C == Clock(P)
           L == Speech(P)
           at == [k \in 1..N |-> C[k - 1] + GapBefore(P, k)]
           earliest(k) == {Begin(P[i]) + (L[k - 1] - L[i - 1]) : i \in 1..k}
           T == {k \in 0..N : k = 0 \/ (/\ at[k] \in earliest(k)
                                        /\ \A t \in earliest(k) : at[k] >= t)}
<1>1. N \in Nat /\ \A k \in 1..N : P[k] \in Pieces /\ Begin(P[k]) \in Nat /\ P[k].length \in Nat
      BY PieceParts
<1>2. /\ C \in [0..N -> Nat] /\ C[0] = 0
      /\ \A k \in 1..N : C[k] = C[k - 1] + GapBefore(P, k) + P[k].length
      BY ClockRuns DEF GapBefore
<1>3. L \in [0..N -> Nat] /\ L[0] = 0 /\ \A k \in 1..N : L[k] = L[k - 1] + P[k].length
      BY LayoutGrows
<1>4. \A k \in 1..N : GapBefore(P, k) = Gap(C[k - 1], P[k])
      BY DEF GapBefore
<1> HIDE DEF C, L
<1>5. ASSUME NEW k \in 1..N PROVE C[k - 1] \in Nat
  <2>1. k - 1 \in 0..N
        BY <1>1
  <2> HIDE DEF N
  <2>2. QED BY <1>2, <2>1
<1>6. ASSUME NEW k \in 1..N
      PROVE  /\ at[k] \in Nat /\ at[k] \in {C[k - 1], Begin(P[k])}
             /\ at[k] >= C[k - 1] /\ at[k] >= Begin(P[k])
             /\ C[k] = at[k] + P[k].length
  <2> DEFINE g == GapBefore(P, k)
  <2>1. g \in Nat /\ (C[k - 1] + g = C[k - 1] \/ C[k - 1] + g = Begin(P[k]))
        /\ C[k - 1] + g >= Begin(P[k])
        BY <1>1, <1>4, <1>5, GapFills
  <2>2. at[k] = C[k - 1] + g /\ C[k] = C[k - 1] + g + P[k].length
        BY <1>2
  <2> HIDE DEF g, at
  <2>3. QED BY <1>1, <1>5, <2>1, <2>2
<1> HIDE DEF N, at
<1>7. 0 \in T
      BY <1>1
<1>8. ASSUME NEW k \in 0..N - 1, k \in T PROVE k + 1 \in T
  <2> DEFINE p == Begin(P[k + 1])
  <2>1. k \in Nat /\ k + 1 \in 1..N /\ (k + 1) - 1 = k /\ k + 1 \in 0..N /\ k + 1 # 0 /\ k \in 0..N
        BY <1>1
  <2>2. p \in Nat /\ L[k] \in Nat /\ p + (L[k] - L[k]) = p
        BY <1>1, <1>3, <2>1
  <2>3. at[k + 1] \in {C[k], p} /\ at[k + 1] >= C[k] /\ at[k + 1] >= p /\ at[k + 1] \in Nat
        BY <1>6, <2>1
  <2>4. p \in earliest(k + 1)
    <3>1. k + 1 \in 1..k + 1 /\ p = Begin(P[k + 1]) + (L[(k + 1) - 1] - L[(k + 1) - 1])
          BY <2>1, <2>2
    <3>2. QED BY <3>1
  <2>5. CASE k = 0
    <3>1. earliest(k + 1) = {p}
      <4>1. 1..k + 1 = {k + 1}
            BY <2>5
      <4>2. QED BY <2>1, <2>2, <4>1
    <3>2. at[k + 1] = p
          BY <1>2, <2>2, <2>3, <2>5
    <3> HIDE DEF earliest, p
    <3>3. QED BY <2>1, <2>2, <3>1, <3>2
  <2>6. CASE k # 0
    <3>1. k \in 1..N /\ k - 1 \in 0..N
          BY <1>1, <2>1, <2>6
    <3>2. C[k] = at[k] + P[k].length /\ L[k] = L[k - 1] + P[k].length
          BY <1>3, <1>6, <3>1
    <3>3. P[k].length \in Nat /\ at[k] \in Nat /\ L[k - 1] \in Nat
          BY <1>1, <1>3, <1>6, <3>1
    <3>4. at[k] \in earliest(k) /\ \A t \in earliest(k) : at[k] >= t
          BY <1>8, <2>6
    <3>5. ASSUME NEW i \in 1..k
          PROVE  /\ Begin(P[i]) + (L[(k + 1) - 1] - L[i - 1])
                      = (Begin(P[i]) + (L[k - 1] - L[i - 1])) + P[k].length
                 /\ Begin(P[i]) + (L[k - 1] - L[i - 1]) \in Int
      <4>1. Begin(P[i]) \in Nat /\ L[i - 1] \in Nat
        <5>1. i \in 1..N /\ i - 1 \in 0..N
              BY <1>1, <2>1
        <5>2. QED BY <1>1, <1>3, <5>1
      <4>2. L[(k + 1) - 1] = L[k - 1] + P[k].length
            BY <2>1, <3>2
      <4>3. \A a, b, c, d \in Nat : a + ((c + d) - b) = (a + (c - b)) + d /\ a + (c - b) \in Int
            OBVIOUS
      <4>4. Begin(P[i]) + ((L[k - 1] + P[k].length) - L[i - 1])
              = (Begin(P[i]) + (L[k - 1] - L[i - 1])) + P[k].length
            BY <3>3, <4>1, <4>3
      <4>5. Begin(P[i]) + (L[k - 1] - L[i - 1]) \in Int
            BY <3>3, <4>1, <4>3
      <4>6. QED BY <4>2, <4>4, <4>5, Zenon
    <3>6. C[k] \in earliest(k + 1)
      <4>1. PICK i \in 1..k : at[k] = Begin(P[i]) + (L[k - 1] - L[i - 1])
            BY <3>4
      <4>2. i \in 1..k + 1
            BY <2>1
      <4>3. C[k] = Begin(P[i]) + (L[(k + 1) - 1] - L[i - 1])
            BY <3>2, <3>5, <4>1
      <4>4. QED BY <4>2, <4>3
    <3>7. ASSUME NEW t \in earliest(k + 1) PROVE at[k + 1] >= t
      <4>1. PICK i \in 1..k + 1 : t = Begin(P[i]) + (L[(k + 1) - 1] - L[i - 1])
            OBVIOUS
      <4>2. CASE i = k + 1
            BY <2>1, <2>2, <2>3, <4>1, <4>2
      <4>3. CASE i \in 1..k
        <5> DEFINE u == Begin(P[i]) + (L[k - 1] - L[i - 1])
        <5>1. t = u + P[k].length /\ u \in Int
              BY <3>5, <4>1, <4>3
        <5>2. u \in earliest(k)
              BY <4>3
        <5> HIDE DEF u, earliest
        <5>3. at[k] >= u
              BY <3>4, <5>2
        <5>4. QED BY <2>3, <3>2, <3>3, <5>1, <5>3
      <4>4. i = k + 1 \/ i \in 1..k
            BY <2>1
      <4>5. QED BY <4>2, <4>3, <4>4
    <3>8. at[k + 1] \in earliest(k + 1)
      <4> HIDE DEF earliest, p
      <4>1. QED BY <2>3, <2>4, <3>6
    <3> HIDE DEF earliest
    <3>9. QED BY <2>1, <3>7, <3>8
  <2>7. QED BY <2>5, <2>6
<1>9. 0..N \subseteq T
  <2> HIDE DEF T
  <2>1. QED BY <1>1, <1>7, <1>8, Upward
<1>10. ASSUME NEW k \in 1..N PROVE Max(earliest(k)) = at[k]
  <2>1. at[k] \in earliest(k) /\ \A t \in earliest(k) : at[k] >= t
    <3>1. k \in 0..N /\ k # 0
          BY <1>1
    <3> HIDE DEF earliest
    <3>2. QED BY <1>9, <3>1
  <2>2. earliest(k) \in SUBSET Int
    <3>1. ASSUME NEW i \in 1..k PROVE Begin(P[i]) + (L[k - 1] - L[i - 1]) \in Int
      <4>1. i \in 1..N /\ i - 1 \in 0..N /\ k - 1 \in 0..N
            BY <1>1
      <4>2. Begin(P[i]) \in Nat /\ L[k - 1] \in Nat /\ L[i - 1] \in Nat
            BY <1>1, <1>3, <4>1
      <4>3. QED BY <4>2
    <3>2. QED BY <3>1
  <2> HIDE DEF earliest
  <2>3. \A t \in earliest(k) : t <= at[k]
        BY <1>6, <2>1, <2>2
  <2>4. QED BY <2>1, <2>2, <2>3, GreatestIsMax
<1>11. QED BY <1>10 DEF N, C, L, at, earliest

\* Speech is in time, to a sample for each piece (assemble_audio_segments).
LEMMA SpeechIsInTime ==
  ASSUME NEW pieces \in Seq(Pieces)
  PROVE  SpeechKeepsTime(pieces)
<1> DEFINE P == InTime(pieces)
           at == Assemble(pieces)
           N == Len(P)
           C == Clock(P)
           W == Written(P)
           L == Speech(P)
           Q == Played(P)
           due(k) == Max({Begin(P[i]) + (L[k - 1] - L[i - 1]) : i \in 1..k})
<1>1. P \in Seq(Pieces) /\ \A k \in 2..N : P[k].start >= P[k - 1].start
      BY PiecesInTime
<1>2. at = [k \in DOMAIN P |-> W[k - 1] + Pause(P, k)]
      BY DEF Assemble
<1> HIDE DEF P, at
<1>3. /\ N \in Nat /\ DOMAIN P = 1..N
      /\ \A k \in 1..N : P[k].length \in Nat /\ P[k].plays \in Nat
      BY <1>1, PieceParts
<1>4. /\ C \in [0..N -> Nat]
      /\ \A k \in 1..N : C[k] = C[k - 1] + GapBefore(P, k) + P[k].length
      BY <1>1, ClockRuns DEF GapBefore
<1>5. /\ \A k \in 1..N : GapBefore(P, k) \in Nat /\ Pause(P, k) \in Nat
      /\ L \in [0..N -> Nat] /\ \A k \in 1..N : L[k] = L[k - 1] + P[k].length
      /\ Q \in [0..N -> Nat] /\ \A k \in 1..N : Q[k] = Q[k - 1] + P[k].plays
      /\ W \in [0..N -> Nat]
      /\ \A k \in 1..N : W[k] = W[k - 1] + (Pause(P, k) + P[k].plays)
      BY <1>1, LayoutGrows
<1>6. \A k \in 1..N : due(k) = C[k - 1] + GapBefore(P, k)
      BY <1>1, SpeechIsDue
<1>7. \A k \in 0..N : C[k] + (Q[k] - L[k]) - W[k] \in 0..k * Sample
      BY <1>1, WrittenFollows DEF Behind
<1> HIDE DEF C, W, L, Q, due
<1>8. ASSUME NEW k \in 1..N
      PROVE  /\ C[k - 1] \in Nat /\ W[k - 1] \in Nat /\ L[k - 1] \in Nat /\ Q[k - 1] \in Nat
             /\ at[k] = W[k - 1] + Pause(P, k) /\ at[k] \in Nat
             /\ W[k] = at[k] + P[k].plays
  <2>1. k - 1 \in 0..N /\ k \in Nat
        BY <1>3
  <2>2. at[k] = W[k - 1] + Pause(P, k)
        BY <1>2, <1>3
  <2> HIDE DEF N
  <2>3. C[k - 1] \in Nat /\ W[k - 1] \in Nat /\ L[k - 1] \in Nat /\ Q[k - 1] \in Nat
        BY <1>4, <1>5, <2>1
  <2>4. Pause(P, k) \in Nat /\ W[k] = W[k - 1] + (Pause(P, k) + P[k].plays) /\ P[k].plays \in Nat
        BY <1>3, <1>5
  <2>5. W[k] = at[k] + P[k].plays /\ at[k] \in Nat
        BY <2>2, <2>3, <2>4
  <2>6. QED BY <2>2, <2>3, <2>5
<1>9. ASSUME NEW k \in 1..N
      PROVE  due(k) + (Q[k - 1] - L[k - 1]) - at[k] \in 0..k * Sample
  <2> DEFINE gap == GapBefore(P, k)
             most == k * Sample
  <2>1. /\ C[k] = C[k - 1] + gap + P[k].length /\ gap \in Nat
        /\ L[k] = L[k - 1] + P[k].length /\ Q[k] = Q[k - 1] + P[k].plays
        /\ due(k) = C[k - 1] + gap
        BY <1>4, <1>5, <1>6
  <2>2. C[k] + (Q[k] - L[k]) - W[k] \in 0..most
    <3>1. k \in 0..N
          BY <1>3
    <3>2. QED BY <1>7, <3>1
  <2> HIDE DEF gap, most
  <2>3. due(k) + (Q[k - 1] - L[k - 1]) - at[k] = C[k] + (Q[k] - L[k]) - W[k]
    <3> DEFINE l == P[k].length
               p == P[k].plays
    <3>1. /\ C[k - 1] \in Nat /\ W[k - 1] \in Nat /\ L[k - 1] \in Nat /\ Q[k - 1] \in Nat
          /\ at[k] \in Nat /\ W[k] = at[k] + p /\ l \in Nat /\ p \in Nat
          BY <1>3, <1>8
    <3>2. /\ C[k] = C[k - 1] + gap + l /\ gap \in Nat /\ due(k) = C[k - 1] + gap
          /\ L[k] = L[k - 1] + l /\ Q[k] = Q[k - 1] + p
          BY <2>1
    <3> DEFINE c == C[k - 1]
               s == L[k - 1]
               q == Q[k - 1]
               x == at[k]
               d == due(k)
    <3> HIDE DEF l, p
    <3>3. /\ C[k] + (Q[k] - L[k]) - W[k] = (c + gap + l) + ((q + p) - (s + l)) - (x + p)
          /\ d = c + gap
          BY <3>1, <3>2
    <3>4. /\ c \in Nat /\ s \in Nat /\ q \in Nat /\ x \in Nat /\ gap \in Nat
          /\ l \in Nat /\ p \in Nat
          BY <3>1, <3>2
    <3> HIDE DEF c, s, q, x, d
    <3>5. d + (q - s) - x = (c + gap + l) + ((q + p) - (s + l)) - (x + p)
          BY <3>3, <3>4
    <3>6. QED BY <3>3, <3>5 DEF d, q, s, x
  <2>4. due(k) + (Q[k - 1] - L[k - 1]) - at[k] \in 0..most
        BY <2>2, <2>3
  <2>5. QED BY <2>4 DEF most
<1>10. ASSUME NEW k \in 1..N, k > 1
       PROVE  P[k].start >= P[k - 1].start /\ at[k] >= at[k - 1] + P[k - 1].plays
  <2>1. k \in 2..N /\ k - 1 \in 1..N
        BY <1>3, <1>10
  <2>2. P[k].start >= P[k - 1].start
        BY <1>1, <2>1
  <2>3. W[k - 1] = at[k - 1] + P[k - 1].plays
        BY <1>8, <2>1
  <2>4. at[k] = W[k - 1] + Pause(P, k) /\ W[k - 1] \in Nat /\ Pause(P, k) \in Nat
        BY <1>5, <1>8
  <2>5. QED BY <2>2, <2>3, <2>4
<1>11. QED BY <1>3, <1>9, <1>10, Zenon DEF SpeechKeepsTime, P, at, due, L, Q

-----------------------------------------------------------------------------
(* Dubbing: models and keys.                                               *)

\* The place of key k among the keys, counted from index on.
Offset(k, index, keys) == IF k >= index THEN k - index ELSE k - index + keys

\* Going on from a key by less than a round.
LEMMA Round ==
  ASSUME NEW keys \in Nat \ {0}, NEW index \in 0..keys - 1
  PROVE  /\ \A k \in 0..keys - 1 : /\ Offset(k, index, keys) \in 0..keys - 1
                                   /\ (index + Offset(k, index, keys)) % keys = k
         /\ \A d \in 0..keys - 1 : /\ (index + d) % keys \in 0..keys - 1
                                   /\ Offset((index + d) % keys, index, keys) = d
         /\ \A d \in 0..keys :
              /\ (index + d) % keys \in 0..keys - 1
              /\ (index + d) % keys = IF index + d < keys THEN index + d ELSE index + d - keys
<1>1. /\ \A a \in 0..keys - 1 : a % keys = a
      /\ \A a \in 0..keys - 1 : (a + keys) % keys = a
      /\ \A a \in Nat : a % keys \in 0..keys - 1
      OBVIOUS
<1>2. ASSUME NEW k \in 0..keys - 1
      PROVE  Offset(k, index, keys) \in 0..keys - 1 /\ (index + Offset(k, index, keys)) % keys = k
  <2>1. CASE k >= index
    <3>1. Offset(k, index, keys) = k - index /\ index + (k - index) = k
          BY <2>1 DEF Offset
    <3>2. k - index \in 0..keys - 1
          BY <2>1
    <3>3. QED BY <1>1, <3>1, <3>2
  <2>2. CASE k < index
    <3>1. Offset(k, index, keys) = k - index + keys /\ index + (k - index + keys) = k + keys
          BY <2>2 DEF Offset
    <3>2. k - index + keys \in 0..keys - 1
          BY <2>2
    <3>3. QED BY <1>1, <3>1, <3>2
  <2>3. QED BY <2>1, <2>2
<1>3. \A d \in 0..keys :
        (index + d) % keys = IF index + d < keys THEN index + d ELSE index + d - keys
  <2>1. TAKE d \in 0..keys
  <2>2. CASE index + d < keys
    <3>1. index + d \in 0..keys - 1
          BY <2>2
    <3>2. QED BY <1>1, <2>2, <3>1
  <2>3. CASE ~(index + d < keys)
    <3>1. index + d - keys \in 0..keys - 1 /\ index + d = (index + d - keys) + keys
          BY <2>3
    <3>2. QED BY <1>1, <2>3, <3>1
  <2>4. QED BY <2>2, <2>3
<1>4. ASSUME NEW d \in 0..keys - 1
      PROVE  (index + d) % keys \in 0..keys - 1 /\ Offset((index + d) % keys, index, keys) = d
      BY <1>3 DEF Offset
<1>5. \A d \in 0..keys : index + d \in Nat
      OBVIOUS
<1>6. QED BY <1>1, <1>2, <1>3, <1>4, <1>5

\* The key that is d after a key.
Onward(index, d, keys) == (index + d) % keys

LEMMA RoundOn ==
  ASSUME NEW keys \in Nat \ {0}, NEW index \in 0..keys - 1, NEW d \in 0..keys,
         NEW e \in 0..keys, d + e <= keys
  PROVE  Onward(Onward(index, d, keys), e, keys) = Onward(index, d + e, keys)
<1> DEFINE s == Onward(index, d, keys)
<1> USE DEF Onward
<1>1. /\ s = IF index + d < keys THEN index + d ELSE index + d - keys
      /\ (index + (d + e)) % keys =
           IF index + (d + e) < keys THEN index + (d + e) ELSE index + (d + e) - keys
  <2>1. d + e \in 0..keys
        OBVIOUS
  <2>2. QED BY <2>1, Round
<1>2. CASE index + d < keys
  <2>1. s + e = index + (d + e)
        BY <1>1, <1>2
  <2>2. QED BY <2>1
<1>3. CASE ~(index + d < keys)
  <2>1. s = index + d - keys
        BY <1>1, <1>3
  <2>2. s + e \in 0..keys - 1 /\ s + e = index + (d + e) - keys /\ ~(index + (d + e) < keys)
        BY <1>3, <2>1
  <2>3. (s + e) % keys = s + e
        BY <2>2
  <2>4. QED BY <1>1, <2>2, <2>3
<1>4. QED BY <1>2, <1>3

\* The attempts go through the keys for each model in turn.
LEMMA AttemptsInTurn ==
  ASSUME NEW models \in Nat \ {0}, NEW keys \in Nat \ {0}
  PROVE  /\ models * keys \in Nat
         /\ \A i \in 1..models * keys :
              /\ (i - 1) \div keys \in 0..models - 1 /\ (i - 1) % keys \in 0..keys - 1
              /\ i = ((i - 1) \div keys) * keys + ((i - 1) % keys) + 1
         /\ \A q \in 0..models - 1, d \in 0..keys - 1 :
              /\ q * keys + d + 1 \in 1..models * keys
              /\ ((q * keys + d + 1) - 1) \div keys = q /\ ((q * keys + d + 1) - 1) % keys = d
<1>1. models * keys \in Nat
      OBVIOUS
<1>2. ASSUME NEW i \in 1..models * keys
      PROVE  /\ (i - 1) \div keys \in 0..models - 1 /\ (i - 1) % keys \in 0..keys - 1
             /\ i = ((i - 1) \div keys) * keys + ((i - 1) % keys) + 1
  <2> DEFINE q == (i - 1) \div keys
             d == (i - 1) % keys
  <2>1. i - 1 \in Nat
        BY <1>1
  <2>2. q \in Nat /\ d \in 0..keys - 1 /\ i - 1 = q * keys + d
        BY <2>1
  <2>3. q * keys + d < models * keys
        BY <1>1, <2>2
  <2> HIDE DEF q, d
  <2>4. q < models
        BY <2>2, <2>3
  <2>5. q * keys \in Nat
        BY <2>2
  <2>6. i = q * keys + d + 1
        BY <1>1, <2>2, <2>5
  <2>7. QED BY <2>2, <2>4, <2>6 DEF q, d
<1>3. ASSUME NEW q \in 0..models - 1, NEW d \in 0..keys - 1
      PROVE  /\ q * keys + d + 1 \in 1..models * keys
             /\ ((q * keys + d + 1) - 1) \div keys = q /\ ((q * keys + d + 1) - 1) % keys = d
  <2>1. q * keys \in Nat /\ q * keys + d \in 0..models * keys - 1
        OBVIOUS
  <2>2. (q * keys + d) \div keys = q /\ (q * keys + d) % keys = d
        OBVIOUS
  <2>3. (q * keys + d + 1) - 1 = q * keys + d
        BY <2>1
  <2>4. QED BY <1>1, <2>1, <2>2, <2>3
<1>4. QED BY <1>1, <1>2, <1>3

\* What synthesize_voice does with the sentence: model m speaks it, with the next key of good.
Turn(r, index, m, good, keys) ==
  /\ r.ok /\ r.model = m /\ r.key \in good
  /\ \E d \in 0..keys - 1 :
       /\ r.key = (index + d) % keys
       /\ \A e \in 0..keys - 1 : e < d => (index + e) % keys \notin good
       /\ r.index = (index + (d + 1)) % keys

\* The first model that works with any key speaks, with the next key that works with it.
LEMMA SpeaksNext ==
  ASSUME NEW models \in Nat \ {0}, NEW keys \in Nat \ {0}, NEW index \in 0..keys - 1,
         NEW works \in SUBSET ((0..models - 1) \X (0..keys - 1)),
         NEW m \in 0..models - 1, \A w \in works : w[1] >= m,
         NEW good, good = {k \in 0..keys - 1 : <<m, k>> \in works}, good # {}
  PROVE  Turn(Synthesize(index, models, keys, works), index, m, good, keys)
<1> DEFINE A == Attempts(index, models, keys)
           n == models * keys
           model(i) == (i - 1) \div keys
           turn(i) == (i - 1) % keys
           key(i) == (index + turn(i)) % keys
           I == {i \in 1..Len(A) : <<A[i].model, A[i].key>> \in works}
           i == IF I # {} THEN Min(I) ELSE 0
           r == Synthesize(index, models, keys, works)
<1>1. /\ n \in Nat
      /\ \A j \in 1..n : model(j) \in 0..models - 1 /\ turn(j) \in 0..keys - 1
                         /\ j = model(j) * keys + turn(j) + 1
      /\ \A d \in 0..keys - 1 : /\ m * keys + d + 1 \in 1..n
                                /\ model(m * keys + d + 1) = m /\ turn(m * keys + d + 1) = d
      BY AttemptsInTurn
<1> HIDE DEF n
<1>2. A = [j \in 1..n |-> [model |-> model(j), key |-> key(j)]]
      BY DEF Attempts, n
<1> HIDE DEF model, turn, A
<1>3. Len(A) = n /\ \A j \in 1..n : A[j].model = model(j) /\ A[j].key = key(j)
      BY <1>1, <1>2
<1>4. I \in SUBSET (1..n) /\ \A j \in 1..n : j \in I <=> <<model(j), key(j)>> \in works
      BY <1>3
<1>5. r = IF i = 0 THEN [ok |-> FALSE, model |-> 0, key |-> 0, index |-> index]
          ELSE [ok |-> TRUE, model |-> A[i].model, key |-> A[i].key,
                index |-> Advance(index, turn(i), keys)]
      BY DEF Synthesize, SelectInSeq, A, turn
<1> HIDE DEF I, r
<1>6. /\ i = 0 <=> I = {}
      /\ i # 0 => i \in I /\ i \in 1..n /\ \A j \in I : i <= j
  <2> DEFINE x == i
  <2>1. x = IF I # {} THEN Min(I) ELSE 0
        OBVIOUS
  <2> HIDE DEF x
  <2>2. /\ x = 0 <=> I = {}
        /\ x # 0 => x \in I /\ x \in 1..n /\ \A j \in I : x <= j
        BY <1>1, <1>4, <2>1, FirstPlace
  <2>3. QED BY <2>2 DEF x
<1> HIDE DEF i
<1>7. ASSUME NEW d \in 0..keys - 1
      PROVE  /\ m * keys + d + 1 \in 1..n
             /\ m * keys + d + 1 \in I <=> (index + d) % keys \in good
  <2>1. (index + d) % keys \in 0..keys - 1
        BY Round
  <2>2. m * keys + d + 1 \in I <=> <<m, (index + d) % keys>> \in works
        BY <1>1, <1>4
  <2>3. QED BY <1>1, <2>1, <2>2
<1>8. PICK d0 \in 0..keys - 1 : m * keys + d0 + 1 \in I
  <2>1. PICK k \in good : k \in 0..keys - 1
        OBVIOUS
  <2>2. Offset(k, index, keys) \in 0..keys - 1 /\ (index + Offset(k, index, keys)) % keys = k
        BY <2>1, Round
  <2>3. QED BY <1>7, <2>1, <2>2
<1>9. i # 0 /\ i \in I /\ i \in 1..n /\ i <= m * keys + d0 + 1
      BY <1>6, <1>8
<1>10. model(i) \in 0..models - 1 /\ turn(i) \in 0..keys - 1 /\ i = model(i) * keys + turn(i) + 1
      BY <1>1, <1>9
<1>11. model(i) = m
  <2>1. model(i) >= m
        BY <1>4, <1>9
  <2>2. ASSUME m < model(i) PROVE FALSE
    <3>1. m * keys + d0 < model(i) * keys + turn(i)
          BY <1>10, <2>2
    <3>2. m * keys + d0 \in Int /\ model(i) * keys + turn(i) \in Int
          BY <1>10
    <3>3. i > m * keys + d0 + 1
          BY <1>10, <3>1, <3>2
    <3>4. QED BY <1>9, <3>2, <3>3
  <2>3. QED BY <1>10, <2>1, <2>2
<1>12. r.ok /\ r.model = m /\ r.key = key(i) /\ r.index = (index + (turn(i) + 1)) % keys
  <2>1. index + turn(i) + 1 = index + (turn(i) + 1)
        BY <1>10
  <2>2. r.ok /\ r.model = A[i].model /\ r.key = A[i].key /\ r.index = Advance(index, turn(i), keys)
        BY <1>5, <1>9
  <2>3. Advance(index, turn(i), keys) = (index + (turn(i) + 1)) % keys
        BY <2>1 DEF Advance
  <2> HIDE DEF key
  <2>4. QED BY <1>3, <1>9, <1>11, <2>2, <2>3
<1>13. key(i) \in good
      BY <1>7, <1>9, <1>10, <1>11
<1>14. ASSUME NEW e \in 0..keys - 1, e < turn(i) PROVE (index + e) % keys \notin good
  <2>1. m * keys \in Int /\ e \in Int /\ turn(i) \in Int
        BY <1>10
  <2>2. m * keys + e + 1 < i
        BY <1>10, <1>11, <1>14, <2>1
  <2>3. m * keys + e + 1 \notin I
        BY <1>6, <1>9, <2>1, <2>2
  <2>4. QED BY <1>7, <2>3
<1>15. Turn(r, index, m, good, keys)
      BY <1>10, <1>12, <1>13, <1>14 DEF Turn
<1>16. QED BY <1>15 DEF r

\* The index stays the index of a key.
LEMMA IndexOfKey ==
  ASSUME NEW models \in Nat \ {0}, NEW keys \in Nat \ {0}, NEW index \in 0..keys - 1, NEW works
  PROVE  /\ Synthesize(index, models, keys, works).index \in 0..keys - 1
         /\ works = {} => ~Synthesize(index, models, keys, works).ok
<1> DEFINE A == Attempts(index, models, keys)
           n == models * keys
           I == {j \in 1..Len(A) : <<A[j].model, A[j].key>> \in works}
           i == IF I # {} THEN Min(I) ELSE 0
           turn == (i - 1) % keys
           r == Synthesize(index, models, keys, works)
<1>1. r = IF i = 0 THEN [ok |-> FALSE, model |-> 0, key |-> 0, index |-> index]
          ELSE [ok |-> TRUE, model |-> A[i].model, key |-> A[i].key,
                index |-> Advance(index, turn, keys)]
      BY DEF Synthesize, SelectInSeq
<1>2. n \in Nat
      OBVIOUS
<1> HIDE DEF n
<1>3. Len(A) = n
      BY <1>2 DEF Attempts, n
<1> HIDE DEF A
<1>4. I \in SUBSET (1..n)
      BY <1>3
<1>5. i \in 0..n
  <2> DEFINE x == i
  <2>1. x = IF I # {} THEN Min(I) ELSE 0
        OBVIOUS
  <2> HIDE DEF x, I
  <2>2. x # 0 => x \in 1..n
        BY <1>2, <1>4, <2>1, FirstPlace
  <2>3. x \in 0..n
        BY <1>2, <2>2
  <2>4. QED BY <2>3 DEF x
<1>6. works = {} => i = 0
      OBVIOUS
<1> HIDE DEF i, r
<1>7. i # 0 => Advance(index, turn, keys) \in 0..keys - 1
  <2>1. SUFFICES ASSUME i # 0 PROVE Advance(index, turn, keys) \in 0..keys - 1
        OBVIOUS
  <2>2. i - 1 \in Nat
        BY <1>2, <1>5, <2>1
  <2>3. turn \in 0..keys - 1
        BY <2>2
  <2> HIDE DEF turn
  <2>4. index + turn + 1 \in Nat
        BY <2>3
  <2>5. QED BY <2>4 DEF Advance
<1>8. r.index \in 0..keys - 1 /\ (works = {} => ~r.ok)
      BY <1>1, <1>6, <1>7
<1>9. QED BY <1>8 DEF r

\* Each sentence of the row begins with the index the one before has left.
Row(row, index, models, keys, works) ==
  /\ row[0].index = index
  /\ \A c \in 0..keys : row[c].index \in 0..keys - 1
  /\ \A c \in 1..keys : row[c] = Synthesize(row[c - 1].index, models, keys, works)

LEMMA RowOfSentences ==
  ASSUME NEW models \in Nat \ {0}, NEW keys \in Nat \ {0}, NEW index \in 0..keys - 1, NEW works,
         NEW row, row = InARow(index, models, keys, works)
  PROVE  Row(row, index, models, keys, works)
<1> DEFINE none == [ok |-> FALSE, model |-> 0, key |-> 0, index |-> index]
           next(r) == Synthesize(r.index, models, keys, works)
           S == {r \in {none} \cup {Synthesize(j, models, keys, works) : j \in 0..keys - 1} :
                   r.index \in 0..keys - 1}
           F == [p \in (1..keys) \X S |-> next(p[2])]
           step(g, c) == IF c = 0 THEN none ELSE next(g[c - 1])
<1>1. none.index = index
      OBVIOUS
<1> HIDE DEF none
<1>2. none \in S /\ \A r \in S : r.index \in 0..keys - 1
      BY <1>1
<1>3. ASSUME NEW r, r.index \in 0..keys - 1 PROVE next(r) \in S
      BY <1>3, IndexOfKey
<1> HIDE DEF S, next
<1>4. F \in [(1..keys) \X S -> S] /\ \A c \in 1..keys, r \in S : F[<<c, r>>] = next(r)
      BY <1>2, <1>3
<1> HIDE DEF F
<1>5. PICK g \in [0..keys -> S] : Recursive(g, F, none, keys)
      BY <1>2, <1>4, Recursion
<1>6. g = [c \in 0..keys |-> step(g, c)]
  <2>1. ASSUME NEW c \in 1..keys PROVE g[c] = next(g[c - 1])
    <3>1. g[c - 1] \in S
          OBVIOUS
    <3>2. QED BY <1>4, <1>5, <3>1 DEF Recursive
  <2>2. QED BY <1>5, <2>1 DEF Recursive
<1> DEFINE spoken == CHOOSE spoken : spoken = [c \in 0..keys |-> step(spoken, c)]
<1>7. spoken = [c \in 0..keys |-> step(spoken, c)] /\ row = spoken
      BY <1>6 DEF InARow, none, next
<1> HIDE DEF spoken
<1>8. row[0] = none /\ \A c \in 1..keys : row[c] = next(row[c - 1])
      BY <1>7
<1> DEFINE T == {c \in 0..keys : row[c].index \in 0..keys - 1}
<1>9. 0..keys \subseteq T
  <2>1. 0 \in T
        BY <1>1, <1>8
  <2>2. ASSUME NEW c \in 0..keys - 1, c \in T PROVE c + 1 \in T
    <3>1. c + 1 \in 1..keys /\ (c + 1) - 1 = c /\ c + 1 \in 0..keys
          OBVIOUS
    <3>2. row[c + 1] \in S
          BY <1>3, <1>8, <2>2, <3>1
    <3>3. QED BY <1>2, <3>1, <3>2
  <2> HIDE DEF T
  <2>3. QED BY <2>1, <2>2, Upward
<1>10. QED BY <1>1, <1>8, <1>9 DEF next, Row

TurnByTurn(row, index, m, good, keys) ==
  /\ row[0].index = index
  /\ \A c \in 1..keys : Turn(row[c], row[c - 1].index, m, good, keys)

\* The keys of the first n sentences.
KeysSpoken(row, n) == {row[c].key : c \in 1..n}

\* As many sentences as good has keys are spoken with all of them.
LEMMA KeysSpeakInTurn ==
  ASSUME NEW keys \in Nat \ {0}, NEW index \in 0..keys - 1, NEW m,
         NEW good \in SUBSET (0..keys - 1),
         NEW row, TurnByTurn(row, index, m, good, keys)
  PROVE  KeysSpoken(row, Cardinality(good)) = good
<1> DEFINE N == Cardinality(good)
           at(k) == Offset(k, index, keys)
           passed(p) == {k \in good : at(k) < p}
           Done(c, p) == /\ row[c].index = (index + p) % keys
                         /\ {row[b].key : b \in 1..c} = passed(p)
                         /\ Cardinality(passed(p)) = c
           T == {c \in 0..N : \E p \in 0..keys : Done(c, p)}
<1>1. IsFiniteSet(good) /\ N \in Nat /\ N <= keys
  <2>1. IsFiniteSet(0..keys - 1) /\ Cardinality(0..keys - 1) = keys
    <3>1. 0 \in Int /\ keys - 1 \in Int /\ ~(0 > keys - 1) /\ (keys - 1) - 0 + 1 = keys
          OBVIOUS
    <3>2. QED BY <3>1, FS_Interval
  <2>2. QED BY <2>1, FS_Subset, FS_CardinalityType
<1> USE DEF TurnByTurn, KeysSpoken
<1>2. \A k \in good : k \in 0..keys - 1 /\ at(k) \in 0..keys - 1 /\ (index + at(k)) % keys = k
      BY Round
<1> HIDE DEF N, at
<1>3. 0 \in T
  <2>1. passed(0) = {} /\ {row[b].key : b \in 1..0} = {}
    <3>1. \A k \in good : ~(at(k) < 0)
          BY <1>2
    <3>2. 1..0 = {}
          OBVIOUS
    <3>3. QED BY <3>1, <3>2
  <2>2. Cardinality({}) = 0
        BY FS_EmptySet
  <2>3. (index + 0) % keys = index
    <3>1. Offset(index, index, keys) = 0 /\ index \in 0..keys - 1
          BY DEF Offset
    <3>2. (index + Offset(index, index, keys)) % keys = index
          BY Round
    <3>3. QED BY <3>1, <3>2
  <2> HIDE DEF passed
  <2>4. Done(0, 0)
        BY <2>1, <2>2, <2>3
  <2> HIDE DEF Done
  <2>5. QED BY <1>1, <2>4
<1>4. ASSUME NEW c \in 0..N - 1, c \in T PROVE c + 1 \in T
  <2> DEFINE r == row[c + 1]
  <2>1. PICK p \in 0..keys : Done(c, p)
        BY <1>4
  <2>2. c + 1 \in 1..keys /\ (c + 1) - 1 = c /\ c + 1 \in 0..N /\ c \in Nat
        BY <1>1
  <2> DEFINE s == (index + p) % keys
  <2>3. Turn(r, s, m, good, keys)
        BY <2>1, <2>2
  <2> HIDE DEF r, s
  <2>4. PICK d \in 0..keys - 1 :
          /\ r.key = (s + d) % keys
          /\ \A e \in 0..keys - 1 : e < d => (s + e) % keys \notin good
          /\ r.index = (s + (d + 1)) % keys
        BY <2>3 DEF Turn
  <2>5. r.key \in good
        BY <2>3 DEF Turn
  <2>6. ASSUME NEW e \in 0..keys, p + e <= keys PROVE (s + e) % keys = (index + (p + e)) % keys
    <3>1. Onward(Onward(index, p, keys), e, keys) = Onward(index, p + e, keys)
          BY <2>6, RoundOn
    <3>2. QED BY <3>1 DEF s, Onward
  <2>7. ASSUME NEW k \in good, at(k) >= p
        PROVE  at(k) - p \in 0..keys - 1 /\ at(k) \in Int /\ (s + (at(k) - p)) % keys = k
    <3>1. /\ at(k) \in 0..keys - 1 /\ at(k) - p \in 0..keys - 1 /\ at(k) - p \in 0..keys
          /\ p + (at(k) - p) = at(k)
          BY <1>2, <2>7
    <3>2. (s + (at(k) - p)) % keys = (index + at(k)) % keys
          BY <2>6, <3>1
    <3>3. QED BY <1>2, <3>1, <3>2
  <2>8. \A k \in good : at(k) >= p => at(k) >= p + d
    <3>1. SUFFICES ASSUME NEW k \in good, at(k) >= p, ~(at(k) >= p + d) PROVE FALSE
          OBVIOUS
    <3>2. at(k) - p \in 0..keys - 1 /\ at(k) - p < d /\ (s + (at(k) - p)) % keys = k
          BY <2>7, <3>1
    <3>3. QED BY <2>4, <3>2
  <2>9. PICK k \in good : at(k) >= p
    <3>1. SUFFICES ASSUME \A k \in good : ~(at(k) >= p) PROVE FALSE
          OBVIOUS
    <3>2. \A k \in good : at(k) < p
          BY <1>2, <3>1
    <3>3. passed(p) = good
          BY <3>2
    <3> HIDE DEF passed
    <3>4. c = N
          BY <2>1, <3>3 DEF N
    <3>5. QED BY <1>1, <3>4
  <2>10. p + d < keys /\ p + d \in 0..keys - 1
    <3>1. at(k) \in 0..keys - 1 /\ at(k) >= p + d
          BY <1>2, <2>8, <2>9
    <3>2. QED BY <3>1
  <2>11. r.key = (index + (p + d)) % keys /\ at(r.key) = p + d
    <3>1. d \in 0..keys /\ p + d <= keys
          BY <2>10
    <3>2. r.key = (index + (p + d)) % keys
          BY <2>4, <2>6, <3>1
    <3>3. Offset((index + (p + d)) % keys, index, keys) = p + d
          BY <2>10, Round
    <3>4. QED BY <3>2, <3>3 DEF at
  <2> DEFINE q == p + d + 1
  <2>12. q \in 0..keys
        BY <2>10
  <2>13. \A j \in good : at(j) < q <=> at(j) < p \/ j = r.key
    <3>1. ASSUME NEW j \in good, at(j) = p + d PROVE j = r.key
          BY <1>2, <2>11, <3>1
    <3>2. TAKE j \in good
    <3>3. at(j) \in Int /\ (at(j) >= p => at(j) >= p + d)
          BY <1>2, <2>8
    <3>4. (at(j) = p + d => j = r.key) /\ (j = r.key => at(j) = p + d)
          BY <2>11, <3>1
    <3> DEFINE a == at(j)
    <3> HIDE DEF a
    <3>5. a < q <=> a < p \/ a = p + d
      <4>1. a \in Int /\ (a >= p => a >= p + d)
            BY <3>3 DEF a
      <4>2. QED BY <4>1
    <3>6. QED BY <3>4, <3>5, Zenon DEF a
  <2>14. passed(q) = passed(p) \cup {r.key} /\ r.key \notin passed(p)
    <3>1. passed(q) = passed(p) \cup {r.key}
          BY <2>5, <2>13
    <3>2. QED BY <2>11, <3>1
  <2>15. Cardinality(passed(q)) = c + 1
    <3>1. IsFiniteSet(passed(p)) /\ Cardinality(passed(p)) = c
          BY <1>1, <2>1, FS_Subset
    <3> HIDE DEF passed, q
    <3>2. QED BY <2>2, <2>14, <3>1, FS_AddElement
  <2>16. {row[b].key : b \in 1..c + 1} = {row[b].key : b \in 1..c} \cup {r.key}
    <3>1. 1..c + 1 = (1..c) \cup {c + 1}
          BY <2>2
    <3>2. QED BY <3>1 DEF r
  <2>17. r.index = (index + q) % keys
    <3>1. d + 1 \in 0..keys /\ p + (d + 1) <= keys /\ p + (d + 1) = q
          BY <2>10
    <3> HIDE DEF q
    <3>2. QED BY <2>4, <2>6, <3>1
  <2>18. Done(c + 1, q)
    <3> HIDE DEF passed, q
    <3>1. {row[b].key : b \in 1..c} = passed(p)
          BY <2>1
    <3>2. QED BY <2>14, <2>15, <2>16, <2>17, <3>1 DEF r
  <2> HIDE DEF Done, q
  <2>19. QED BY <2>2, <2>12, <2>18
<1>5. N \in T
  <2> HIDE DEF T
  <2>1. 0..N \subseteq T
        BY <1>1, <1>3, <1>4, Upward
  <2>2. QED BY <1>1, <2>1
<1>6. PICK p \in 0..keys : Done(N, p)
      BY <1>5
<1>7. passed(p) = good
  <2>1. passed(p) \in SUBSET good /\ Cardinality(passed(p)) = N
        BY <1>6
  <2> HIDE DEF passed
  <2>2. QED BY <1>1, <2>1, FS_Subset DEF N
<1>8. QED BY <1>6, <1>7 DEF N

\* Keys that work take turns, and the first model that works speaks (synthesize_voice).
LEMMA KeysTakeTheirTurns ==
  ASSUME NEW models \in Nat \ {0}, NEW keys \in Nat \ {0}, NEW index \in 0..keys - 1,
         NEW works \in SUBSET ((0..models - 1) \X (0..keys - 1))
  PROVE  KeysTakeTurns(index, models, keys, works)
<1> DEFINE row == InARow(index, models, keys, works)
           first == row[1]
           good == {k \in 0..keys - 1 : <<first.model, k>> \in works}
<1>1. /\ row[0].index = index
      /\ \A c \in 0..keys : row[c].index \in 0..keys - 1
      /\ \A c \in 1..keys : row[c] = Synthesize(row[c - 1].index, models, keys, works)
  <2>1. Row(row, index, models, keys, works)
        BY RowOfSentences
  <2>2. QED BY <2>1 DEF Row
<1> HIDE DEF row
<1>2. first = Synthesize(index, models, keys, works)
  <2>1. 1 \in 1..keys /\ 1 - 1 = 0
        OBVIOUS
  <2>2. QED BY <1>1, <2>1
<1>3. CASE works = {}
  <2>1. ~first.ok
        BY <1>2, <1>3, IndexOfKey
  <2>2. QED BY <1>3, <2>1 DEF KeysTakeTurns, row
<1>4. CASE works # {}
  <2> DEFINE M == {q \in 0..models - 1 : \E k \in 0..keys - 1 : <<q, k>> \in works}
  <2>1. PICK m \in M : \A q \in M : m <= q
    <3>1. M \in SUBSET Nat
          OBVIOUS
    <3>2. M # {}
      <4>1. PICK w \in works : w \in (0..models - 1) \X (0..keys - 1)
            BY <1>4
      <4>2. w = <<w[1], w[2]>> /\ w[1] \in 0..models - 1 /\ w[2] \in 0..keys - 1
            BY <4>1
      <4>3. QED BY <4>2
    <3> HIDE DEF M
    <3>3. QED BY <3>1, <3>2, LeastNumber
  <2>2. \A w \in works : w[1] >= m
    <3>1. TAKE w \in works
    <3>2. w = <<w[1], w[2]>> /\ w[1] \in 0..models - 1 /\ w[2] \in 0..keys - 1
          OBVIOUS
    <3>3. w[1] \in M
          BY <3>2
    <3>4. m <= w[1] /\ m \in Int /\ w[1] \in Int
          BY <2>1, <3>2, <3>3
    <3>5. QED BY <3>4
  <2> DEFINE G == {k \in 0..keys - 1 : <<m, k>> \in works}
  <2>3. m \in 0..models - 1 /\ G # {} /\ G \in SUBSET (0..keys - 1)
        BY <2>1
  <2>4. ASSUME NEW j \in 0..keys - 1
        PROVE  Turn(Synthesize(j, models, keys, works), j, m, G, keys)
    <3> DEFINE x == G
    <3>1. x = {k \in 0..keys - 1 : <<m, k>> \in works} /\ x # {}
          BY <2>3
    <3> HIDE DEF x
    <3>2. Turn(Synthesize(j, models, keys, works), j, m, x, keys)
          BY <2>2, <2>3, <3>1, SpeaksNext
    <3>3. QED BY <3>2 DEF x
  <2> HIDE DEF G
  <2>5. ASSUME NEW c \in 1..keys PROVE Turn(row[c], row[c - 1].index, m, G, keys)
    <3>1. c - 1 \in 0..keys
          OBVIOUS
    <3>2. QED BY <1>1, <2>4, <3>1
  <2>6. {row[c].key : c \in 1..Cardinality(G)} = G
    <3>1. TurnByTurn(row, index, m, G, keys)
          BY <1>1, <2>5 DEF TurnByTurn
    <3>2. KeysSpoken(row, Cardinality(G)) = G
          BY <2>3, <3>1, KeysSpeakInTurn
    <3>3. QED BY <3>2 DEF KeysSpoken
  <2>7. first.ok /\ first.model = m /\ first.key \in G
        BY <1>2, <2>4 DEF Turn
  <2>8. good = G /\ <<first.model, first.key>> \in works
        BY <2>7 DEF G
  <2> HIDE DEF first, good, M
  <2>9. /\ first.ok <=> works # {}
        /\ first.ok => /\ <<first.model, first.key>> \in works
                       /\ \A w \in works : w[1] >= first.model
                       /\ {row[c].key : c \in 1..Cardinality(good)} = good
        BY <1>4, <2>2, <2>6, <2>7, <2>8
  <2>10. QED BY <2>9 DEF KeysTakeTurns, row, first, good
<1>5. QED BY <1>3, <1>4

-----------------------------------------------------------------------------
(* Dubbing: the sentences.                                                 *)

Lines == [start : Int, end : Int, text : {"blank", "open", "ended"}]

LEMMA LineParts == \A line \in Lines : line.start \in Int /\ line.end \in Int
BY DEF Lines

\* Whole sentences, each parted from the next.
Chain(S) ==
  /\ \A k \in 1..Len(S) : Whole(S[k])
  /\ \A k \in 1..Len(S) - 1 : Parted(S[k], S[k + 1])

\* A sentence may follow.
MayFollow(S, s) == S # <<>> => Parted(S[Len(S)], s)

\* One more sentence.
LEMMA ChainGrows ==
  ASSUME NEW S \in Seq(Seq(Lines)), NEW s \in Seq(Lines), Chain(S), Whole(s), MayFollow(S, s)
  PROVE  Append(S, s) \in Seq(Seq(Lines)) /\ Chain(Append(S, s))
<1> DEFINE T == Append(S, s)
           N == Len(S)
<1>1. /\ T \in Seq(Seq(Lines)) /\ Len(T) = N + 1 /\ N \in Nat /\ T[N + 1] = s
      /\ \A k \in 1..N : T[k] = S[k]
      BY AppendProperties
<1> HIDE DEF T
<1>2. ASSUME NEW k \in 1..N + 1 PROVE Whole(T[k])
  <2>1. k = N + 1 \/ k \in 1..N
        BY <1>1
  <2>2. QED BY <1>1, <2>1 DEF Chain
<1>3. ASSUME NEW k \in 1..N PROVE Parted(T[k], T[k + 1])
  <2>1. CASE k = N
    <3>1. S # <<>>
          BY <2>1
    <3>2. QED BY <1>1, <2>1, <3>1 DEF MayFollow
  <2>2. CASE k # N
    <3>1. k \in 1..N - 1 /\ k + 1 \in 1..N
          BY <1>1, <2>2
    <3>2. QED BY <1>1, <3>1 DEF Chain
  <2>3. QED BY <2>1, <2>2
<1>4. (N + 1) - 1 = N
      BY <1>1
<1>5. Chain(T)
      BY <1>1, <1>2, <1>3, <1>4 DEF Chain
<1>6. QED BY <1>1, <1>5 DEF T

\* A line is whole by itself, and a sentence that it does not break stays whole with it.
LEMMA WholeGrows ==
  ASSUME NEW line \in Lines, NEW s \in Seq(Lines), Whole(s), ~Breaks(s, line)
  PROVE  Whole(Append(s, line))
<1> DEFINE t == Append(s, line)
           n == Len(s)
<1>1. /\ t \in Seq(Lines) /\ t # <<>> /\ Len(t) = n + 1 /\ n \in Nat /\ t[n + 1] = line
      /\ \A i \in 1..n : t[i] = s[i] /\ s[i] \in Lines
      BY AppendProperties
<1>2. n # 0 /\ Last(s) = s[n] /\ Head(s) = s[1]
      BY DEF Whole, Last
<1> HIDE DEF t
<1>3. /\ ~Ended(s[n]) /\ line.start - s[n].end <= MaxGap /\ line.end - s[1].start <= MaxDuration
  <2>1. line.start - s[n].end \in Int /\ line.end - s[1].start \in Int
    <3>1. n \in 1..n /\ 1 \in 1..n
          BY <1>1, <1>2
    <3>2. s[n] \in Lines /\ s[1] \in Lines
          BY <1>1, <3>1
    <3>3. QED BY <3>2, LineParts
  <2>2. MaxGap \in Int /\ MaxDuration \in Int
        BY DubbingAssumption DEF DubbingAssumption
  <2>3. /\ ~Ended(s[n]) /\ ~(line.start - s[n].end > MaxGap)
        /\ ~(line.end - s[1].start > MaxDuration)
        BY <1>2 DEF Breaks
  <2>4. QED BY <2>1, <2>2, <2>3
<1>4. ASSUME NEW i \in 1..n PROVE ~Ended(t[i]) /\ t[i + 1].start - t[i].end <= MaxGap
  <2>1. CASE i = n
        BY <1>1, <1>3, <2>1
  <2>2. CASE i # n
    <3>1. i \in 1..n - 1 /\ i + 1 \in 1..n
          BY <1>1, <2>2
    <3>2. QED BY <1>1, <3>1 DEF Whole
  <2>3. QED BY <2>1, <2>2
<1>5. ASSUME NEW i \in 2..n + 1 PROVE t[i].end - t[1].start <= MaxDuration
  <2>1. t[1] = s[1]
        BY <1>1, <1>2
  <2>2. CASE i = n + 1
        BY <1>1, <1>3, <2>1, <2>2
  <2>3. CASE i # n + 1
    <3>1. i \in 2..n /\ i \in 1..n
          BY <1>1, <2>3
    <3>2. QED BY <1>1, <2>1, <3>1 DEF Whole
  <2>4. QED BY <2>2, <2>3
<1>6. (n + 1) - 1 = n
      BY <1>1
<1>7. Whole(t)
      BY <1>1, <1>4, <1>5, <1>6 DEF Whole
<1>8. QED BY <1>7 DEF t

LEMMA LineIsWhole ==
  ASSUME NEW line \in Lines
  PROVE  /\ <<line>> \in Seq(Lines) /\ Whole(<<line>>) /\ Last(<<line>>) = line
         /\ \A s \in Seq(Lines) : s # <<>> /\ Breaks(s, line) => Parted(s, <<line>>)
<1> DEFINE t == <<line>>
<1>1. t \in Seq(Lines) /\ t # <<>> /\ Len(t) = 1 /\ t[1] = line
      OBVIOUS
<1> HIDE DEF t
<1>2. Whole(t) /\ Last(t) = line
  <2>1. 1..1 - 1 = {} /\ 2..1 = {}
        OBVIOUS
  <2>2. QED BY <1>1, <2>1 DEF Whole, Last
<1>3. \A s \in Seq(Lines) : s # <<>> /\ Breaks(s, line) => Parted(s, t)
      BY <1>1 DEF Breaks, Parted, Last
<1>4. QED BY <1>1, <1>2, <1>3 DEF t

\* The lines of the first n that have a text.
Kept(lines, n) == At(lines, Ascending({i \in 1..n : lines[i].text # "blank"}))

\* One more line.
LEMMA KeptGrows ==
  ASSUME NEW lines \in Seq(Lines), NEW n \in 0..Len(lines) - 1
  PROVE  /\ Kept(lines, n) \in Seq(Lines)
         /\ Kept(lines, n + 1) = IF lines[n + 1].text = "blank" THEN Kept(lines, n)
                                 ELSE Append(Kept(lines, n), lines[n + 1])
<1> DEFINE T == {i \in 1..n : lines[i].text # "blank"}
           U == {i \in 1..n + 1 : lines[i].text # "blank"}
<1>1. n \in Nat /\ 1..n + 1 = (1..n) \cup {n + 1} /\ T \in SUBSET (1..n)
      OBVIOUS
<1>2. /\ At(lines, Ascending(T)) \in Seq(Lines)
      /\ At(lines, Ascending(T \cup {n + 1})) = Append(At(lines, Ascending(T)), lines[n + 1])
  <2> HIDE DEF T
  <2>1. QED BY <1>1, OneMorePicked
<1>3. CASE lines[n + 1].text = "blank"
  <2>1. U = T
        BY <1>1, <1>3
  <2>2. QED BY <1>2, <1>3, <2>1 DEF Kept
<1>4. CASE lines[n + 1].text # "blank"
  <2>1. U = T \cup {n + 1}
        BY <1>1, <1>4
  <2>2. QED BY <1>2, <1>4, <2>1 DEF Kept
<1>5. QED BY <1>3, <1>4

States == [done : Seq(Seq(Lines)), group : Seq(Lines)]

\* The finished groups are sentences, and the current one may become one; together they have
\* the lines that are kept.
Grouping(st, kept) ==
  /\ FlattenSeq(st.done) \o st.group = kept
  /\ Chain(st.done)
  /\ st.group # <<>> => Whole(st.group) /\ ~Ended(Last(st.group)) /\ MayFollow(st.done, st.group)
  /\ st.group = <<>> /\ st.done # <<>> => Ended(Last(Last(st.done)))

\* Sentences, and after them one that ends with a line; together they have the lines all.
EndsWith(d, g, line, all) ==
  /\ d \in Seq(Seq(Lines)) /\ g \in Seq(Lines) /\ g # <<>> /\ Last(g) = line
  /\ Chain(d) /\ Whole(g) /\ MayFollow(d, g)
  /\ FlattenSeq(d) \o g = all

\* What the loop makes of the groups before it looks whether the line ends its sentence.
LEMMA GroupHasLine ==
  ASSUME NEW done \in Seq(Seq(Lines)), NEW group \in Seq(Lines), NEW kept, NEW line \in Lines,
         Grouping([done |-> done, group |-> group], kept),
         NEW breaks, breaks = (group # <<>> /\ Breaks(group, line)),
         NEW d, d = IF breaks THEN Append(done, group) ELSE done,
         NEW g, g = IF breaks THEN <<line>> ELSE Append(group, line)
  PROVE  EndsWith(d, g, line, Append(kept, line))
<1> USE DEF EndsWith
<1> DEFINE flat == FlattenSeq(done)
<1>1. /\ flat \o group = kept /\ Chain(done)
      /\ group # <<>> => Whole(group) /\ ~Ended(Last(group)) /\ MayFollow(done, group)
      /\ group = <<>> /\ done # <<>> => Ended(Last(Last(done)))
      BY DEF Grouping
<1>2. flat \in Seq(Lines) /\ FlattenSeq(Append(done, group)) = flat \o group
      BY FlattenAppend
<1>3. <<line>> \in Seq(Lines) /\ Whole(<<line>>) /\ Last(<<line>>) = line /\ <<line>> # <<>>
      BY LineIsWhole
<1>4. flat \o group \in Seq(Lines) /\ (flat \o group) \o <<line>> = Append(flat \o group, line)
  <2>1. flat \o group \in Seq(Lines)
        BY <1>2, ConcatProperties
  <2> HIDE DEF flat
  <2>2. QED BY <2>1, AppendIsConcat
<1> HIDE DEF flat
<1>5. CASE breaks
  <2>1. d = Append(done, group) /\ g = <<line>> /\ group # <<>> /\ Breaks(group, line)
        BY <1>5
  <2>2. d \in Seq(Seq(Lines)) /\ Chain(d)
        BY <1>1, <2>1, ChainGrows
  <2>3. MayFollow(d, g)
    <3>1. d[Len(d)] = group
          BY <2>1, AppendProperties
    <3>2. Parted(group, g)
          BY <2>1, LineIsWhole
    <3>3. QED BY <3>1, <3>2 DEF MayFollow
  <2>4. FlattenSeq(d) \o g = Append(kept, line)
        BY <1>1, <1>2, <1>4, <2>1
  <2>5. QED BY <1>3, <2>1, <2>2, <2>3, <2>4
<1>6. CASE ~breaks
  <2>1. d = done /\ g = Append(group, line)
        BY <1>6
  <2>2. /\ g \in Seq(Lines) /\ g # <<>> /\ Len(g) = Len(group) + 1 /\ g[Len(group) + 1] = line
        /\ \A i \in 1..Len(group) : g[i] = group[i]
        BY <2>1, AppendProperties
  <2>3. Last(g) = line
        BY <2>2 DEF Last
  <2>4. FlattenSeq(d) \o g = Append(kept, line)
    <3>1. g = group \o <<line>>
          BY <2>1, AppendIsConcat
    <3>2. flat \o (group \o <<line>>) = (flat \o group) \o <<line>>
          BY <1>2, <1>3, ConcatAssociative
    <3>3. QED BY <1>1, <1>4, <2>1, <3>1, <3>2 DEF flat
  <2>5. CASE group = <<>>
    <3>1. g = <<line>>
          BY <2>1, <2>5
    <3>2. MayFollow(d, g)
      <4>1. done # <<>> => Ended(Last(Last(done)))
            BY <1>1, <2>5
      <4>2. Last(done) = done[Len(done)] /\ Last(Last(done)) = Last(done)[Len(Last(done))]
            BY DEF Last
      <4>3. done # <<>> => Parted(done[Len(done)], g)
            BY <4>1, <4>2 DEF Parted
      <4>4. QED BY <2>1, <4>3 DEF MayFollow
    <3>3. QED BY <1>1, <1>3, <2>1, <2>2, <2>3, <2>4, <3>1, <3>2
  <2>6. CASE group # <<>>
    <3>1. ~Breaks(group, line) /\ Whole(group)
          BY <1>1, <1>6, <2>6
    <3>2. Whole(g)
          BY <2>1, <3>1, WholeGrows
    <3>3. MayFollow(d, g)
      <4>1. g[1] = group[1]
        <5>1. 1 \in 1..Len(group)
              BY <2>6
        <5>2. QED BY <2>2, <5>1
      <4>2. MayFollow(done, group)
            BY <1>1, <2>6
      <4>3. QED BY <2>1, <4>1, <4>2 DEF MayFollow, Parted
    <3>4. QED BY <1>1, <2>1, <2>2, <2>3, <2>4, <3>2, <3>3
  <2>7. QED BY <2>5, <2>6
<1>7. QED BY <1>5, <1>6

\* The loop's body.
LEMMA GroupingGoesOn ==
  ASSUME NEW st \in States, NEW kept, NEW line \in Lines, Grouping(st, kept)
  PROVE  /\ AddLine(st, line) \in States
         /\ Grouping(AddLine(st, line),
                     IF line.text = "blank" THEN kept ELSE Append(kept, line))
<1> DEFINE breaks == st.group # <<>> /\ Breaks(st.group, line)
           d == IF breaks THEN Append(st.done, st.group) ELSE st.done
           g == IF breaks THEN <<line>> ELSE Append(st.group, line)
           out == AddLine(st, line)
<1>1. st.done \in Seq(Seq(Lines)) /\ st.group \in Seq(Lines)
      /\ st = [done |-> st.done, group |-> st.group]
      BY DEF States
<1>2. CASE line.text = "blank"
      BY <1>2 DEF AddLine
<1>3. CASE line.text # "blank"
  <2>1. Grouping([done |-> st.done, group |-> st.group], kept)
        BY <1>1
  <2>2. /\ d \in Seq(Seq(Lines)) /\ g \in Seq(Lines) /\ g # <<>> /\ Last(g) = line
        /\ Chain(d) /\ Whole(g) /\ MayFollow(d, g)
        /\ FlattenSeq(d) \o g = Append(kept, line)
    <3> DEFINE b == breaks
               x == d
               y == g
    <3>1. /\ b = (st.group # <<>> /\ Breaks(st.group, line))
          /\ x = IF b THEN Append(st.done, st.group) ELSE st.done
          /\ y = IF b THEN <<line>> ELSE Append(st.group, line)
          OBVIOUS
    <3> HIDE DEF b, x, y
    <3>2. EndsWith(x, y, line, Append(kept, line))
          BY <1>1, <2>1, <3>1, GroupHasLine
    <3>3. EndsWith(d, g, line, Append(kept, line))
          BY <3>2 DEF x, y
    <3>4. QED BY <3>3 DEF EndsWith
  <2>3. out = IF Ended(line) THEN [done |-> Append(d, g), group |-> <<>>]
              ELSE [done |-> d, group |-> g]
        BY <1>3 DEF AddLine
  <2> HIDE DEF out, d, g
  <2>4. CASE Ended(line)
    <3>1. /\ out.done = Append(d, g) /\ out.group = <<>>
          /\ out = [done |-> Append(d, g), group |-> <<>>]
          BY <2>3, <2>4
    <3>2. Append(d, g) \in Seq(Seq(Lines)) /\ Chain(Append(d, g))
          BY <2>2, ChainGrows
    <3>3. <<>> \in Seq(Lines)
          OBVIOUS
    <3>4. out \in States
          BY <3>1, <3>2, <3>3 DEF States
    <3>5. FlattenSeq(Append(d, g)) \o <<>> = Append(kept, line)
      <4>1. FlattenSeq(d) \in Seq(Lines) /\ FlattenSeq(Append(d, g)) = FlattenSeq(d) \o g
            BY <2>2, FlattenAppend
      <4>2. FlattenSeq(d) \o g \in Seq(Lines)
            BY <2>2, <4>1, ConcatProperties
      <4>3. QED BY <2>2, <4>1, <4>2, ConcatEmptySeq
    <3>6. Last(Append(d, g)) = g
          BY <2>2, AppendProperties DEF Last
    <3>7. Grouping(out, Append(kept, line))
          BY <2>2, <2>4, <3>1, <3>2, <3>5, <3>6 DEF Grouping
    <3>8. QED BY <1>3, <3>4, <3>7 DEF out
  <2>5. CASE ~Ended(line)
    <3>1. out.done = d /\ out.group = g /\ out = [done |-> d, group |-> g]
          BY <2>3, <2>5
    <3>2. out \in States
          BY <2>2, <3>1 DEF States
    <3>3. Grouping(out, Append(kept, line))
          BY <2>2, <2>5, <3>1 DEF Grouping
    <3>4. QED BY <1>3, <3>2, <3>3 DEF out
  <2>6. QED BY <2>4, <2>5
<1>4. QED BY <1>2, <1>3

LEMMA StateStaysState ==
  ASSUME NEW st \in States, NEW line \in Lines
  PROVE  AddLine(st, line) \in States
<1> DEFINE breaks == st.group # <<>> /\ Breaks(st.group, line)
           d == IF breaks THEN Append(st.done, st.group) ELSE st.done
           g == IF breaks THEN <<line>> ELSE Append(st.group, line)
<1>1. st.done \in Seq(Seq(Lines)) /\ st.group \in Seq(Lines)
      BY DEF States
<1>2. d \in Seq(Seq(Lines)) /\ g \in Seq(Lines)
      BY <1>1, AppendProperties, LineIsWhole
<1>3. AddLine(st, line) = IF line.text = "blank" THEN st
                          ELSE IF Ended(line) THEN [done |-> Append(d, g), group |-> <<>>]
                          ELSE [done |-> d, group |-> g]
      BY DEF AddLine
<1> HIDE DEF d, g
<1>4. Append(d, g) \in Seq(Seq(Lines)) /\ <<>> \in Seq(Lines)
      BY <1>2, AppendProperties
<1>5. QED BY <1>2, <1>3, <1>4 DEF States

\* The loop ends with the groups of all lines.
LEMMA LinesGrouped ==
  ASSUME NEW lines \in Seq(Lines)
  PROVE  Grouped(lines) \in States /\ Grouping(Grouped(lines), Kept(lines, Len(lines)))
<1> DEFINE N == Len(lines)
           none == [done |-> <<>>, group |-> <<>>]
           F == [p \in (1..N) \X States |-> AddLine(p[2], lines[p[1]])]
           step(g, n) == IF n = 0 THEN none ELSE AddLine(g[n - 1], lines[n])
<1>1. N \in Nat /\ \A n \in 1..N : lines[n] \in Lines
      OBVIOUS
<1>2. none \in States
      BY DEF States
<1>3. F \in [(1..N) \X States -> States]
      /\ \A n \in 1..N, st \in States : F[<<n, st>>] = AddLine(st, lines[n])
  <2>1. \A n \in 1..N, st \in States : AddLine(st, lines[n]) \in States
        BY <1>1, StateStaysState
  <2>2. QED BY <2>1
<1> HIDE DEF F, none
<1>4. PICK g \in [0..N -> States] : Recursive(g, F, none, N)
      BY <1>1, <1>2, <1>3, Recursion
<1>5. g = [n \in 0..N |-> step(g, n)]
  <2>1. ASSUME NEW n \in 1..N PROVE g[n] = AddLine(g[n - 1], lines[n])
    <3>1. g[n - 1] \in States
          BY <1>1
    <3>2. QED BY <1>3, <1>4, <3>1 DEF Recursive
  <2>2. QED BY <1>1, <1>4, <2>1 DEF Recursive
<1> DEFINE st == CHOOSE st : st = [n \in 0..N |-> step(st, n)]
<1>6. st = [n \in 0..N |-> step(st, n)] /\ Grouped(lines) = st[N]
      BY <1>5 DEF Grouped, none
<1> HIDE DEF st
<1>7. st[0] = none /\ \A n \in 1..N : st[n] = AddLine(st[n - 1], lines[n])
      BY <1>1, <1>6
<1> DEFINE T == {n \in 0..N : st[n] \in States /\ Grouping(st[n], Kept(lines, n))}
<1>8. 0 \in T
  <2>1. Kept(lines, 0) = <<>>
    <3>1. {i \in 1..0 : lines[i].text # "blank"} = {}
          OBVIOUS
    <3>2. QED BY <3>1, NothingPicked DEF Kept
  <2>2. Grouping(none, <<>>)
    <3>1. none.done = <<>> /\ none.group = <<>>
          BY DEF none
    <3>2. FlattenSeq(<<>>) \o <<>> = <<>>
          BY DEF FlattenSeq
    <3>3. Chain(<<>>)
          BY DEF Chain
    <3>4. QED BY <3>1, <3>2, <3>3 DEF Grouping
  <2>3. QED BY <1>1, <1>2, <1>7, <2>1, <2>2
<1>9. ASSUME NEW n \in 0..N - 1, n \in T PROVE n + 1 \in T
  <2>1. n + 1 \in 1..N /\ (n + 1) - 1 = n /\ n + 1 \in 0..N /\ lines[n + 1] \in Lines
        BY <1>1
  <2>2. st[n + 1] = AddLine(st[n], lines[n + 1])
        BY <1>7, <2>1
  <2>3. st[n] \in States /\ Grouping(st[n], Kept(lines, n))
        BY <1>9
  <2>4. Kept(lines, n + 1) = IF lines[n + 1].text = "blank" THEN Kept(lines, n)
                             ELSE Append(Kept(lines, n), lines[n + 1])
        BY KeptGrows
  <2>5. st[n + 1] \in States /\ Grouping(st[n + 1], Kept(lines, n + 1))
        BY <2>1, <2>2, <2>3, <2>4, GroupingGoesOn
  <2>6. QED BY <2>1, <2>5
<1>10. N \in T
  <2> HIDE DEF T, N
  <2>1. 0..N \subseteq T
        BY <1>1, <1>8, <1>9, Upward
  <2>2. QED BY <1>1, <2>1
<1>11. QED BY <1>6, <1>10

\* Subtitles become whole sentences (group_segments_into_sentences).
LEMMA SentencesAreRight ==
  ASSUME NEW lines \in Seq(Lines)
  PROVE  SentencesAreWhole(lines)
<1> DEFINE st == Grouped(lines)
           S == Sentences(lines)
           kept == Kept(lines, Len(lines))
<1>1. st.done \in Seq(Seq(Lines)) /\ st.group \in Seq(Lines) /\ Grouping(st, kept)
      BY LinesGrouped DEF States
<1>2. S = IF st.group = <<>> THEN st.done ELSE Append(st.done, st.group)
      BY DEF Sentences
<1>3. kept = At(lines, Ascending({i \in DOMAIN lines : lines[i].text # "blank"}))
  <2>1. DOMAIN lines = 1..Len(lines)
        OBVIOUS
  <2>2. QED BY <2>1 DEF Kept
<1> HIDE DEF st, S, kept
<1>4. FlattenSeq(S) = kept /\ Chain(S) /\ DOMAIN S = 1..Len(S)
  <2>1. FlattenSeq(st.done) \o st.group = kept /\ Chain(st.done)
        BY <1>1 DEF Grouping
  <2>2. /\ FlattenSeq(st.done) \in Seq(Lines)
        /\ FlattenSeq(Append(st.done, st.group)) = FlattenSeq(st.done) \o st.group
        BY <1>1, FlattenAppend
  <2>3. CASE st.group = <<>>
    <3>1. FlattenSeq(st.done) \o <<>> = FlattenSeq(st.done)
          BY <2>2, ConcatEmptySeq
    <3>2. QED BY <1>1, <1>2, <2>1, <2>3, <3>1
  <2>4. CASE st.group # <<>>
    <3>1. Whole(st.group) /\ MayFollow(st.done, st.group)
          BY <1>1, <2>4 DEF Grouping
    <3>2. Append(st.done, st.group) \in Seq(Seq(Lines)) /\ Chain(Append(st.done, st.group))
          BY <1>1, <2>1, <3>1, ChainGrows
    <3>3. S = Append(st.done, st.group) /\ S \in Seq(Seq(Lines))
          BY <1>2, <2>4, <3>2
    <3>4. QED BY <2>1, <2>2, <3>2, <3>3
  <2>5. QED BY <2>3, <2>4
<1>5. QED BY <1>3, <1>4 DEF SentencesAreWhole, Chain, S

-----------------------------------------------------------------------------
(* Archive: the inventory.                                                 *)

Files == [dir : Dirs \cup {Root}, video : BOOLEAN]
Chapters == [title : Dirs \cup {FirstChapter}, lessons : Seq(Nat)]
Scans == [chapters : Seq(Chapters), counter : Nat]

\* Lesson n is in one chapter, the one of the directory of the n-th video.
Placed(I, n, dir) ==
  \E c \in DOMAIN I : /\ I[c].title = ChapterOf(dir)
                      /\ \A d \in DOMAIN I : n \in ToSet(I[d].lessons) <=> d = c

\* A chapter has some of the first N lessons, in their order, the first one after those of the
\* chapters before it.
Shelved(I, c, N) ==
  /\ I[c].title # Root /\ I[c].lessons # <<>>
  /\ ToSet(I[c].lessons) \subseteq 1..N
  /\ \A i, j \in DOMAIN I[c].lessons : i < j => I[c].lessons[i] < I[c].lessons[j]
  /\ \A d \in 1..c - 1 : I[d].lessons[1] < I[c].lessons[1]

\* The chapters have different titles, and the lessons of the videos.
Sealed(I, videos) ==
  /\ \A n \in DOMAIN videos : Placed(I, n, videos[n].dir)
  /\ \A c, d \in DOMAIN I : I[c].title = I[d].title => c = d
  /\ \A c \in DOMAIN I : Shelved(I, c, Len(videos))

\* One more lesson in a chapter.
LEMMA LessonAppended ==
  ASSUME NEW L \in Seq(Nat), NEW n \in Nat
  PROVE  /\ Append(L, n) \in Seq(Nat) /\ Append(L, n) # <<>>
         /\ ToSet(Append(L, n)) = ToSet(L) \cup {n}
         /\ DOMAIN L = 1..Len(L) /\ DOMAIN Append(L, n) = 1..Len(L) + 1
         /\ \A i \in 1..Len(L) : Append(L, n)[i] = L[i]
         /\ Append(L, n)[Len(L) + 1] = n
         /\ L # <<>> => 1 \in DOMAIN L /\ Append(L, n)[1] = L[1] /\ L[1] \in ToSet(L)
<1> DEFINE N == Len(L)
           b == Append(L, n)
<1>1. /\ N \in Nat /\ DOMAIN L = 1..N /\ DOMAIN b = 1..N + 1 /\ b \in Seq(Nat) /\ b # <<>>
      /\ b[N + 1] = n /\ \A i \in 1..N : b[i] = L[i]
      BY AppendProperties
<1>2. 1..N + 1 = (1..N) \cup {N + 1}
      BY <1>1
<1>3. ToSet(b) = ToSet(L) \cup {n}
  <2> HIDE DEF b, N
  <2>1. ToSet(b) \subseteq ToSet(L) \cup {n}
        BY <1>1, <1>2 DEF ToSet
  <2>2. ToSet(L) \cup {n} \subseteq ToSet(b)
        BY <1>1, <1>2 DEF ToSet
  <2>3. QED BY <2>1, <2>2
<1>4. L # <<>> => 1 \in 1..N
      OBVIOUS
<1>5. L # <<>> => 1 \in DOMAIN L /\ b[1] = L[1] /\ L[1] \in ToSet(L)
  <2> HIDE DEF b, N
  <2>1. QED BY <1>1, <1>4 DEF ToSet
<1>6. QED BY <1>1, <1>3, <1>5

\* One more video, in a chapter that is there.
LEMMA LessonJoins ==
  ASSUME NEW I \in Seq(Chapters), NEW videos \in Seq(Files), Sealed(I, videos),
         NEW file \in Files,
         \E i \in DOMAIN I : I[i].title = ChapterOf(file.dir)
  PROVE  /\ WithLesson(I, ChapterOf(file.dir), Len(videos) + 1) \in Seq(Chapters)
         /\ Sealed(WithLesson(I, ChapterOf(file.dir), Len(videos) + 1), Append(videos, file))
<1> DEFINE c == ChapterOf(file.dir)
           N == Len(videos)
           n == N + 1
           v == Append(videos, file)
           J == WithLesson(I, c, n)
<1>1. PICK i \in DOMAIN I : I[i].title = c
      OBVIOUS
<1>2. /\ DOMAIN I = 1..Len(I) /\ Len(I) \in Nat
      /\ \A d \in DOMAIN I : I[d] \in Chapters
      OBVIOUS
<1>3. /\ N \in Nat /\ n \in Nat /\ DOMAIN videos = 1..N /\ DOMAIN v = 1..n /\ Len(v) = n
      /\ v[n] = file /\ \A k \in 1..N : v[k] = videos[k]
      /\ 1..n = (1..N) \cup {n} /\ n \notin 1..N
      BY AppendProperties
<1>4. \A d \in DOMAIN I : I[d].title \in Dirs \cup {FirstChapter} /\ I[d].lessons \in Seq(Nat)
  <2>1. \A x \in Chapters : x.title \in Dirs \cup {FirstChapter} /\ x.lessons \in Seq(Nat)
        BY DEF Chapters
  <2>2. QED BY <1>2, <2>1
<1> DEFINE L == I[i].lessons
           K == Append(L, n)
<1>5. /\ \A k \in DOMAIN videos : Placed(I, k, videos[k].dir)
      /\ \A d, e \in DOMAIN I : I[d].title = I[e].title => d = e
      /\ \A d \in DOMAIN I : Shelved(I, d, N)
      BY DEF Sealed
<1>6. L \in Seq(Nat) /\ L # <<>> /\ ToSet(L) \subseteq 1..N
      BY <1>1, <1>4, <1>5 DEF Shelved
<1>7. /\ K \in Seq(Nat) /\ K # <<>> /\ ToSet(K) = ToSet(L) \cup {n}
      /\ DOMAIN L = 1..Len(L) /\ DOMAIN K = 1..Len(L) + 1
      /\ \A k \in 1..Len(L) : K[k] = L[k]
      /\ K[Len(L) + 1] = n /\ K[1] = L[1] /\ L[1] \in ToSet(L)
  <2> HIDE DEF L, n
  <2>1. QED BY <1>3, <1>6, LessonAppended
<1>8. J = [d \in DOMAIN I |-> IF I[d].title = c THEN [I[d] EXCEPT !.lessons = Append(@, n)]
                              ELSE I[d]]
      BY <1>1 DEF WithLesson
<1>9. /\ DOMAIN J = DOMAIN I /\ J[i] = [I[i] EXCEPT !.lessons = K]
      /\ \A d \in DOMAIN I : d # i => J[d] = I[d]
  <2> HIDE DEF c, n, J
  <2>1. QED BY <1>1, <1>5, <1>8
<1> HIDE DEF J, L, n, c, v, N
<1>10. J[i].title = c /\ J[i].lessons = K /\ J[i] \in Chapters
  <2>1. /\ I[i] = [title |-> I[i].title, lessons |-> I[i].lessons]
        BY <1>1, <1>2 DEF Chapters
  <2>2. J[i] = [title |-> I[i].title, lessons |-> K]
        BY <1>9, <2>1
  <2>3. QED BY <1>1, <1>4, <1>7, <2>2 DEF Chapters
<1> HIDE DEF K
<1>11. J \in Seq(Chapters)
  <2>1. \A d \in DOMAIN I : J[d] \in Chapters
        BY <1>2, <1>9, <1>10
  <2>2. J = [d \in DOMAIN I |-> J[d]]
        BY <1>8, <1>9
  <2>3. J \in [1..Len(I) -> Chapters]
        BY <1>2, <2>1, <2>2
  <2>4. QED BY <1>2, <2>3
<1>12. \A d \in DOMAIN I : J[d].title = I[d].title
       BY <1>1, <1>9, <1>10
<1>13. \A d \in DOMAIN I : \A k \in 1..N : k \in ToSet(J[d].lessons) <=> k \in ToSet(I[d].lessons)
       BY <1>3, <1>7, <1>9, <1>10 DEF L
<1>14. \A d \in DOMAIN I : n \in ToSet(J[d].lessons) <=> d = i
  <2>1. \A d \in DOMAIN I : n \notin ToSet(I[d].lessons)
        BY <1>3, <1>5 DEF Shelved
  <2>2. QED BY <1>7, <1>9, <1>10, <2>1
<1>15. ASSUME NEW k \in DOMAIN v PROVE Placed(J, k, v[k].dir)
  <2>1. CASE k = n
    <3>1. v[k] = file
          BY <1>3, <2>1
    <3>2. i \in DOMAIN J /\ J[i].title = ChapterOf(file.dir)
          BY <1>9, <1>10 DEF c
    <3>3. \A d \in DOMAIN J : k \in ToSet(J[d].lessons) <=> d = i
          BY <1>9, <1>14, <2>1
    <3>4. QED BY <3>1, <3>2, <3>3 DEF Placed
  <2>2. CASE k # n
    <3>1. k \in 1..N /\ v[k] = videos[k] /\ Placed(I, k, videos[k].dir)
          BY <1>3, <1>5, <2>2
    <3>2. QED BY <1>9, <1>12, <1>13, <3>1 DEF Placed
  <2>3. QED BY <2>1, <2>2
<1>16. \A d, e \in DOMAIN J : J[d].title = J[e].title => d = e
       BY <1>5, <1>9, <1>12
<1>17. \A d \in DOMAIN I : J[d].lessons[1] = I[d].lessons[1]
       BY <1>7, <1>9, <1>10 DEF L
<1>18. ASSUME NEW d \in DOMAIN J PROVE Shelved(J, d, n)
  <2>1. d \in DOMAIN I /\ Shelved(I, d, N)
        BY <1>5, <1>9
  <2>2. \A e \in 1..d - 1 : J[e].lessons[1] < J[d].lessons[1]
    <3>1. \A e \in 1..d - 1 : e \in DOMAIN I
          BY <1>2, <2>1
    <3>2. QED BY <1>17, <2>1, <3>1 DEF Shelved
  <2>3. J[d].title # Root
        BY <1>12, <2>1 DEF Shelved
  <2>4. /\ J[d].lessons # <<>> /\ ToSet(J[d].lessons) \subseteq 1..n
        /\ \A x, y \in DOMAIN J[d].lessons : x < y => J[d].lessons[x] < J[d].lessons[y]
    <3>1. CASE d # i
          BY <1>3, <1>9, <2>1, <3>1 DEF Shelved
    <3>2. CASE d = i
      <4>1. K # <<>> /\ ToSet(K) \subseteq 1..n
            BY <1>3, <1>6, <1>7
      <4>2. \A x, y \in DOMAIN L : x < y => L[x] < L[y]
            BY <1>1, <1>5 DEF Shelved, L
      <4>3. \A x \in DOMAIN L : L[x] \in 1..N /\ L[x] < n
        <5>1. \A x \in DOMAIN L : L[x] \in ToSet(L)
              BY DEF ToSet
        <5>2. \A z \in 1..N : z < n
              BY <1>3 DEF n
        <5>3. QED BY <1>6, <5>1, <5>2
      <4>4. Len(L) \in Nat
            BY <1>6
      <4>5. \A x, y \in DOMAIN K : x < y => K[x] < K[y]
        <5>1. SUFFICES ASSUME NEW x \in 1..Len(L) + 1, NEW y \in 1..Len(L) + 1, x < y
                       PROVE  K[x] < K[y]
              BY <1>7
        <5>2. x \in 1..Len(L)
              BY <4>4, <5>1
        <5>3. CASE y = Len(L) + 1
              BY <1>7, <4>3, <5>2, <5>3
        <5>4. CASE y # Len(L) + 1
          <6>1. y \in 1..Len(L)
                BY <4>4, <5>4
          <6>2. QED BY <1>7, <4>2, <5>1, <5>2, <6>1
        <5>5. QED BY <5>3, <5>4
      <4>6. QED BY <1>10, <3>2, <4>1, <4>5
    <3>3. QED BY <3>1, <3>2
  <2>5. QED BY <2>2, <2>3, <2>4 DEF Shelved
<1>19. Sealed(J, v)
       BY <1>3, <1>15, <1>16, <1>18 DEF Sealed
<1>20. QED BY <1>11, <1>19 DEF J, c, v, n, N

\* One more video, in a chapter of its own.
LEMMA ChapterOpens ==
  ASSUME NEW I \in Seq(Chapters), NEW videos \in Seq(Files), Sealed(I, videos),
         NEW file \in Files,
         \A i \in DOMAIN I : I[i].title # ChapterOf(file.dir)
  PROVE  /\ WithLesson(I, ChapterOf(file.dir), Len(videos) + 1) \in Seq(Chapters)
         /\ Sealed(WithLesson(I, ChapterOf(file.dir), Len(videos) + 1), Append(videos, file))
<1> DEFINE c == ChapterOf(file.dir)
           N == Len(videos)
           n == N + 1
           v == Append(videos, file)
           M == Len(I)
           i == M + 1
           new == [title |-> c, lessons |-> <<n>>]
           J == WithLesson(I, c, n)
<1>1. /\ M \in Nat /\ DOMAIN I = 1..M /\ i \notin 1..M /\ 1..i = (1..M) \cup {i}
      /\ \A d \in 1..M : I[d] \in Chapters
      OBVIOUS
<1>2. /\ N \in Nat /\ n \in Nat /\ DOMAIN videos = 1..N /\ DOMAIN v = 1..n /\ Len(v) = n
      /\ v[n] = file /\ \A k \in 1..N : v[k] = videos[k]
      /\ 1..n = (1..N) \cup {n} /\ n \notin 1..N /\ n \in 1..n
      BY AppendProperties
<1>3. c # Root /\ c \in Dirs \cup {FirstChapter}
  <2>1. file.dir \in Dirs \cup {Root}
        BY DEF Files
  <2>2. QED BY <2>1, ArchiveAssumption DEF ArchiveAssumption, ChapterOf
<1>4. J = Append(I, new)
      BY DEF WithLesson
<1> HIDE DEF n, c, v, N
<1>5. new \in Chapters /\ new.title = c /\ new.lessons = <<n>>
      BY <1>2, <1>3 DEF Chapters
<1>6. ToSet(<<n>>) = {n} /\ <<n>> # <<>> /\ DOMAIN <<n>> = {1} /\ <<n>>[1] = n
      BY <1>2 DEF ToSet
<1> HIDE DEF new
<1>7. /\ J \in Seq(Chapters) /\ DOMAIN J = 1..i /\ J[i] = new /\ \A d \in 1..M : J[d] = I[d]
      BY <1>1, <1>4, <1>5, AppendProperties
<1> HIDE DEF J
<1>8. /\ \A k \in DOMAIN videos : Placed(I, k, videos[k].dir)
      /\ \A d, e \in DOMAIN I : I[d].title = I[e].title => d = e
      /\ \A d \in DOMAIN I : Shelved(I, d, N)
      BY DEF Sealed, N
<1>9. \A d \in 1..M : n \notin ToSet(J[d].lessons)
      BY <1>1, <1>2, <1>7, <1>8 DEF Shelved
<1>10. ASSUME NEW k \in DOMAIN v PROVE Placed(J, k, v[k].dir)
  <2>1. CASE k = n
    <3>1. v[k] = file
          BY <1>2, <2>1
    <3>2. i \in DOMAIN J /\ J[i].title = ChapterOf(file.dir)
          BY <1>1, <1>5, <1>7 DEF c
    <3>3. \A d \in DOMAIN J : k \in ToSet(J[d].lessons) <=> d = i
          BY <1>1, <1>5, <1>6, <1>7, <1>9, <2>1
    <3>4. QED BY <3>1, <3>2, <3>3 DEF Placed
  <2>2. CASE k # n
    <3>1. k \in 1..N /\ v[k] = videos[k] /\ Placed(I, k, videos[k].dir)
          BY <1>2, <1>8, <2>2
    <3>2. PICK d \in 1..M : /\ I[d].title = ChapterOf(videos[k].dir)
                            /\ \A e \in 1..M : k \in ToSet(I[e].lessons) <=> e = d
          BY <1>1, <3>1 DEF Placed
    <3>3. d \in DOMAIN J /\ J[d].title = ChapterOf(v[k].dir) /\ d # i
          BY <1>1, <1>7, <3>1, <3>2
    <3>4. k \notin ToSet(J[i].lessons)
          BY <1>5, <1>6, <1>7, <2>2
    <3>5. \A e \in DOMAIN J : k \in ToSet(J[e].lessons) <=> e = d
          BY <1>1, <1>7, <3>2, <3>3, <3>4
    <3>6. QED BY <3>3, <3>5 DEF Placed
  <2>3. QED BY <2>1, <2>2
<1>11. \A d \in DOMAIN I : I[d].title # c
       BY DEF c
<1>12. \A d, e \in DOMAIN J : J[d].title = J[e].title => d = e
       BY <1>1, <1>5, <1>7, <1>8, <1>11
<1>13. ASSUME NEW d \in 1..M PROVE /\ I[d].lessons \in Seq(Nat) /\ I[d].lessons[1] < n
                                   /\ I[d].lessons # <<>>
  <2>1. I[d].lessons \in Seq(Nat)
        BY <1>1 DEF Chapters
  <2>2. I[d].lessons # <<>> /\ ToSet(I[d].lessons) \subseteq 1..N
        BY <1>1, <1>8 DEF Shelved
  <2>3. I[d].lessons[1] \in ToSet(I[d].lessons)
        BY <2>1, <2>2, LessonAppended
  <2>4. \A k \in 1..N : k < n
        BY <1>2 DEF n
  <2>5. QED BY <2>1, <2>2, <2>3, <2>4
<1>14. ASSUME NEW d \in DOMAIN J PROVE Shelved(J, d, n)
  <2>1. CASE d \in 1..M
    <3>1. Shelved(I, d, N) /\ J[d] = I[d]
          BY <1>1, <1>7, <1>8, <2>1
    <3>2. \A e \in 1..d - 1 : e \in 1..M
          BY <1>1, <2>1
    <3>3. \A e \in 1..d - 1 : J[e].lessons[1] < J[d].lessons[1]
          BY <1>7, <3>1, <3>2 DEF Shelved
    <3>4. QED BY <1>2, <3>1, <3>3 DEF Shelved
  <2>2. CASE d = i
    <3>1. J[d].title # Root /\ J[d].lessons = <<n>>
          BY <1>3, <1>5, <1>7, <2>2
    <3>2. \A e \in 1..d - 1 : e \in 1..M
          BY <1>1, <2>2
    <3>3. \A e \in 1..d - 1 : J[e].lessons[1] < n
          BY <1>7, <1>13, <3>2
    <3>4. \A x, y \in {1} : ~(x < y)
          OBVIOUS
    <3>5. QED BY <1>2, <1>6, <3>1, <3>3, <3>4 DEF Shelved
  <2>3. QED BY <1>1, <1>7, <2>1, <2>2
<1>15. Sealed(J, v)
       BY <1>2, <1>10, <1>12, <1>14 DEF Sealed
<1>16. QED BY <1>7, <1>15 DEF J, c, v, n, N

\* The videos among the first n files.
Videos(files, n) == At(files, Ascending({i \in 1..n : files[i].video}))

LEMMA VideosGrow ==
  ASSUME NEW files \in Seq(Files), NEW n \in 0..Len(files) - 1
  PROVE  /\ Videos(files, n) \in Seq(Files)
         /\ Videos(files, n + 1) = IF files[n + 1].video THEN Append(Videos(files, n), files[n + 1])
                                   ELSE Videos(files, n)
<1> DEFINE T == {i \in 1..n : files[i].video}
           U == {i \in 1..n + 1 : files[i].video}
<1>1. n \in Nat /\ 1..n + 1 = (1..n) \cup {n + 1} /\ T \in SUBSET (1..n)
      OBVIOUS
<1>2. /\ At(files, Ascending(T)) \in Seq(Files)
      /\ At(files, Ascending(T \cup {n + 1})) = Append(At(files, Ascending(T)), files[n + 1])
  <2> HIDE DEF T
  <2>1. QED BY <1>1, OneMorePicked
<1>3. CASE ~files[n + 1].video
  <2>1. U = T
        BY <1>1, <1>3
  <2>2. QED BY <1>2, <1>3, <2>1 DEF Videos
<1>4. CASE files[n + 1].video
  <2>1. U = T \cup {n + 1}
        BY <1>1, <1>4
  <2>2. QED BY <1>2, <1>4, <2>1 DEF Videos
<1>5. QED BY <1>3, <1>4

\* The chapters have the lessons of the videos, and the counter is the next one's number.
Scanning(state, videos) == state.counter = Len(videos) + 1 /\ Sealed(state.chapters, videos)

\* One more file.
LEMMA ScanningGoesOn ==
  ASSUME NEW state \in Scans, NEW videos \in Seq(Files), Scanning(state, videos),
         NEW file \in Files
  PROVE  /\ AddFile(state, file) \in Scans
         /\ Scanning(AddFile(state, file),
                     IF file.video THEN Append(videos, file) ELSE videos)
<1> DEFINE I == state.chapters
           c == ChapterOf(file.dir)
           n == Len(videos) + 1
           J == WithLesson(I, c, n)
<1>1. I \in Seq(Chapters) /\ state.counter \in Nat
      BY DEF Scans
<1>2. state.counter = n /\ Sealed(I, videos)
      BY DEF Scanning
<1>3. J \in Seq(Chapters) /\ Sealed(J, Append(videos, file))
  <2> HIDE DEF I
  <2>1. CASE \E i \in DOMAIN I : I[i].title = c
        BY <1>1, <1>2, <2>1, LessonJoins
  <2>2. CASE \A i \in DOMAIN I : I[i].title # c
        BY <1>1, <1>2, <2>2, ChapterOpens
  <2>3. QED BY <2>1, <2>2
<1>4. CASE ~file.video
      BY <1>4 DEF AddFile
<1>5. CASE file.video
  <2>1. AddFile(state, file) = [chapters |-> J, counter |-> n + 1]
        BY <1>2, <1>5 DEF AddFile, NextNumber
  <2>2. Len(Append(videos, file)) = n /\ n + 1 \in Nat
        BY AppendProperties
  <2> HIDE DEF J, n
  <2>3. AddFile(state, file) \in Scans
        BY <1>3, <2>1, <2>2 DEF Scans
  <2>4. QED BY <1>3, <1>5, <2>1, <2>2, <2>3 DEF Scanning
<1>6. QED BY <1>4, <1>5

\* Whatever the chapters are, they stay chapters.
LEMMA ScanStaysScan ==
  ASSUME NEW state \in Scans, NEW file \in Files
  PROVE  AddFile(state, file) \in Scans
<1> DEFINE I == state.chapters
           c == ChapterOf(file.dir)
           n == state.counter
           J == WithLesson(I, c, n)
<1>1. /\ I \in Seq(Chapters) /\ n \in Nat /\ DOMAIN I = 1..Len(I) /\ Len(I) \in Nat
      /\ \A d \in 1..Len(I) : I[d] \in Chapters
      BY DEF Scans
<1>2. c \in Dirs \cup {FirstChapter}
  <2>1. file.dir \in Dirs \cup {Root}
        BY DEF Files
  <2>2. QED BY <2>1 DEF ChapterOf
<1> HIDE DEF I, c, n
<1>3. J \in Seq(Chapters)
  <2>1. CASE \A i \in DOMAIN I : I[i].title # c
    <3>1. J = Append(I, [title |-> c, lessons |-> <<n>>])
          BY <2>1 DEF WithLesson
    <3>2. [title |-> c, lessons |-> <<n>>] \in Chapters
          BY <1>1, <1>2 DEF Chapters
    <3>3. QED BY <1>1, <3>1, <3>2, AppendProperties
  <2>2. CASE \E i \in DOMAIN I : I[i].title = c
    <3> DEFINE one(d) == IF I[d].title = c THEN [I[d] EXCEPT !.lessons = Append(@, n)] ELSE I[d]
    <3>1. J = [d \in 1..Len(I) |-> one(d)]
          BY <1>1, <2>2 DEF WithLesson
    <3>2. ASSUME NEW d \in 1..Len(I) PROVE one(d) \in Chapters
      <4>1. /\ I[d] = [title |-> I[d].title, lessons |-> I[d].lessons]
            /\ I[d].title \in Dirs \cup {FirstChapter} /\ I[d].lessons \in Seq(Nat)
            BY <1>1 DEF Chapters
      <4>2. Append(I[d].lessons, n) \in Seq(Nat)
            BY <1>1, <4>1, AppendProperties
      <4>3. [I[d] EXCEPT !.lessons = Append(@, n)]
              = [title |-> I[d].title, lessons |-> Append(I[d].lessons, n)]
        <5>1. \A t, l, k : [[title |-> t, lessons |-> l] EXCEPT !.lessons = k]
                            = [title |-> t, lessons |-> k]
              OBVIOUS
        <5> DEFINE x == I[d]
                   k == Append(x.lessons, n)
        <5>2. x = [title |-> x.title, lessons |-> x.lessons]
              BY <4>1
        <5> HIDE DEF x, k
        <5>3. [x EXCEPT !.lessons = k] = [title |-> x.title, lessons |-> k]
              BY <5>1, <5>2
        <5>4. QED BY <5>3 DEF x, k
      <4>4. QED BY <1>1, <4>1, <4>2, <4>3 DEF Chapters
    <3> HIDE DEF one
    <3>3. J \in [1..Len(I) -> Chapters]
          BY <3>1, <3>2
    <3> HIDE DEF J
    <3>4. QED BY <1>1, <3>3
  <2>3. QED BY <2>1, <2>2
<1> HIDE DEF J
<1>5. CASE file.video
  <2>1. AddFile(state, file) = [chapters |-> J, counter |-> n + 1]
        BY <1>5 DEF AddFile, NextNumber, I, J, c, n
  <2>2. QED BY <1>1, <1>3, <2>1 DEF Scans
<1>6. CASE ~file.video
      BY <1>6 DEF AddFile
<1>7. QED BY <1>5, <1>6

\* The loop ends with the chapters of all videos.
LEMMA FilesScanned ==
  ASSUME NEW files \in Seq(Files)
  PROVE  Scanned(files) \in Scans /\ Scanning(Scanned(files), Videos(files, Len(files)))
<1> DEFINE N == Len(files)
           none == [chapters |-> <<>>, counter |-> 1]
           F == [p \in (1..N) \X Scans |-> AddFile(p[2], files[p[1]])]
           step(g, n) == IF n = 0 THEN none ELSE AddFile(g[n - 1], files[n])
<1>1. N \in Nat /\ \A n \in 1..N : files[n] \in Files
      OBVIOUS
<1>2. none \in Scans
      BY DEF Scans
<1>3. F \in [(1..N) \X Scans -> Scans]
      /\ \A n \in 1..N, st \in Scans : F[<<n, st>>] = AddFile(st, files[n])
  <2>1. \A n \in 1..N, st \in Scans : AddFile(st, files[n]) \in Scans
        BY <1>1, ScanStaysScan
  <2>2. QED BY <2>1
<1> HIDE DEF F, none
<1>4. PICK g \in [0..N -> Scans] : Recursive(g, F, none, N)
      BY <1>1, <1>2, <1>3, Recursion
<1>5. g = [n \in 0..N |-> step(g, n)]
  <2>1. ASSUME NEW n \in 1..N PROVE g[n] = AddFile(g[n - 1], files[n])
    <3>1. g[n - 1] \in Scans
          BY <1>1
    <3>2. QED BY <1>3, <1>4, <3>1 DEF Recursive
  <2>2. QED BY <1>1, <1>4, <2>1 DEF Recursive
<1> DEFINE state == CHOOSE state : state = [n \in 0..N |-> step(state, n)]
<1>6. state = [n \in 0..N |-> step(state, n)] /\ Scanned(files) = state[N]
      BY <1>5 DEF Scanned, none
<1> HIDE DEF state
<1>7. state[0] = none /\ \A n \in 1..N : state[n] = AddFile(state[n - 1], files[n])
      BY <1>1, <1>6
<1> DEFINE T == {n \in 0..N : state[n] \in Scans /\ Scanning(state[n], Videos(files, n))}
<1>8. 0 \in T
  <2>1. Videos(files, 0) = <<>>
    <3>1. {i \in 1..0 : files[i].video} = {}
          OBVIOUS
    <3>2. QED BY <3>1, NothingPicked DEF Videos
  <2>2. Scanning(none, <<>>)
    <3>1. none.chapters = <<>> /\ none.counter = Len(<<>>) + 1
          BY DEF none
    <3>2. Sealed(<<>>, <<>>)
          BY DEF Sealed
    <3>3. QED BY <3>1, <3>2 DEF Scanning
  <2>3. QED BY <1>1, <1>2, <1>7, <2>1, <2>2
<1>9. ASSUME NEW n \in 0..N - 1, n \in T PROVE n + 1 \in T
  <2>1. n + 1 \in 1..N /\ (n + 1) - 1 = n /\ n + 1 \in 0..N /\ files[n + 1] \in Files
        BY <1>1
  <2>2. state[n + 1] = AddFile(state[n], files[n + 1])
        BY <1>7, <2>1
  <2>3. state[n] \in Scans /\ Scanning(state[n], Videos(files, n))
        BY <1>9
  <2>4. /\ Videos(files, n) \in Seq(Files)
        /\ Videos(files, n + 1) = IF files[n + 1].video
                                  THEN Append(Videos(files, n), files[n + 1])
                                  ELSE Videos(files, n)
        BY VideosGrow
  <2>5. state[n + 1] \in Scans /\ Scanning(state[n + 1], Videos(files, n + 1))
        BY <2>1, <2>2, <2>3, <2>4, ScanningGoesOn
  <2>6. QED BY <2>1, <2>5
<1>10. N \in T
  <2> HIDE DEF T, N
  <2>1. 0..N \subseteq T
        BY <1>1, <1>8, <1>9, Upward
  <2>2. QED BY <1>1, <2>1
<1>11. QED BY <1>6, <1>10

\* The inventory has every video once, in order (build_sealed_inventory).
LEMMA InventoryIsRight ==
  ASSUME NEW files \in Seq(Files)
  PROVE  InventoryIsSealed(files)
<1> DEFINE I == Inventory(files).chapters
           videos == Videos(files, Len(files))
           V == {i \in DOMAIN files : files[i].video}
           found == At(files, Ascending(V))
<1>1. /\ I \in Seq(Chapters) /\ Sealed(I, videos)
      /\ Inventory(files).ok <=> I # <<>>
      BY FilesScanned DEF Scans, Scanning, Inventory
<1>2. videos = found /\ DOMAIN found = 1..Len(videos)
  <2>1. DOMAIN files = 1..Len(files)
        OBVIOUS
  <2>2. videos = found
        BY <2>1 DEF Videos
  <2>3. videos \in Seq(Files)
    <3>1. CASE Len(files) = 0
      <4>1. {i \in 1..Len(files) : files[i].video} = {}
            BY <3>1
      <4>2. videos = <<>>
            BY <4>1, NothingPicked DEF Videos
      <4>3. QED BY <4>2
    <3>2. CASE Len(files) # 0
      <4>1. Len(files) - 1 \in 0..Len(files) - 1 /\ (Len(files) - 1) + 1 = Len(files)
            BY <3>2
      <4>2. /\ Videos(files, Len(files) - 1) \in Seq(Files)
            /\ videos = IF files[Len(files)].video
                        THEN Append(Videos(files, Len(files) - 1), files[Len(files)])
                        ELSE Videos(files, Len(files) - 1)
            BY <4>1, VideosGrow
      <4>3. files[Len(files)] \in Files
            BY <3>2
      <4>4. QED BY <4>2, <4>3, AppendProperties
    <3>3. QED BY <3>1, <3>2
  <2>4. QED BY <2>2, <2>3
<1>3. Len(videos) \in Nat /\ (Len(videos) # 0 <=> V # {})
  <2>1. V \in SUBSET Nat /\ IsFiniteSet(V)
    <3>1. V \in SUBSET (1..Len(files)) /\ IsFiniteSet(1..Len(files))
          BY FS_Interval
    <3>2. QED BY <3>1, FS_Subset
  <2>2. Cardinality(V) \in Nat /\ (Cardinality(V) = 0 <=> V = {})
        BY <2>1, FS_CardinalityType, FS_EmptySet
  <2>3. DOMAIN Ascending(V) = 1..Cardinality(V)
        BY DEF Ascending, SortedBy
  <2>4. DOMAIN found = 1..Cardinality(V)
        BY <2>3 DEF At
  <2>5. 1..Len(videos) = 1..Cardinality(V)
        BY <1>2, <2>4
  <2>6. Len(videos) \in Nat
        BY <1>2
  <2> HIDE DEF V, videos
  <2>7. QED BY <2>2, <2>5, <2>6
<1>4. V # {} <=> \E i \in DOMAIN files : files[i].video
      OBVIOUS
<1> HIDE DEF I, videos, found, V
<1>5. I # <<>> <=> Len(videos) # 0
  <2>1. I # <<>> <=> 1 \in DOMAIN I
        BY <1>1
  <2>2. 1 \in DOMAIN I => Len(videos) # 0
    <3>1. SUFFICES ASSUME 1 \in DOMAIN I PROVE Len(videos) # 0
          OBVIOUS
    <3> DEFINE s == I[1].lessons
    <3>2. s # <<>> /\ ToSet(s) \subseteq 1..Len(videos)
          BY <1>1, <3>1 DEF Sealed, Shelved
    <3>3. s \in Seq(Nat)
      <4>1. I[1] \in Chapters
            BY <1>1, <3>1
      <4>2. QED BY <4>1 DEF Chapters
    <3> HIDE DEF s
    <3>4. s[1] \in 1..Len(videos)
          BY <3>2, <3>3 DEF ToSet
    <3>5. QED BY <1>3, <3>4
  <2>3. Len(videos) # 0 => 1 \in DOMAIN I
    <3>1. SUFFICES ASSUME Len(videos) # 0 PROVE DOMAIN I # {}
          BY <1>1
    <3>2. 1 \in DOMAIN videos
          BY <1>2, <1>3, <3>1
    <3>3. QED BY <1>1, <3>2 DEF Sealed, Placed
  <2>4. QED BY <2>1, <2>2, <2>3
<1>6. ASSUME NEW n \in DOMAIN found
      PROVE  \E c \in DOMAIN I : /\ I[c].title = ChapterOf(found[n].dir)
                                 /\ \A d \in DOMAIN I : n \in ToSet(I[d].lessons) <=> d = c
      BY <1>1, <1>2 DEF Sealed, Placed
<1>7. ASSUME NEW c \in DOMAIN I
      PROVE  /\ I[c].title # Root
             /\ \A i \in DOMAIN I[c].lessons : I[c].lessons[i] \in DOMAIN found
             /\ \A i, j \in DOMAIN I[c].lessons : i < j => I[c].lessons[i] < I[c].lessons[j]
             /\ \A d \in 1..c - 1 : Head(I[d].lessons) < Head(I[c].lessons)
  <2>1. Shelved(I, c, Len(videos))
        BY <1>1 DEF Sealed
  <2>2. \A i \in DOMAIN I[c].lessons : I[c].lessons[i] \in DOMAIN found
        BY <1>2, <2>1 DEF Shelved, ToSet
  <2>3. \A s : Head(s) = s[1]
        OBVIOUS
  <2>4. QED BY <2>1, <2>2, <2>3 DEF Shelved
<1>8. Inventory(files).ok <=> \E i \in DOMAIN files : files[i].video
      BY <1>1, <1>3, <1>4, <1>5
<1>9. QED BY <1>6, <1>7, <1>8 DEF InventoryIsSealed, I, found, V

-----------------------------------------------------------------------------
(* Each algorithm has its property on each input.                          *)

\* What UpTo has are sequences.
LEMMA UpToIsSeq ==
  ASSUME NEW S, NEW n \in Nat, NEW s \in UpTo(S, n)
  PROVE  s \in Seq(S)
BY DEF UpTo

\* Every step gives an input to one algorithm.
LEMMA InputIsFor ==
  /\ Next => input.for = "none" /\ (AskRange \/ GiveLines \/ GivePieces \/ Speak \/ GiveVolumes
        \/ GiveFiles \/ GiveLinks \/ GiveCourse \/ GiveTags \/ GiveChain)
  /\ AskRange => input'.for = "range"
  /\ GiveLines => input'.for = "lines"
  /\ GivePieces => input'.for = "pieces"
  /\ Speak => input'.for = "speech"
  /\ GiveVolumes => input'.for = "volumes"
  /\ GiveFiles => input'.for = "files"
  /\ GiveLinks => input'.for = "links"
  /\ GiveCourse => input'.for = "course"
  /\ GiveTags => input'.for = "tags"
  /\ GiveChain => input'.for = "chain"
<1>1. Next => input.for = "none" /\ (AskRange \/ GiveLines \/ GivePieces \/ Speak \/ GiveVolumes
        \/ GiveFiles \/ GiveLinks \/ GiveCourse \/ GiveTags \/ GiveChain)
      BY DEF Next, For
<1>2. AskRange => input'.for = "range"
      BY DEF AskRange
<1>3. GiveLines => input'.for = "lines"
      BY DEF GiveLines
<1>4. GivePieces => input'.for = "pieces"
      BY DEF GivePieces
<1>5. Speak => input'.for = "speech"
      BY DEF Speak
<1>6. GiveVolumes => input'.for = "volumes"
      BY DEF GiveVolumes
<1>7. GiveFiles => input'.for = "files"
      BY DEF GiveFiles
<1>8. GiveLinks => input'.for = "links"
      BY DEF GiveLinks
<1>9. GiveCourse => input'.for = "course"
  <2>1. GiveCourse => \E corpus, title, cats :
          input' = [for |-> "course", corpus |-> corpus, title |-> title, cats |-> cats]
        BY Zenon DEF GiveCourse
  <2>2. QED BY <2>1
<1>10. GiveTags => input'.for = "tags"
      BY DEF GiveTags
<1>11. GiveChain => input'.for = "chain"
      BY DEF GiveChain
<1>12. QED BY <1>1, <1>2, <1>3, <1>4, <1>5, <1>6, <1>7, <1>8, <1>9, <1>10, <1>11

\* A Range header is answered with exactly the bytes it asks for, and they are streamed
\* (handle_range_request, stream_file_range).
THEOREM RangesCorrect == Spec => []RangesExact
<1>1. Init => RangesExact
      BY DEF Init, RangesExact, For
<1>2. RangesExact /\ [Next]_input => RangesExact'
  <2>1. SUFFICES ASSUME RangesExact, Next, (For("range"))' PROVE RangesExact'
        BY DEF RangesExact, For
  <2>2. AskRange
        BY <2>1, InputIsFor DEF For
  <2>3. PICK size \in 0..MaxSize, actual \in 0..MaxSize, chunk \in 1..MaxSize,
             h \in [form : Forms, m : 0..MaxSize + 1, n : -1..MaxSize + 1] :
          input' = [for |-> "range", size |-> size, actual |-> actual, chunk |-> chunk, h |-> h]
        BY <2>2 DEF AskRange
  <2>4. size \in Nat /\ actual \in Nat /\ chunk \in Nat \ {0} /\ h \in Headers
        BY BoundsAssumption DEF Headers, BoundsAssumption
  <2>5. RangeIsExact(size, h) /\ StreamIsExact(size, actual, h, chunk)
        BY <2>4, AnswerIsExact, StreamKeepsWord
  <2>6. QED BY <2>3, <2>5 DEF RangesExact
<1>3. QED BY <1>1, <1>2, PTL DEF Spec

\* An answer behind few enough redirects is relayed (relay_stream).
THEOREM RelayCorrect == Spec => []AnswersRelayed
<1>1. Init => AnswersRelayed
      BY DEF Init, AnswersRelayed, For
<1>2. AnswersRelayed /\ [Next]_input => AnswersRelayed'
  <2>1. SUFFICES ASSUME AnswersRelayed, Next, (For("chain"))' PROVE AnswersRelayed'
        BY DEF AnswersRelayed, For
  <2>2. GiveChain
        BY <2>1, InputIsFor DEF For
  <2>3. PICK chain \in UpTo(Responses, MaxLength) : input' = [for |-> "chain", chain |-> chain]
        BY <2>2 DEF GiveChain, Responses
  <2>4. chain \in Seq(Responses)
        BY BoundsAssumption, UpToIsSeq DEF BoundsAssumption
  <2>5. AnswersAreRelayed(chain)
        BY <2>4, RelayAssumption, ChainIsRelayed
  <2>6. QED BY <2>3, <2>5 DEF AnswersRelayed
<1>3. QED BY <1>1, <1>2, PTL DEF Spec

\* Categories are reused before they are proposed, and tags are distinct and as many as the
\* limits allow (_match_or_propose_category, _select_tags).
THEOREM TaxonomyCorrect == Spec => []TaxonomyResolved
<1>1. Init => TaxonomyResolved
      BY DEF Init, TaxonomyResolved, For
<1>2. TaxonomyResolved /\ [Next]_input => TaxonomyResolved'
  <2>1. ASSUME Next, (For("course"))'
        PROVE  CategoriesAreReused(input'.corpus, input'.title, input'.cats)
    <3>1. GiveCourse
          BY <2>1, InputIsFor DEF For
    <3>2. PICK corpus \in SUBSET (Names \cup Words),
               cats \in UpTo([name : Names, synonyms : SUBSET Words], MaxList) :
            \E title \in {""} \cup (Names \cap corpus) :
              input' = [for |-> "course", corpus |-> corpus, title |-> title, cats |-> cats]
          BY <3>1, Zenon DEF GiveCourse
    <3>3. PICK title \in {""} \cup (Names \cap corpus) :
            input' = [for |-> "course", corpus |-> corpus, title |-> title, cats |-> cats]
          BY <3>2
    <3>4. cats \in Seq([name : Names, synonyms : SUBSET Words]) /\ title \in {""} \cup corpus
          BY BoundsAssumption, UpToIsSeq DEF BoundsAssumption
    <3>5. CategoriesAreReused(corpus, title, cats)
          BY <3>4, CategoryIsReused
    <3>6. QED BY <3>3, <3>5
  <2>2. ASSUME Next, (For("tags"))'
        PROVE  TagsAreChosen(input'.corpus, input'.existing, input'.keywords)
    <3>1. GiveTags
          BY <2>2, InputIsFor DEF For
    <3> DEFINE Keywords == [name : Names, words : {{w} : w \in Words}]
    <3>2. PICK corpus \in SUBSET (Names \cup Words), existing \in UpTo(Names, MaxTags),
               keywords \in UpTo(Keywords, MaxList) :
            input' = [for |-> "tags", corpus |-> corpus, existing |-> existing,
                      keywords |-> keywords]
          BY <3>1, Zenon DEF GiveTags
    <3>3. existing \in Seq(Names) /\ keywords \in Seq(Keywords)
      <4> HIDE DEF Keywords
      <4>1. QED BY BoundsAssumption, UpToIsSeq DEF BoundsAssumption
    <3>4. TagsAreChosen(corpus, existing, keywords)
          BY <3>3, TagsAreRight
    <3>5. QED BY <3>2, <3>4
  <2>3. CASE UNCHANGED input
        BY <2>3 DEF TaxonomyResolved, For
  <2>4. CASE Next
        BY <2>1, <2>2, <2>4 DEF TaxonomyResolved
  <2>5. QED BY <2>3, <2>4
<1>3. QED BY <1>1, <1>2, PTL DEF Spec

\* A multipart archive is extracted only if it is complete (group_and_verify_parts).
THEOREM VolumesCorrect == Spec => []VolumesComplete
<1>1. Init => VolumesComplete
      BY DEF Init, VolumesComplete, For
<1>2. VolumesComplete /\ [Next]_input => VolumesComplete'
  <2>1. SUFFICES ASSUME VolumesComplete, Next, (For("volumes"))' PROVE VolumesComplete'
        BY DEF VolumesComplete, For
  <2>2. GiveVolumes
        BY <2>1, InputIsFor DEF For
  <2>3. PICK volumes \in UpTo(PartNumbers \cup {Unnumbered}, MaxLength) :
          input' = [for |-> "volumes", volumes |-> volumes]
        BY <2>2, Zenon DEF GiveVolumes
  <2>4. volumes \in Seq(Nat \cup {Unnumbered})
    <3>1. volumes \in Seq(PartNumbers \cup {Unnumbered})
          BY BoundsAssumption, UpToIsSeq DEF BoundsAssumption
    <3>2. PartNumbers \cup {Unnumbered} \subseteq Nat \cup {Unnumbered}
          BY BoundsAssumption DEF BoundsAssumption
    <3>3. QED BY <3>1, <3>2, SeqMonotonic
  <2>5. VolumesAreComplete(volumes)
        BY <2>4, VolumesAreRight
  <2>6. QED BY <2>3, <2>5 DEF VolumesComplete
<1>3. QED BY <1>1, <1>2, PTL DEF Spec

\* The links of a page become distinct parts (parse_course_details).
THEOREM PartsCorrect == Spec => []PartsDistinct
<1>1. Init => PartsDistinct
      BY DEF Init, PartsDistinct, For
<1>2. PartsDistinct /\ [Next]_input => PartsDistinct'
  <2>1. SUFFICES ASSUME PartsDistinct, Next, (For("links"))' PROVE PartsDistinct'
        BY DEF PartsDistinct, For
  <2>2. GiveLinks
        BY <2>1, InputIsFor DEF For
  <2>3. PICK links \in UpTo([url : Urls, number : PartNumbers \cup {Unnumbered}], MaxLength) :
          input' = [for |-> "links", links |-> links]
        BY <2>2, Zenon DEF GiveLinks
  <2>4. links \in Seq([url : Urls, number : Nat \cup {Unnumbered}])
    <3> DEFINE A == [url : Urls, number : PartNumbers \cup {Unnumbered}]
               B == [url : Urls, number : Nat \cup {Unnumbered}]
    <3>1. links \in Seq(A)
          BY BoundsAssumption, UpToIsSeq DEF BoundsAssumption
    <3>2. A \subseteq B
          BY BoundsAssumption DEF BoundsAssumption
    <3> HIDE DEF A, B
    <3>3. links \in Seq(B)
          BY <3>1, <3>2, SeqMonotonic
    <3>4. QED BY <3>3 DEF B
  <2>5. PartsAreDistinct(links)
        BY <2>4, PartsAreRight
  <2>6. QED BY <2>3, <2>5 DEF PartsDistinct
<1>3. QED BY <1>1, <1>2, PTL DEF Spec

\* Speech is laid out in time, without overlaps (assemble_audio_segments).
THEOREM SpeechCorrect == Spec => []SpeechInTime
<1>1. Init => SpeechInTime
      BY DEF Init, SpeechInTime, For
<1>2. SpeechInTime /\ [Next]_input => SpeechInTime'
  <2>1. SUFFICES ASSUME SpeechInTime, Next, (For("pieces"))' PROVE SpeechInTime'
        BY DEF SpeechInTime, For
  <2>2. GivePieces
        BY <2>1, InputIsFor DEF For
  <2> DEFINE A == [start : Starts, sound : Sounds, slip : BOOLEAN]
  <2>3. PICK shapes \in UpTo(A, MaxPieces) :
          input' = [for |-> "pieces", pieces |-> [k \in DOMAIN shapes |-> PieceOf(shapes[k])]]
        BY <2>2, Zenon DEF GivePieces
  <2> DEFINE pieces == [k \in DOMAIN shapes |-> PieceOf(shapes[k])]
  <2>4. pieces \in Seq(Pieces)
    <3>1. \A shape \in A : PieceOf(shape) \in Pieces
          BY BoundsAssumption DEF PieceOf, Pieces, BoundsAssumption
    <3> HIDE DEF A
    <3>2. shapes \in Seq(A)
          BY BoundsAssumption, UpToIsSeq DEF BoundsAssumption
    <3>3. QED BY <3>1, <3>2
  <2> HIDE DEF pieces
  <2>5. SpeechKeepsTime(pieces)
        BY <2>4, SpeechIsInTime
  <2>6. QED BY <2>3, <2>5 DEF SpeechInTime, pieces
<1>3. QED BY <1>1, <1>2, PTL DEF Spec

\* Keys that work take turns, and the first model that works speaks (synthesize_voice).
THEOREM TurnsCorrect == Spec => []TurnsTaken
<1>1. Init => TurnsTaken
      BY DEF Init, TurnsTaken, For
<1>2. TurnsTaken /\ [Next]_input => TurnsTaken'
  <2>1. SUFFICES ASSUME TurnsTaken, Next, (For("speech"))' PROVE TurnsTaken'
        BY DEF TurnsTaken, For
  <2>2. Speak
        BY <2>1, InputIsFor DEF For
  <2>3. PICK keys \in 1..MaxKeys, models \in 1..MaxModels :
          \E index \in 0..keys - 1, works \in SUBSET ((0..models - 1) \X (0..keys - 1)) :
            input' = [for |-> "speech", index |-> index, models |-> models, keys |-> keys,
                      works |-> works]
        BY <2>2, Zenon DEF Speak
  <2>4. PICK index \in 0..keys - 1, works \in SUBSET ((0..models - 1) \X (0..keys - 1)) :
          input' = [for |-> "speech", index |-> index, models |-> models, keys |-> keys,
                    works |-> works]
        BY <2>3, Zenon
  <2>5. KeysTakeTurns(index, models, keys, works)
    <3>1. keys \in Nat \ {0} /\ models \in Nat \ {0}
          BY BoundsAssumption DEF BoundsAssumption
    <3>2. QED BY <3>1, KeysTakeTheirTurns
  <2>6. QED BY <2>4, <2>5 DEF TurnsTaken
<1>3. QED BY <1>1, <1>2, PTL DEF Spec

\* The lines that GiveLines lays out are lines.
LEMMA LaidAreLines ==
  ASSUME NEW A,
         \A a \in A : a.pause \in Int /\ a.length \in Int /\ a.text \in {"blank", "open", "ended"},
         NEW shapes \in Seq(A)
  PROVE  Laid(shapes) \in Seq(Lines)
<1> DEFINE N == Len(shapes)
           F == [p \in (1..N) \X Int |-> p[2] + shapes[p[1]].pause + shapes[p[1]].length]
           step(g, n) == IF n = 0 THEN 1 ELSE g[n - 1] + shapes[n].pause + shapes[n].length
<1>1. /\ N \in Nat /\ DOMAIN shapes = 1..N
      /\ \A n \in 1..N : /\ shapes[n].pause \in Int /\ shapes[n].length \in Int
                         /\ shapes[n].text \in {"blank", "open", "ended"}
  <2>1. N \in Nat /\ DOMAIN shapes = 1..N /\ \A n \in 1..N : shapes[n] \in A
        OBVIOUS
  <2>2. QED BY <2>1
<1>2. F \in [(1..N) \X Int -> Int]
      /\ \A n \in 1..N, e \in Int : F[<<n, e>>] = e + shapes[n].pause + shapes[n].length
      BY <1>1
<1> HIDE DEF F
<1>3. PICK g \in [0..N -> Int] : Recursive(g, F, 1, N)
  <2> HIDE DEF N
  <2>1. 1 \in Int
        OBVIOUS
  <2>2. QED BY <1>1, <1>2, <2>1, Recursion
<1>4. g = [n \in 0..N |-> step(g, n)]
  <2>1. ASSUME NEW n \in 1..N PROVE g[n] = g[n - 1] + shapes[n].pause + shapes[n].length
    <3>1. g[n - 1] \in Int
          BY <1>1
    <3>2. QED BY <1>2, <1>3, <3>1 DEF Recursive
  <2>2. g[0] = 1 /\ N \in Nat
        BY <1>1, <1>3 DEF Recursive
  <2>3. \A n \in 0..N : g[n] = step(g, n)
    <3>1. ASSUME NEW n \in 0..N PROVE g[n] = step(g, n)
      <4>1. CASE n = 0
            BY <2>2, <4>1
      <4>2. CASE n # 0
        <5>1. n \in 1..N
              BY <2>2, <4>2
        <5>2. QED BY <2>1, <4>2, <5>1
      <4>3. QED BY <4>1, <4>2
    <3>2. QED BY <3>1
  <2> HIDE DEF step, N
  <2>4. QED BY <2>3
<1> DEFINE end == CHOOSE end : end = [n \in 0..N |-> step(end, n)]
<1>5. end = [n \in 0..N |-> step(end, n)]
      BY <1>4
<1>6. Laid(shapes) = [n \in DOMAIN shapes |->
         [start |-> end[n - 1] + shapes[n].pause, end |-> end[n], text |-> shapes[n].text]]
      BY DEF Laid
<1> HIDE DEF end
<1>7. end[0] = 1 /\ \A n \in 1..N : end[n] = end[n - 1] + shapes[n].pause + shapes[n].length
  <2>1. 0 \in 0..N /\ \A n \in 1..N : n \in 0..N /\ n # 0
        BY <1>1
  <2> HIDE DEF N
  <2>2. \A n \in 0..N : end[n] = step(end, n)
        BY <1>5
  <2>3. QED BY <2>1, <2>2
<1> DEFINE T == {n \in 0..N : end[n] \in Int}
<1>8. 0..N \subseteq T
  <2>1. 0 \in T
        BY <1>1, <1>7
  <2>2. ASSUME NEW n \in 0..N - 1, n \in T PROVE n + 1 \in T
    <3>1. end[n] \in Int /\ n + 1 \in 1..N /\ (n + 1) - 1 = n
          BY <2>2
    <3>2. end[n + 1] = end[n] + shapes[n + 1].pause + shapes[n + 1].length
          BY <1>7, <3>1
    <3>3. QED BY <1>1, <3>1, <3>2
  <2> HIDE DEF T
  <2>3. QED BY <1>1, <2>1, <2>2, Upward
<1>9. ASSUME NEW n \in 1..N
      PROVE  [start |-> end[n - 1] + shapes[n].pause, end |-> end[n], text |-> shapes[n].text]
               \in Lines
  <2>1. n - 1 \in 0..N /\ n \in 0..N
        BY <1>1
  <2>2. end[n - 1] \in Int /\ end[n] \in Int
        BY <1>8, <2>1
  <2>3. QED BY <1>1, <2>2 DEF Lines
<1>10. Laid(shapes) \in [1..N -> Lines]
       BY <1>1, <1>6, <1>9
<1>11. QED BY <1>1, <1>10

\* Subtitles become whole sentences (group_segments_into_sentences).
THEOREM SentencesCorrect == Spec => []SentencesWhole
<1>1. Init => SentencesWhole
      BY DEF Init, SentencesWhole, For
<1>2. SentencesWhole /\ [Next]_input => SentencesWhole'
  <2>1. SUFFICES ASSUME SentencesWhole, Next, (For("lines"))' PROVE SentencesWhole'
        BY DEF SentencesWhole, For
  <2>2. GiveLines
        BY <2>1, InputIsFor DEF For
  <2> DEFINE A == [pause : Pauses, length : Lengths, text : {"blank", "open", "ended"}]
  <2>3. \A a \in A : a.pause \in Int /\ a.length \in Int /\ a.text \in {"blank", "open", "ended"}
    <3>1. Pauses \subseteq Int /\ Lengths \subseteq Int
          BY BoundsAssumption DEF BoundsAssumption
    <3>2. QED BY <3>1
  <2>4. PICK shapes \in UpTo(A, MaxLength) :
          input' = [for |-> "lines", lines |-> Laid(shapes)]
        BY <2>2, Zenon DEF GiveLines
  <2> HIDE DEF A
  <2>5. shapes \in Seq(A)
        BY BoundsAssumption, UpToIsSeq DEF BoundsAssumption
  <2>6. Laid(shapes) \in Seq(Lines)
        BY <2>3, <2>5, LaidAreLines
  <2>7. SentencesAreWhole(Laid(shapes))
        BY <2>6, SentencesAreRight
  <2>8. QED BY <2>4, <2>7 DEF SentencesWhole
<1>3. QED BY <1>1, <1>2, PTL DEF Spec

\* The inventory has every video once, in order (build_sealed_inventory).
THEOREM InventoryCorrect == Spec => []InventorySealed
<1>1. Init => InventorySealed
      BY DEF Init, InventorySealed, For
<1>2. InventorySealed /\ [Next]_input => InventorySealed'
  <2>1. SUFFICES ASSUME InventorySealed, Next, (For("files"))' PROVE InventorySealed'
        BY DEF InventorySealed, For
  <2>2. GiveFiles
        BY <2>1, InputIsFor DEF For
  <2>3. PICK files \in UpTo([dir : Dirs \cup {Root}, video : BOOLEAN], MaxLength) :
          input' = [for |-> "files", files |-> files]
        BY <2>2, Zenon DEF GiveFiles
  <2>4. files \in UpTo(Files, MaxLength)
        BY <2>3 DEF Files
  <2>5. files \in Seq(Files)
        BY <2>4, BoundsAssumption, UpToIsSeq DEF BoundsAssumption
  <2>6. InventoryIsSealed(files)
        BY <2>5, InventoryIsRight
  <2>7. QED BY <2>3, <2>6 DEF InventorySealed
<1>3. QED BY <1>1, <1>2, PTL DEF Spec
=============================================================================
