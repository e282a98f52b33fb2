------------------------------ MODULE Taxonomy ------------------------------
(***************************************************************************)
(* SmartTaxonomyEngine: the category and the tags of a course.             *)
(*                                                                         *)
(* Names are normalised; the corpus is the set of the names that occur in  *)
(* the text about the course, and title what is left of its title without  *)
(* the words that say it is a course: "" if that is too short or too long. *)
(***************************************************************************)
EXTENDS Integers, SequencesExt

CONSTANTS
  AutoCreate,   \* auto_create_enabled
  TagCount,     \* default_tag_count
  Triggers,     \* SYNONYM_MAP, as a sequence of words and the topics they stand for
  Short         \* the names of less than two letters

ASSUME TaxonomyAssumption == AutoCreate \in BOOLEAN /\ TagCount \in Nat \ {0}

-----------------------------------------------------------------------------
(* _match_or_propose_category.                                             *)

\* A category the text has by its name, or else by a synonym, in the order of the categories.
Direct(corpus, cats) ==
  SelectInSeq(cats, LAMBDA cat : cat.name \in corpus \/ cat.synonyms \cap corpus # {})

\* The first trigger the text has.
Trigger(corpus) == SelectInSeq(Triggers, LAMBDA t : t.word \in corpus)

\* Mutant of ForTopic: the categories are not searched for the topic.
MutantUnsearched(cats, topic) == 0

ForTopic(cats, topic) == SelectInSeq(cats, LAMBDA cat : cat.name = topic)

NoCategory == [found |-> "none", name |-> "", confidence |-> 40]

Existing(cat, confidence) == [found |-> "existing", name |-> cat.name, confidence |-> confidence]
Proposed(topic, confidence) == [found |-> "new", name |-> topic, confidence |-> confidence]

\* What a title yields when nothing else does.
FromTitle(title) == IF AutoCreate /\ title # "" THEN Proposed(title, 70) ELSE NoCategory

ByTopic(topic, cats, title) ==
  LET i == ForTopic(cats, topic)
  IN  IF i # 0 THEN Existing(cats[i], 92)
      ELSE IF AutoCreate THEN Proposed(topic, 85)
      ELSE FromTitle(title)

Category(corpus, title, cats) ==
  LET i == Direct(corpus, cats)
      t == Trigger(corpus)
  IN  IF i # 0 THEN Existing(cats[i], IF cats[i].name \in corpus THEN 95 ELSE 90)
      ELSE IF t # 0 THEN ByTopic(Triggers[t].topic, cats, title)
      ELSE FromTitle(title)

Status(category) ==
  IF category.confidence < 65 \/ category.found = "none" THEN "TAXONOMY_NEEDS_REVIEW"
  ELSE "RESOLVED"

\* A category is never proposed under the name of one that exists, wherever the name comes
\* from; one the text names is not passed over for a topic it only suggests; and a course
\* without a category, and no other, is left for review.
CategoriesAreReused(corpus, title, cats) ==
  LET c == Category(corpus, title, cats)
      names == {cats[i].name : i \in DOMAIN cats}
  IN  /\ c.found = "new" => c.name \notin names /\ AutoCreate
      /\ c.found = "existing" => c.name \in names
      /\ names \cap corpus # {} => c.found = "existing" /\ c.confidence \in {90, 95}
      /\ Status(c) = "RESOLVED" <=> c.found # "none"

-----------------------------------------------------------------------------
(* _select_tags.                                                           *)

Unseen(tags, name) == \A i \in DOMAIN tags : tags[i] # name

\* The existing tags, and the keywords, each with whether the text has it: a tag that exists
\* by its name, if that is not too short, and a keyword by its name or a word for it.
OldTags(corpus, existing) ==
  [i \in DOMAIN existing |->
     [name |-> existing[i], fits |-> existing[i] \in corpus \ Short]]

NewTags(corpus, keywords) ==
  [i \in DOMAIN keywords |->
     [name |-> keywords[i].name,
      fits |-> keywords[i].name \in corpus \/ keywords[i].words \cap corpus # {}]]

\* One turn of either loop: the tag is taken if it fits, and the tags are not full.
TakeTag(tags, tag) ==
  IF Len(tags) < TagCount /\ tag.fits /\ Unseen(tags, tag.name)
  THEN Append(tags, tag.name) ELSE tags

\* Either loop.
TakeTags(tags, offered) == FoldLeft(TakeTag, tags, offered)

\* The tags that exist come first, then the keywords, at most eight.
Tags(corpus, existing, keywords) ==
  LET all == TakeTags(TakeTags(<<>>, OldTags(corpus, existing)), NewTags(corpus, keywords))
  IN  SubSeq(all, 1, IF Len(all) > 8 THEN 8 ELSE Len(all))

\* A course has no tag twice, none its text does not have, and as many as there are up to the
\* limits; a keyword is made a tag only when no existing tag of the text is left out.
TagsAreChosen(corpus, existing, keywords) ==
  LET T == Tags(corpus, existing, keywords)
      old == ToSet(existing) \cap (corpus \ Short)
      new == {k.name : k \in {k \in ToSet(keywords) : ({k.name} \cup k.words) \cap corpus # {}}}
      all == old \cup new
      limit == IF TagCount > 8 THEN 8 ELSE TagCount
  IN  /\ Len(T) = Cardinality(ToSet(T)) /\ ToSet(T) \subseteq all
      /\ Len(T) = IF Cardinality(all) < limit THEN Cardinality(all) ELSE limit
      /\ ToSet(T) \subseteq old \/ old \subseteq ToSet(T)
=============================================================================
