SPECIFICATION Spec
CONSTANTS
  MaxDuration = 4
  MaxGap = 1
  Sample = 2
  Unnumbered = Unnumbered
  Root = "root"
  AutoCreate = TRUE
  TagCount = 2
  Short = {"n3"}
  Triggers <- TwoTriggers
  MaxHops = 3
  Names = {"n1", "n2", "n3"}
  Words = {"w1", "w2"}
  Urls = {"u1", "u2", "u3"}
  Dirs = {"a", "b", "first"}
  PartNumbers = {0, 1, 2, 3, 4}
  Starts <- EarlyAndLate
  Sounds <- FourSounds
  Pauses <- ShortPauses
  Lengths = {1, 2}
  MaxSize = 4
  MaxLength = 4
  MaxList = 2
  MaxTags = 3
  MaxPieces = 3
  MaxKeys = 3
  MaxModels = 2
INVARIANTS
  RangesExact SentencesWhole SpeechInTime TurnsTaken VolumesComplete
  InventorySealed PartsDistinct TaxonomyResolved AnswersRelayed
CHECK_DEADLOCK FALSE
