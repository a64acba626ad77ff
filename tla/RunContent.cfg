SPECIFICATION Spec
CONSTANTS
  MaxTextLength = 6
  MaxPhraseLength = 3
  MaxRepeats = 7
  BatchSize = 2
  MaxTokens = 2
INVARIANTS
  ChunksCoverText
  EmbeddingsAligned
  SectionsFit
  SummaryOfWholeText
CHECK_DEADLOCK FALSE
