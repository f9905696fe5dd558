SPECIFICATION CurationSpec
CONSTANTS
  image = image
  imported = imported
  written = written
  NoCaption = NoCaption
  Images <- MCRow
  Generated <- MCRow
  Texts <- MCTexts
  MaxBatches = 3
  MaxPictures = 2
  MaxPasses = 1
INVARIANTS RowShowsNewestEdit NewestCanBeUndone
PROPERTIES WrittenCaptionSurvives
CHECK_DEADLOCK FALSE
