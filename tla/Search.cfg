SPECIFICATION Spec
CONSTANTS
  Texts <- MCTexts
  Label <- MCLabel
  Content <- MCContent
  Escape <- MCEscape
  Entries <- MCEntries
  MaxTimers = 2
INVARIANTS TypeOK ResultsAreOfLastSearch CaughtUp HideTimerHeld
PROPERTY ArrowsFollowThePage
