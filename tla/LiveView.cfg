SPECIFICATION PagesSpec
CONSTANTS
  home = home
  timeline = timeline
  Page = {home, timeline}
  Wakeup = {w1, w2}
  Wants <- MCWants
  Bound <- MCBound
  QueueMax = 1
  InitialTail = 3
  MaxEvents = 2
  MaxOpen = 2
  MaxLines = 1
INVARIANTS PagesTypes PagesAreCurrent CardIsTranscript
CHECK_DEADLOCK FALSE
