\* Four keys that go down or up, in a keyboard that keeps six codes, and
\* two interrupts of other devices or false ones.
CONSTANTS
  QueueSize = 6
  Repeating <- MCRepeating
  MaxEvents = 4
  OtherIrqs <- MCOtherIrqs
  MaxOther = 2
SPECIFICATION FairSpec
INVARIANTS TypeOK ServiceEnds CodeWillBeRead TypedAsMeant
PROPERTIES CodesAreRead
CHECK_DEADLOCK FALSE
