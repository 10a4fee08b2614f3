\* Four sessions through a history of two: entries are dropped while their
\* sessions are still open, sessions are ended twice, and ticks let sessions
\* start at equal and at different times.
CONSTANTS
  Sessions = {s1, s2, s3, s4}
  MaxEntries = 2
  MaxTime = 3
SPECIFICATION Spec
INVARIANTS TypeOK ActiveIsOpen RecentIsNewest
PROPERTY RecordIsFinal
