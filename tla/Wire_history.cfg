\* A level with fewer entries than fill the buffer, or more.
CONSTANTS
  Fills = {0, 26, 60}
  Wishes = {0, 60}
SPECIFICATION WireSpec
INVARIANTS HistoryAnswered
CHECK_DEADLOCK FALSE
