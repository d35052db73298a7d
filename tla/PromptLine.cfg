SPECIFICATION LiveSpec
CONSTANTS
  Chars = {"a", "b"}
  Keys = {"a", "b", "bs", "left", "up", "down", "enter", "intr", "eof", "tab"}
  LINE_MAX = 3
  HIST_MAX = 2
  COLS = 4
  RING_SIZE = 2
  TERM_IN_CAP = 1
  Consoles = {"console", "window"}
  Background = TRUE
  MaxKeys = 4
  MaxCmds = 1
INVARIANTS LineHonest HistoryIsPast OneSignalPerKey
PROPERTIES IntrReaches
CHECK_DEADLOCK FALSE
