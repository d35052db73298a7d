SPECIFICATION Spec
CONSTANTS
  W = 5
  MIN_WIN_W = 2
  KERNEL_W = 2
  MENU_W = 1
  MAX_WINS = 4
  EV_CAP = 2
  TERM_IN_CAP = 1
  XWRAP = 8
  Apps = {a, b}
  Terms = {t}
  Requests <- Narrow
  MenuItems = {"monitor", "about", "term", "app", "reboot", "halt"}
  MaxFrames = 4
  MaxCalls = 5
  MaxRuns = 2
INVARIANTS DamageComplete CloseHeard OwnPixels
SYMMETRY Alike
CHECK_DEADLOCK FALSE
