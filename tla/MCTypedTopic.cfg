SPECIFICATION Spec
CONSTANTS
  Pub = "pub"
  Sub = "sub"
  Procs = {"pub", "sub"}
  Messages = {"Top", "Pose", "P"}
  Services = {"Srv"}
  Dirs = {".", "share"}
  Current = "."
  Hints <- MCHints
  App = App
  NoDir = NoDir
  OneLetter = {"P"}
  Levels = 3
  Base = 3
  WordBytes = 2
  Digit <- MCDigit
  SixDigits <- MCSixDigits
  NearestFloat <- MCNearestFloat
  Escape <- MCEscape
  Banned = {2}
  Topic = "Top"
  Cases <- MCCases
  Slots <- MCSlots
  MaxChanges = 1
  Nothing = Nothing
INVARIANTS
  TypeOK
  CodeStaysLoaded
  RoundTrip
  ReadWithinPacket
  JsonKeepsTheRest
PROPERTIES
  FoundStaysFound
CHECK_DEADLOCK FALSE
