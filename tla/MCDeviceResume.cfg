CONSTANTS
  None = None
  Session = {a, b}
  Host = {h}
  Folder = {f}
  Pid = {1, 2}
  MaxSessions = 2
  Files <- MCFiles
  MaxConns = 2
  Device = h
  Place = f
  MaxPosts = 2
  Situations <- ResumeLeft
SPECIFICATION DeviceSpec
CHECK_DEADLOCK FALSE
INVARIANT ServedByOwnAgent
