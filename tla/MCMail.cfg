SPECIFICATION MCSpec
CONSTANTS
  s = s
  t = t
  r = r
  Host = {0, 1}
  Box = {0, 1}
  Thread = {s, t, r}
  Sender = {s, t}
  Tester = {s, r}
  Home <- MCHome
  Reliability = 50
  Retries = 2
  MaxCalls = 4
  Nothing = Nothing
  Waiting = Waiting
  Awake = Awake
INVARIANTS PostInv MailKept
PROPERTIES MailMoves TestCompletes
CHECK_DEADLOCK FALSE
