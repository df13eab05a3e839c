SPECIFICATION FairSpec
CONSTANTS
  Publishers = {p1, p2}
  Subs = {s1, s2}
  Small = s1
  BufInput <- Buffers
  Busy = p1
  MaxEvents <- Events
  EndlessModes = {TRUE, FALSE}
INVARIANTS NoSendOnClosed StreamIsFaithful
PROPERTIES PublishCompletes CloseCompletes
