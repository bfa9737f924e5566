CONSTANTS
  a = a  b = b  s1 = s1  r1 = r1
  Data = {a, b}
  Sender = {s1}
  Receiver = {r1}
  Period = 2
  MaxTimeout = 2
  MaxQueue = 2
SPECIFICATION FairSpec
PROPERTY OfferStands
PROPERTY IsStream
PROPERTY SendReturns
PROPERTY TimeoutReturns
