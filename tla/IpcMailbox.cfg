SPECIFICATION FairSpec
CONSTANTS
  r1 = r1  s1 = s1  s2 = s2
  None = None
  Channels = {0, 1}
  AnyReceivers = {r1}
  ChanReceivers = {}
  Senders = {s1, s2}
  ChanOf <- OnOne
  KindOf <- AsyncAndTry
  SpuriousChans = {0}
  MaxRings = 1
INVARIANTS TypeOK NoLostWakeup RingsFree
PROPERTIES MailboxSpec Received AsyncSendReturns
