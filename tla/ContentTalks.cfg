CONSTANTS
  reply = reply
  msg = msg
  msg2 = msg2
  aside = aside
  c1 = c1
  c2 = c2
  main = main
  other = other
  None = None
  Txid = {msg, msg2, reply}
  Channel = {main, other}
  Outputs <- TalkOutputs
  Hosted <- TalkHosted
  Reply <- TalkReply
  ChannelOf <- TalkChannel
  Call = {c1, c2}
  MayFail = TRUE
  MayCrash = TRUE
SPECIFICATION Spec
SYMMETRY Interchangeable
INVARIANTS
  TypeOK
  AnnouncedOnce
  LinksAreSound
  ActorRepairs
PROPERTY RowsOnlyGain
