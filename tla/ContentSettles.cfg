CONSTANTS
  reply = reply
  msg = msg
  msg2 = msg2
  aside = aside
  c1 = c1
  c2 = c2
  main = main
  other = other
  None = None
  Txid = {msg, msg2, aside}
  Channel = {main, other}
  Outputs <- ChatOutputs
  Hosted <- ChatHosted
  Reply <- ChatReply
  ChannelOf <- ChatChannels
  Call = {c1, c2}
  MayFail = FALSE
  MayCrash = FALSE
SPECIFICATION FairSpec
INVARIANT BestSourceWins
PROPERTY MessagesSurface
