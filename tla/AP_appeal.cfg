CONSTANTS
  i1 = i1  i2 = i2  g1 = g1  g2 = g2
  Interactions = {i1, i2}
  Guilds = {g1, g2}
  NoGuild = NoGuild
  Sent <- MCSent
SPECIFICATION FairSpec
INVARIANTS TypeOK InvitedToTheRightGuild OneReplyShown ShownMeansInvited ToldUnlessLost
PROPERTIES EveryAppealEnds
