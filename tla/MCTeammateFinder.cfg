CONSTANTS
  Devices = {phone, tablet}
  Authors = {phone}
  Systems = {"PS4", "PC"}
  MaxReads <- MCMaxReads
  MaxTaps = 2
  MaxStale = 1
  NoComposer = NoComposer
  phone = phone
  tablet = tablet

SPECIFICATION FairSpec
INVARIANTS
  TypeOK
  OnePostPerTap
  OthersSeeAccepted
PROPERTIES
  LostStaysLost
  EveryTapIsDecided
  EveryDeviceIsAFeed
  IsABoard
