SPECIFICATION FairSpec
CONSTANTS
  Worlds = {0, 1}
  Places = {p, q}
  Bank = bank
  Sessions = {s1}
  Races = {"senderror"}
  InboxSize = 2
  None = none
INVARIANTS
  TypeOK
  OneCharacter
  FoundAtLogin
  PlayersAreHome
  KnowsItsWay
PROPERTIES
  EndsInStorage
