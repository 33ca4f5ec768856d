SPECIFICATION Spec
CONSTANTS
  Workers = {w1, w2}
  Nobody = Nobody
  Users = {ann, bob}
  Names = {red, blue}
  Titles = {news, talk}
  Phones = {p1}
  Plans <- AllPlans
SYMMETRY Symmetry
INVARIANTS
  TypeOK
  
  ChannelsOwned
  AnsweredIsComplete
  DirectChatsBounded
  PostsByOwners
  CountAccounted

  
CHECK_DEADLOCK FALSE
