CONSTANTS
  DefaultKeys <- MCDefaultKeys
SPECIFICATION Spec
INVARIANTS
  TypeOK
  OfferedIsListed
  OneMethodPerName
  NothingIsHeldBack
