SPECIFICATION FairSpec
CONSTANTS
  Owners = {o1, o2}
  Signers = {s1, s2}
  Ttls = {5}
  MinTtl = 2
  MaxTtl = 3
  MaxAge = 2
  MaxCalls = 1
  MaxFailures = 2
  Nil = Nil
INVARIANTS IInv OneOwnerActs HolderCanRenew
PROPERTIES LeaseIsTaken
