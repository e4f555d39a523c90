SPECIFICATION FairSpec
CONSTANTS
  Bridges = {pro, pro2, other}
  Pros = {pro, pro2}
  Hosts = {a, b, c}
  Off = Off
  None = None
  Nobody = Nobody
  MaxFaults = 2
INVARIANTS
  CredentialsFit
PROPERTIES
  OnlyAddressMoves
  FollowsPro
