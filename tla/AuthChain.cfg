SPECIFICATION Spec
CONSTANTS
  r1 = r1
  r2 = r2
  Undefined = Undefined
  Request = {r1, r2}
  Ttl = 2
  MaxSize = 2
  Method <- MCMethod
  MethodOptions <- MCMethodOptions
  ServiceOptions <- MCServiceOptions
  Rules <- MCRules
  DefaultPolicy = "deny"
  Roles = {"admin"}
  Scopes = {"read"}
  Token = {"alice", "bob", "eve", "mute", "carol"}
  Identity <- MCIdentity
  Party = {"trips", "billing", "rogue"}
  Known = {"trips", "billing"}
  PartyGrants <- MCPartyGrants
  RolesMapped = {"trips"}
  Subject = {"alice", "trips"}
  Secret = {secret, guess}
  secret = secret
  guess = guess
  Width = 3
  Deployment <- MCDeployment
  MaxTime = 3
  MaxRevoked = 1
INVARIANTS
  FreshIdentity
  CacheIsRecent
  OwnIdentity
  NoAnonymous
CHECK_DEADLOCK FALSE
