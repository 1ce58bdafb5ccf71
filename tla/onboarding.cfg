SPECIFICATION Spec
CONSTANTS
  Visitors = {w1, w2}
  Invitations = {i1, i2}
  Mailboxes = {e1, e2}
  Accounts = {c1, c2}
  ConnRequests = {q1}
  Tokens = {t1, t2}
  Nothing = Nothing
  Handlers = {w1, w2}
  Emails = {m1}
  LoginScopes = {login}
  OpenScopes = {accept}
  Address = Address
  EmailMax = 2
  AddressMax = 3
  Nobody = Nobody
  Inns = {i1, i2}
  Names = {e1, e2}
  Written <- Addresses
  Ours <- HouseFive
  Room <- RoomThree
  Admins = {a1}
  Unknown = Unknown
SYMMETRY Symmetry
CHECK_DEADLOCK FALSE
INVARIANTS
  InvitationMakesOneAccount
  OwnersLeadBackToRequest
  OvershootIsBounded
  MatchedOrAccepted
