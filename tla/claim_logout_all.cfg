SPECIFICATION SpecSessions
CONSTANTS
  Users = {u1, u2}
  Admins = {u1}
  Sids = {x1, x2}
  Reqs = {w1}
  None = None
CHECK_DEADLOCK FALSE
INVARIANT LogoutAllCutsTheRest
