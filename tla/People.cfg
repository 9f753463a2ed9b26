SPECIFICATION PeopleSpec
CONSTANTS
  Users = {"u1", "u2"}
  Emails = {e1, e2}
  Spaces = {"w1"}
  Tokens = {"t1", "t2", "t3"}
  Roles = {"consultant", "partner", "client"}
  Seats <- PlanSeats
  NoUser = Nobody
  NoToken = Nobody
  NoEmail = Nobody
  NoSpace = Nobody
  Calls = {c1, c2}
  Alone = {"revoke"}
  Nobody = Nobody
  Nothing = Nothing
  Accounts = {"a1"}
  SessionsAt <- MCSessionsAt
  Codes = {"k1"}
  MaxFailures = 2
  MaxAttempts = 1
  MaxResets = 1
  Clients = {"k1"}
  Partners = {"p1"}
  Tasks = {"t1"}
  Movers = {"c"}
  RequestsAt <- MCRequestsAt
  CasesAt <- MCCasesAt
  ConsultantsAt <- MCConsultantsAt
  Owners = {"u1", "u2"}
  Officers = {"u2"}
  Blobs = {"b1", "b2", "b3"}
  Staffers = {"s1", "s2"}
  Addresses = {"e1", "e2", "e3"}
  Configured = "e1"
  TokenSet = TRUE
SYMMETRY Symmetry
CHECK_DEADLOCK FALSE
INVARIANTS PeopleTyped MembersHeld GuessesBounded ResetSignsOut PartnersFind PictureOpens StaffKept
PROPERTY MovedWhole
