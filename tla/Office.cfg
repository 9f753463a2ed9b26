SPECIFICATION OfficeSpec
CONSTANTS
  Tasks = {"t1", "t2"}
  Partners = {"p1", "p2"}
  Earnings = {"e1", "e2"}
  Payouts = {"y1", "y2"}
  NoTask = Nothing
  NoPayout = Nothing
  Calls = {c1, c2}
  MayCrash = TRUE
  Nobody = Nobody
  Nothing = Nothing
  CardIds = {"k1", "k2", "k3"}
  Accounts = {"a1", "a2"}
  ApiKeys = {"q1", "q2", "q3"}
  AccountOf <- MCAccountOf
  Amounts = {1, 2}
  PriceIds = {1, 2, 3}
  PlanNames = {"p1", "p2"}
  Cycles = {"m", "y"}
  PlanAmounts = {"n0", "n1"}
  BuiltIn = "n0"
  Bills = {"b1", "b2"}
  Clients = {"u1"}
  MaxNumber = 3
  People = {"u1", "u2", "u3"}
  Contacts <- MCContacts
  Threads = {"t1"}
  Messages = {"m1", "m2"}
  Sockets = {"s1"}
  Convos = {"b1"}
  Window = 2
  MaxTurns = 6
  Owners = {"u1", "u2"}
  Devices = {"d1"}
  MaxUnread = 1
  News = {"n1"}
  Firms = {"f1", "f2"}
  Audience = {"p1", "p2", "p3"}
  FirmOf <- MCFirmOf
  RoleOf <- MCRoleOf
  Staffers = {"s1"}
  Notes = {"m1"}
  MaxTold = 2
  Appointments = {"x1"}
  Guests = {"u1"}
  Consultants = {"k1", "k2"}
  Holders = {"k1"}
  Horizon = 5
  Month = 2
  Agents = {"a1"}
  MaxReplies = 4
  Types = {"t1", "t2"}
  Asked = {"t1"}
  Requests = {"r1"}
  Kinds = {"k1"}
  MaxTrail = 2
  Policies = {1, 2}
  Versions = {1, 2}
  Wordings = {1, 2}
  Readers = {"u1"}
SYMMETRY Symmetry
CHECK_DEADLOCK FALSE
INVARIANTS OfficeTyped PayoutsHonest SomethingToCharge PriceFits BillsTold ConversationsKept NoticesOnce CalendarFollows WaitsOnTheOther ConsentTraced
PROPERTIES TariffKept AlwaysLive
