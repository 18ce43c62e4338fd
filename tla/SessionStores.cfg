SPECIFICATION MCSpec
CONSTANTS
  None = None
  Titles = {"t1", "t2"}
  Workspaces = {"w"}
  Runs = {"r1"}
  Messages = {m1, m2}
  Parts = {p1, p2}
  Places <- MCPlaces
  Attempts <- MCAttempts
  UsePlaces <- MCUsePlaces
  Calls = {c1, c2}
  Uses = {u, v}
  Requests = {"q1", "q2"}
  Resources = {"x"}
  Clients = {"a", "b"}
  ResourceLists <- RepeatedLists
  MaxRevision = 2
  MaxEvents = 8
SYMMETRY SameIds
INVARIANTS StreamReplays TablesMatchStream StoresAgree
PROPERTIES NoLostRename
CHECK_DEADLOCK FALSE
