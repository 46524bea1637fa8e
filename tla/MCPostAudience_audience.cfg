\* A reader turns the pages of a feed while posts are created, moved to other audiences
\* and deleted, and profiles change.
SPECIFICATION Spec
CONSTANTS
    u1 = u1 u2 = u2 p1 = p1 p2 = p2 p3 = p3 d1 = d1 r1 = r1
    None = None
    Users = {u1, u2}
    Posts = {p1, p2}
    Departments = {d1}
    Profiles <- MCProfiles
    Contents <- MCContents
    Feeds = {"all"}
    Filters <- MCFilters
    Times = {1, 2}
    Limit = 1
    Requests = {r1}
    MaxWrites = 3
    MaxVisits = 1
CHECK_DEADLOCK FALSE
SYMMETRY Symmetry
INVARIANTS TypeOK PagesShowEachOnce ToldCanOpen
PROPERTIES AudienceIsTold
