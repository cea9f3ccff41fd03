SPECIFICATION FairSpec
CONSTANTS
    r1 = r1
    r2 = r2
    r3 = r3
    u0 = u0
    u1 = u1
    NoRow = NoRow
    Requests = {r1, r2, r3}
    Users = {u0, u1}
    EmptyName = u0
    UserOf <- MCUserOf
INVARIANTS TypeOK WorksOnOwnRow ToldMeansStored RowHasClient
PROPERTIES EndsAnswered ImplementsRegistry
