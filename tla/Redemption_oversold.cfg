SPECIFICATION Spec
CONSTANTS
    Users = {u1, u2}
    Workers = {w1, w2}
    Ops = {"redeem", "disable"}
    MaxRequests = 3
    MaxUses = 1
    HasBonus = TRUE
    MaxPerUser = 1
    TotalLimit = 1
    Seeded = {u1, u2}
    Aborts = FALSE
    NoRow = NoRow
    None = None
INVARIANTS CodeNeverOversold
