CONSTANTS
    None = None
    Users = {u1}
    Reqs = {r1, r2, r3, r4}
    Passwords = {p1}
    MaxCount = 2
SPECIFICATION AccountSpec
INVARIANTS PasswordStays
CHECK_DEADLOCK FALSE
