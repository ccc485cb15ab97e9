CONSTANTS
    None = None
    Parts = {"service", "accounts", "foreign", "mime"}
    Commands = {c1, c2}
    Messages = {m1}
    Signals = {k1}
    MaxConfs = 2
    Ables = {{}, {"session_key_value_db", "static_db", c1, c2}}
    Users = {u1}
    Reqs = {r1, r2, r3, r4}
    Passwords = {p1}
    MaxCount = 2
    Strategies = {s1}
    UserKeys = {e1, e2}
    Tokens = {t1, t2}
    AttemptsMax = 3
    MaxAway = 2
    Req = {q1, q2, q3}
    Assets = {a1}
SPECIFICATION Spec
SYMMETRY Symmetry
INVARIANTS TypeOK InstalledIsInitialized StopDisconnectsAll PageNumberIsLive SentFewerThanMax
PROPERTIES AssetsKeepContract
CHECK_DEADLOCK FALSE
