CONSTANTS
    None = None
    Sockets = {s1, s2, s3}
    Tokens = {t1, t2}
SPECIFICATION Spec
SYMMETRY Symmetry
INVARIANTS TypeOK PingsCoverSessions 
PROPERTIES AnsweringIsSafe
CHECK_DEADLOCK FALSE
