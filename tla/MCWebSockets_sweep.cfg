CONSTANTS
    None = None
    Sockets = {s1, s2}
    Tokens = {t1}
SPECIFICATION FairSpec
PROPERTIES SuspectsAreClosed
CHECK_DEADLOCK FALSE
