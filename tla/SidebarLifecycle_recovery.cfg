\* A daemon is killed while windows are opened and closed, or while the user
\* turns the sidebar on or off; daemons stop for want of clients.
SPECIFICATION FairSpec
CONSTANTS
    w1 = w1
    w2 = w2
    w3 = w3
    s1 = s1
    s2 = s2
    Window = {w1, w2}
    Session = {s1}
    SessionOf <- OneSession
    Daemon = {d1, d2}
    None = None
    User = User
    Budgets <- CommandOrWindows
INVARIANTS
    TypeOK
PROPERTIES
    Recovers
    NoOrphans
CHECK_DEADLOCK FALSE
