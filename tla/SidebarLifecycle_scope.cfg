\* The sidebar is on in the session of w1 only; its windows are closed and the
\* other session gets a new window.
SPECIFICATION Spec
CONSTANTS
    w1 = w1
    w2 = w2
    w3 = w3
    s1 = s1
    s2 = s2
    Window = {w1, w2, w3}
    Session = {s1, s2}
    SessionOf <- ThreeWindows
    Daemon = {d1, d2}
    None = None
    User = User
    Budgets <- WindowsOnly
SYMMETRY SymmetryDaemon
INVARIANTS
    SessionsUntouched
CHECK_DEADLOCK FALSE
