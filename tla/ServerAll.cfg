CONSTANTS
    Handler = {h1, h2}
    Owner = Owner
    Static = Static
    Cell = {c1, c2, c3}
    Pool = {p1, p2, p3}
    Task = {t1, t2, t3}
    None = None
SPECIFICATION Spec
SYMMETRY Symmetry
INVARIANTS TypeOK SweepersOwned HandlesLive
PROPERTIES AcceptedKeepOptions
