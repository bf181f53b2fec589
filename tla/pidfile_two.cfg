SPECIFICATION Spec
CONSTANTS
    Process = {p1, p2, p3}
    Inode = {i1, i2, i3, i4}
    None = None
INVARIANTS
    OneInstance
