SPECIFICATION Spec
CONSTANTS
    a = a
    b = b
    exe = exe
    lib = lib
    f1 = f1
    f2 = f2
    c1 = c1
    c2 = c2
    Supervisors = {a, b}
    Exe = exe
    Libraries = {lib}
    Files = {f1, f2}
    Contents = {c1, c2}
    Missing = Missing
    Unread = Unread
    NoImage = NoImage
SYMMETRY MCSymmetry
INVARIANTS
    TypeOK
    SidecarRunsOwnExe
    TagMatchesContent
    ContextIsRemoved
