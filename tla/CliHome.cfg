SPECIFICATION Spec
CONSTANTS
    i1 = i1
    i2 = i2
    d1 = d1
    r1 = r1
    Proc = {p1, p2}
    Identity = {i1, i2}
    Delegation = {d1}
    Request = {r1}
    Signer <- MCSigner
    Authority <- MCAuthority
    Migrations = 2
SYMMETRY Commands
INVARIANTS
    RowsAreBacked
    IdentitiesAreWhole
    AnchorsAreKept
    SchemaIsPrefix
