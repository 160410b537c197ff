SPECIFICATION Spec
CONSTANTS
    Transfers = {t1, t2}
    Syncs = {s1, s2}
    MaxLogins = 2
SYMMETRY Symmetric
INVARIANTS OneIdentity LogoutHolds RefreshTokenUsable
