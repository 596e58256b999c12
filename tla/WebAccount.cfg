CONSTANTS
    c1 = c1
    c2 = c2
    c3 = c3
    own = own
    other = other
    Clients <- MCClients
    Passwords <- MCPasswords
    PW <- MCPW
    Ticks = {1, 2}
    None = None

SPECIFICATION Spec

INVARIANTS
    TypeOK
    CreatedOnce
    HalfUserOnlyByFault
    LoadNeedsPassword
    StoredTokenIsHeld
