SPECIFICATION FairSpec
CONSTANTS
    Servers = {api1, api2}
    Seeders = {seed}
    Clients = {c1}
    UserIds = {u1, u2}
    Addresses = {admin, ann}
    AdminAddress = admin
    Roles = {ADMIN, OPERATOR}
    RoleAdmin = ADMIN
    Passwords = {pw1, pw2}
    SeedPassword = pw1
    TicksPerSecond = 2
    Expiry = 2
    MaxTime = 6
    None = None
INVARIANTS AddressesUnique AdminIsSeeded TokenLifetime
PROPERTY SeedingSucceeds
