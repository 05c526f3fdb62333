SPECIFICATION Spec
CONSTANTS
    Coros = {c1, c2}
    Procs = {p1, p2}
    MaxFlows = 2
    Longer = {"migrations", "imports", "guards", "passwords", "keys", "oidc", "mfa", "passkeys", "sms", "bot"}
    None = None
    RoleIds = {"r1", "r2"}
    Names = {"n1", "n2", "owner"}
    SystemNames = {"owner"}
    Scopes = {"global", "team"}
    GrantIds = {"g1"}
    Seeds <- MCSeeds
    KeyIds = {"k1", "k2"}
    Reports = {"a", "b"}
    MaxIndex = 1
    Keyrings <- MCKeyrings
    Versions = {1, 2}
    Migrants = {1, 2}
    MaxRequests = 2
    MaxBreaches = 2
    Tolerance = 2
    Requests = {"q1", "q2", "q3"}
    Ids = {"x", "y", "z", "w", "v", "u", "a", "b", "d", "e"}
    Subjects = {"ann", "bob"}
    Nameless = {"bob"}
    Posts <- MCPosts
    ProviderIds = {"i1", "i2", "i3"}
    Issuers = {"a", "b", "c"}
    Slugs = {"x", "y", "z"}
    Catalogs <- MCCatalogs
    MaxKey = 3
    Attempts = {"a1", "a2", "a3"}
    People = {"ann", "bob"}
    Clients = {"google", "apple"}
    MaxOpened = 2
    MaxAttempts = 2
    Batch = {1, 2}
    Authenticators = {"k1", "k2", "k3"}
    MaxSends = 2
    MaxTries = 2
    PerMinute = 2
    PerHour = 3
    MaxEntries = 2
PROPERTY RolesSound
 
INVARIANT FederationSound
INVARIANT SecondFactorSound
SYMMETRY Symmetry
CHECK_DEADLOCK FALSE
