SPECIFICATION FairSpec
CONSTANTS
    Users = {u1}
    Handlers = {h1, h2, h3}
    NoHandler = NoHandler
    PoolSize = 2
    Sizes = {1}
    DefaultQuota = 1
    NewQuotas = {2}
    Ops = {"read", "open", "upload", "set_quota"}
INVARIANTS
    TypeOK
    OneRootPerUser
    UserIsThere
PROPERTIES
    QuotaIsKept
    RequestsAreAnswered
