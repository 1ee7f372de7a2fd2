\* Two tokens stored at the same time, and the clock ticking meanwhile.
CONSTANTS
    Nil = Nil
    token1 = token1
    token2 = token2
    session1 = session1
    session2 = session2
    grant = grant
    uid = uid
    Models <- MCModels
    GrantOf <- MCGrantOf
    UidOf <- MCUidOf
    Grants = {grant}
    Uids = {uid}
    Upserts = {p1, p2}
    Revokers = {r1}
    Lifetimes = {1, 3}
    Ticks = {500}
    Latency = 500
    MaxTime = 1500
    Serial = FALSE
SPECIFICATION AdapterSpec
INVARIANT
    RevokedTokensAreGone
