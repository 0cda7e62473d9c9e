\* Two live threads share a bucket, and the operator lowers its cap meanwhile.
SPECIFICATION LimiterFairSpec
CONSTANTS
    l1 = l1  l2 = l2  b1 = b1  e1 = e1  p1 = p1  p2 = p2
    u1 = u1  u2 = u2  u3 = u3  u4 = u4
    Callers = {l1, l2}
    Uuids = {u1, u2, u3}
    Admins = {p1}
    Distributions <- MCBodies
    BucketOf <- MCBucketOf
    DefaultCaps <- MCDefaultCaps
    Window = 2
    Grace = 1
    NoQuota = NoQuota  Free = Free  NoTtl = NoTtl
INVARIANTS OverrunBounded
PROPERTY SlotProgress
