CONSTANTS
    large = large
    mixed = mixed
    broken = broken
    t1 = t1
    t2 = t2
    x = x
    y = y
    h1 = h1
    h2 = h2
    Batches = {large, mixed, broken}
    Content <- MCContent
    Topics = {t1, t2}
    NoTopic = NoTopic
    DefaultTopic = t1
    TopicFromAttribute = TRUE
    Traces = {x, y}
    Hashes = {h1, h2}
    NoKey = NoKey
    Configs <- MCConfigs
    Siblings <- MCSiblings
    Consumers = {c1, c2}
    QueueSize = 1
    MaxTries = 2
    MaxFaults = 1
    MaxResends = 1
    MaxMessageBytes = 3
CHECK_DEADLOCK FALSE
SPECIFICATION Spec
INVARIANTS
    SerializableSpansSent
