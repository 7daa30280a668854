SPECIFICATION FairSpec
CONSTANTS
    c1 = c1
    c2 = c2
    c3 = c3
    c4 = c4
    s1 = s1
    Calls = {c1, c2, c3, c4}
    Subscribers = {s1}
    Topics <- MCTopics
    TopicOf <- MCTopicOf
    RoutingKeyOf <- MCRoutingKeyOf
    ListenTopic <- MCListenTopic
    After <- MCAfter
    Capacity = 1
    None = None
INVARIANTS
    TypeOK
    NoStranded
    PanicOnlyInGap
    TopicIsolation
PROPERTY ImplementsMailbox
CHECK_DEADLOCK FALSE
