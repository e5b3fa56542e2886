SPECIFICATION Spec
CONSTANTS
    Sub = {s1, s2, s3}
    Topic = {t1, t2}
    NoTopic = NoTopic
    Interrupts = {"timeout", "cancel"}
    MaxBreaks = 2
SYMMETRY Symmetry
INVARIANTS
    TypeOK
    SubscriptionBookkeeping
PROPERTIES
    LeaksOnlyWhileResubscribing
    ClosedHubStaysDown
