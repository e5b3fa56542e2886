SPECIFICATION Spec
CONSTANTS
    Sub = {s1, s2}
    Topic = {t1}
    NoTopic = NoTopic
    Interrupts = {"cancel"}
    MaxBreaks = 0
INVARIANTS
    ReadersAreFed
