\* Sends, failing writes, backpressure and both kinds of close.
CONSTANTS
    Messages = {m1, m2, m3, m4}
    MaxQueue = 2
SPECIFICATION FairSpec
INVARIANTS
    OneWriteAtATime
    OrderedWrites
    AnswersTruthful
    NothingStranded
PROPERTY HandlersInvoked
