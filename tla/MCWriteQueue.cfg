\* Three writes, so that one can be served while a second one waits in its batch
\* and a third one in the queue behind it; the operation timeout on and off.
SPECIFICATION FairSpec
CONSTANTS
    Writes = {w1, w2, w3}
    None = None
INVARIANT NeverRanHonest
INVARIANT InOrder
INVARIANT NobodyForgotten
INVARIANT NoLoadUnderOperation
PROPERTY EveryWriteSettles
PROPERTY BatchNeverStranded
