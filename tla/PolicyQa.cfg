SPECIFICATION QaSpec
CONSTANTS
    Questions <- MCQuestions
    EntryIds = {e1, e2, e3}
    Handlers = {h1, h2}
    ttl = 2
    similarityThreshold <- MCThreshold
    maxCandidates = 2
    RETRIEVAL_TOP_K = 1
    LastAsk = 1
    MaxTime = 3
    Texts <- MCTexts
    DocIds = {d1}
    Ingesters = {g1}
    Null = Null
SYMMETRY MCSymmetry
CHECK_DEADLOCK FALSE
INVARIANTS
    LiveEntriesIndexed
    HitIsBest
    MissGenuine
    AnswersGrounded
    IngestedWhole
