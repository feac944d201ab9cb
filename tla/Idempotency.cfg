SPECIFICATION FairSpec
CONSTANTS
    Key = {k1}
    Hash = {h1, h2}
    Call = {c1, c2}
    MaxId = 2
    MaxDeaths = 2
    NoKey = NoKey
    NoHash = NoHash
INVARIANTS
    TypeOK
    EffectOnce
    HandlersExclude
    AnswerIsOfItsBody
    StoredAnswerIsOwn
PROPERTY NoKeyStaysBlocked
