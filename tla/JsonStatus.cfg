SPECIFICATION FairSpec
CONSTANTS
    c1 = c1
    c2 = c2
    b1 = b1
    b2 = b2
    Con <- Con2
    Block <- Block2
    None = None
INVARIANTS StringsAreLive AnswerListsRequester
PROPERTIES RequestIsServed
