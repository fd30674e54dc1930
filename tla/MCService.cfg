\* Two clients, one with two requests of any kind and one with one.
CONSTANTS
    c1 = c1
    c2 = c2
    Connections = {c1, c2}
    Requests <- MCRequests
    MaxRequests <- MCMaxRequests
SPECIFICATION FairSpec
INVARIANTS
    AnswersOwn
    MessageOwn
    BuffersOwned
PROPERTIES
    EachAnswered
    ThreadEnds
