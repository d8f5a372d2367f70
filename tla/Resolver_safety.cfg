SPECIFICATION Spec
CONSTANTS
    DelegOnly <- MCDelegOnly
    NegDomainPol = "AUTH"
    NegRrsPol = "DEFAULT"
    Table <- MCTable
    Replies <- MCReplies
    Local0 <- MCLocal0
    Known <- MCKnown
    LocalAddrs = {6}
    Paranoids = {TRUE, FALSE}
    LndownKluge = FALSE
    Questions <- MCQuestions
    MaxHops = 3
    MaxCalls = 1
    MaxEvents = 1
CHECK_DEADLOCK FALSE
INVARIANTS Vouched PolicyFollows 
PROPERTIES Ends
