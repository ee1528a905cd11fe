SPECIFICATION FairSpec
CONSTANTS
    MaxSends = 3
    Answers <- MCAnswers
CHECK_DEADLOCK FALSE
INVARIANTS
    TypeOK
    OneSendAtATime
    SendsCarryTheLatestTask
    CardsTellTheRuns
    PanelTellsTheRuns
PROPERTIES
    EverySendSettles
