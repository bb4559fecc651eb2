CONSTANTS
    MaxInteractiveRounds = 2
    MaxAuthStages = 3
    MaxPromptsPerRound = 2
    MaxMisuses = 1
    None = None
    Scenarios <- MCScenarios
SPECIFICATION Spec
CHECK_DEADLOCK FALSE
INVARIANTS
    TypeOK
    BoundedExchange
    AnswersReachTheirPrompt
    HonestUserAdmitted
    AcceptedMeansProved
