SPECIFICATION Spec
CONSTANTS
    MaxMessage = 3
    MaxTurn = 4
    MaxLife = 2
INVARIANTS
    BeliefBacked
    AnsweredOnce
    
    

    
CHECK_DEADLOCK FALSE
