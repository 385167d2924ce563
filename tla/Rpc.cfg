SPECIFICATION FairSpec
CONSTANTS
  Asker = {a1, a2}
  Writer = {w1}
  Nothing = nothing
  MaxLog = 3
INVARIANTS NoLostWakeup
PROPERTIES AnswerReturned
CHECK_DEADLOCK FALSE
