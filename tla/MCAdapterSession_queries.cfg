SPECIFICATION Spec
CONSTANTS
    None = None
    Sessions <- All
    QuicVersion = "v1"
INVARIANTS  AnswerOfItsSymbol SentAsAsked 
 
CHECK_DEADLOCK FALSE
