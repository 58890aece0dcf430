CONSTANTS
    TTL = 2
    Timed = TRUE
    None = None
SPECIFICATION FairSpec
INVARIANTS
    AuthTypeOK
    
PROPERTIES
    AskedOnce
    SwitchedOffByUser
    NobodyIsStranded
