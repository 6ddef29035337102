SPECIFICATION FairSpec
INVARIANTS
    NothingDestroyedIsUsed

    
CHECK_DEADLOCK FALSE
