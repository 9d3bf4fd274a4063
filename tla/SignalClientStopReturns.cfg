SPECIFICATION FairSpec
PROPERTY StopReturns
