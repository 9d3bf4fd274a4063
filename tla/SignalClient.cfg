SPECIFICATION FairSpec
INVARIANTS WriterHasOneUser WriterGoneBeforeContext RefreshBeforeSignals
PROPERTIES InterruptionRepaired StopEnds
