SPECIFICATION Spec
CONSTANT Programs <- AllPrograms
INVARIANTS UsesLive ParentsOutliveChildren NothingLeaks DrawsWritten DestroysValid
CHECK_DEADLOCK FALSE
