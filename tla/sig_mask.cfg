CONSTANT Sleepers = {"sigsleeper", "sigsleeper_fixed", "Z__Signal_Sender"}
SPECIFICATION Spec
INVARIANT CriticalOperationKept
CHECK_DEADLOCK FALSE
