INIT InitInput
NEXT PickInput

INVARIANT ScheduleSafeForInput
