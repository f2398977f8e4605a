SPECIFICATION Spec
CONSTANTS
    MaxPods = 6
    MaxGen = 2
    MaxEvents = 1
    Events = {"alter", "delete", "timeout", "imageError", "apiError", "crash"}
INVARIANTS TypeOK FewPods
PROPERTIES LastOutcomeIsRecorded SuccessComesFromPod RunEnds PodsEnd
CHECK_DEADLOCK FALSE
