SPECIFICATION Spec
CONSTANTS
    Sessions = {s1, s2}
    MaxTurns = 3
    MaxCrashes = 1
INVARIANTS
    ProperConversation
    HistoryKept
    TornOnlyByFailure
