SPECIFICATION Spec
CONSTANTS
    Competitors <- MCCompetitors
    ParticipantCounts = {1000, 1001}
    Percents = {4, 5, 6, 7}
    Streams <- MCStreams
    Standard <- MCStandard
    Compressed <- MCCompressed
INVARIANT
    ProgramsMatchBuiltins
CHECK_DEADLOCK FALSE
