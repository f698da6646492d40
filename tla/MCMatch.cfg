SPECIFICATION Spec
CONSTANTS
    Competitors <- MCCompetitors
    ParticipantCounts = {1000, 1001}
    Percents = {4, 5, 6, 7}
    Streams <- MCStreams
    Standard <- MCStandard
    Compressed <- MCCompressed
INVARIANTS
    TypeOK
    GapCountsDefections
    TitForTatKeepsUp
    NiceNeverFirst
    GradualForgives
    OtherProgramsMatch
    StreamsIndependent
CHECK_DEADLOCK FALSE
