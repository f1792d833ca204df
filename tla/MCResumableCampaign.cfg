CONSTANTS
    None = None
    Failed = Failed
    Programs <- AllPrograms
    StagesOf <- MCStagesOf
    CommandLines <- MCCommandLines
    Sources <- MCSources
    Verdict <- MCVerdict
    Outcomes <- MCOutcomes
    Planned <- MCPlanned
    Ready <- MCReady
    Accepts <- MCAccepts
    Conclude <- MCConclude
    Quotes <- MCQuotes
    Keepers <- MCKeepers
    time_limits_ms <- MCTimeLimits
    minimum_time_limits = 2
    minimum_pairs = 2
    depths <- MCDepths
    limits <- MCLimits
    comparisons <- MCComparisons
    noninferiority_margin = 2
    minimum_100ms_score_rate = 48
    minimum_later_pair_attempts = 2
    minimum_later_pair_successes = 1
    minimum_shadow_candidates = 2
    false_cut_bound = 90
    runs <- MCRuns
    root_counts <- MCRootCounts
    seeds <- MCSeeds
    MaxSessions <- MCMaxSessions
    MaxMishaps <- MCMaxMishaps
SPECIFICATION Spec
INVARIANTS
    ReportIsCurrent
    WorseEvidenceNeverPromotes
    PromotionIsOneSided
PROPERTIES
    FinishedStagesStand
CHECK_DEADLOCK FALSE
