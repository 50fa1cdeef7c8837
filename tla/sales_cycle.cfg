SPECIFICATION FairSpec
CONSTANTS
    Store = {"I63", "S01"}
    store_ids <- MCstore_ids
    Cycle = {"cron", "task"}
    CronCycle = "cron"
    Gap = {40}
    Watched = {"S01"}
    LOCAL_FIRST = FALSE
    USE_OPENROUTER = TRUE
    MISTRAL_KEY = FALSE
INVARIANTS
    PlanSurvivesOutage
    WeakPlanIsReviewed
PROPERTIES
    AlertIsFollowed
