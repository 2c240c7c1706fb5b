\* The planner's own plans and plans of up to three tasks, two runs each.
SPECIFICATION Spec
CONSTANTS
    r1 = r1
    r2 = r2
    ReqIds = {r1, r2}
    NoReq = NoReq
    NoPlan = NoPlan
    NoTask = NoTask
    Extractions <- SomeExtractions
    GivenPlans <- SomePlans
    Reportable = {1}
    MaxRuns = 2
INVARIANTS
    TypeOK WorkIsSound EvidenceIsForRequirements OwnPlansPass ExecutedPlansPass
    RevisionRepairs RecommendationFits CycleSearchIsExact
    CriticalPathIsLeastTime ParallelWorkIsParallel
PROPERTIES RunEnds
CHECK_DEADLOCK FALSE
