\* Up to three tasks, every dependency graph on them, every transition.
SPECIFICATION Spec
CONSTANTS
    TaskIds = {t1, t2, t3}
INVARIANTS TypeOK AlwaysAWayForward
PROPERTIES TransitionsKeepOrder
