\* Two planning transactions in flight; 300 lies within the hysteresis of 250.
SPECIFICATION Spec
CONSTANTS
    Writers = {t1, t2}
    Choices = {a, b}
    ManualChoices = {}
    Amounts = {200, 300, 400}
    Thresholds = {250}
    None = None
    MaxClock = 3
    MaxObserved = 1
    MaxVersion = 2
SYMMETRY MCSymmetry
INVARIANTS
    EpisodesAreInOrder
PROPERTIES
    ClaimFollowsEvaluation
CHECK_DEADLOCK FALSE
