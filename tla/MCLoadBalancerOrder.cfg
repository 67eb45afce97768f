CONSTANTS
    Thread = {t1, t2}
    Item = {1, 2, 3, 4, 5}
    Branches <- SingleBranch
    Lazy = {}
    Policies = {"QUASI_HORIZONTAL"}
    Styles = {"eager", "late"}
SPECIFICATION FairSpec
PROPERTY
    NearestToRoot
