CONSTANTS
    Thread = {t1, t2}
    Item = {1, 2, 3, 4, 5, 6, 7, 8, 9}
    Branches <- MCBranches
    Lazy = {3}
    Policies = {"QUASI_HORIZONTAL", "WORK_STEALING"}
    Styles = {"eager", "late"}
SPECIFICATION FairSpec
INVARIANTS
    NoThrow
    LinksAgree
    RunsOnce
    NothingDropped
PROPERTY
    Completion
