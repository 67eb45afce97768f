\* Three nodes with two calls each; two tasks that offer results.
CONSTANTS
    Half = 8
    Full = 64
    Main = Main
    Serial = Serial
    Nodes = {1, 2, 3}
    Makes <- MCMakes
    MaxCalls <- MCCalls
    MaxOffers = 1
    MaxReceived = 2
    Goals = {"MAXIMISE", "MINIMISE"}
    Offers <- MCOffers
    Scenarios = {"mt", "mp", "results"}
SPECIFICATION FairSpec
INVARIANTS
    IInv
    NativeSafe
    ResultMatchesScore
PROPERTIES
    EventuallyFreed
