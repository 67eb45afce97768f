\* A seed and a node below it, in a build with threads only: getResult is the last use of the seed.
CONSTANTS
    Half = 8
    Full = 64
    Main = Main
    Serial = Serial
    Nodes = {1, 2}
    Makes <- LastUseMakes
    MaxCalls <- LastUseCalls
    MaxOffers = 0
    MaxReceived = 0
    Goals = {"MAXIMISE"}
    Offers <- MCOffers
    Scenarios = {"mt"}
SPECIFICATION Spec
INVARIANTS
    LastUseSafe
