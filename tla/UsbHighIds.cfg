SPECIFICATION Spec
CONSTANTS
    System = {"hidraw"}
    Node <- MCNode
    Bus <- MCBus
    BusOf <- MCBusOf
    Id = {1, 5}
    IdHalf = 4
    MaxSize = 3
    MaxSearches = 2
INVARIANTS
    NotFoundMeansAbsent
