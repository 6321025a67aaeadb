SPECIFICATION Spec
CONSTANTS
    System = {"usbfs", "hidraw", "ugen", "usbdev"}
    Node <- MCNode
    Bus <- MCBus
    BusOf <- MCBusOf
    Id = {1, 2}
    IdHalf = 4
    MaxSize = 3
    MaxSearches = 2
INVARIANTS
    NotFoundMeansAbsent
    SearchClosesFiles
    BytesOnce
