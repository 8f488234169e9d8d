CONSTANTS
    NClients = 4
    NSlots = 3
    Dictionary <- MCDictionary
    Lines <- MCLines
    Zero = 1
    ToLower <- MCToLower
    NoClient = NoClient
    Null = Null
    MaxLines = 5
    MaxQuits = 1
SPECIFICATION Spec
INVARIANTS SlotTable UniqueNames KnowsLength NoMutualWait
CHECK_DEADLOCK FALSE
