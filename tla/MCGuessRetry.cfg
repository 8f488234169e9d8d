CONSTANTS
    NClients = 2
    NSlots = 2
    Dictionary <- MCDictionary
    Lines <- MCLines
    Zero = 1
    ToLower <- MCToLower
    NoClient = NoClient
    Null = Null
    MaxLines = 3
    MaxQuits = 0
SPECIFICATION Spec
INVARIANTS RetryAnswered
CHECK_DEADLOCK FALSE
