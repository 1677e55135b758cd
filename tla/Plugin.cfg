SPECIFICATION Spec
CONSTANTS
    Addresses <- MCAddresses
    CaOf <- MCCaOf
    Definitions <- MCDefinitions
    Documents <- MCDocuments
    NoEntry = NoEntry
    NullEntry = NullEntry
    Operators = {north}
    Requests <- MCRequests
    Asdus <- MCAsdus
    MaxReconfigurations = 1
    NoClient = NoClient
    NoFault = NoFault
INVARIANTS
    TypeOK
    LastDefinitionWins
    ListsMatchDefinitions
    AcceptedIsSameInformation
    
    RunsOnCurrentConfig
    MissesOnlyOverlapped
    ReadingsStayLabelled
    AnswersAreRecognised
PROPERTIES
    ImportsUndisturbed
    CallsReturn
CHECK_DEADLOCK FALSE
