SPECIFICATION SamplingSpec
CONSTANTS
    Keys = {"k"}
    ForeignKeys <- MCForeignKeys
    Composite = {"pair"}
    Null = Null
    OrphanSampleLimit = 2
    JsonbSampleLimit = 150
    MinJsonbSample = 20
    Loads <- MCLoads
    Documents <- MCDocuments
    Pending = Pending
    Listed = Listed
    Raised = Raised
    MaxRows = 3
    MaxChanges = 2
INVARIANTS
    SamplesAreToldHonestly
    SamplingCoversUnvalidated
