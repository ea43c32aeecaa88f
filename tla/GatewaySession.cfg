CONSTANTS
    a1 = a1
    a2 = a2
    NoApp = NoApp
    Apps = {a1, a2}
    Codecs <- MCOneCodec
    Kinds <- MCKinds
    MaxSessions = 2
SPECIFICATION Spec
INVARIANTS
    TypeOK
    ThreadOwnsSession
    InputNeedsMoonlight
    IdleMeansReleased
    HostOperationScoped
    SwitchOrdered
PROPERTIES
    LeaseSpec
