SPECIFICATION Spec
CONSTANTS
    i1 = i1
    i2 = i2
    Ids = {i1, i2}
    NoId = NoId
    MaxCalls = 2
    MaxRetries = 2
SYMMETRY Symmetry
INVARIANTS FleetTypeOK ReportsAreTrue RegistrationIsSound FollowedOrFailed
