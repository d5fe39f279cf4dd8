CONSTANTS
    None = None
    Components <- MCComponents
    Content <- MCContent
SPECIFICATION Spec
INVARIANTS
    TypeOK
    PlansTheThreeWayRule
    NoEditOverwritten
    DeletionIsOptIn
    SyncSettles
    DirectionsCompose
