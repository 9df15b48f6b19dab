SPECIFICATION Spec
CONSTANTS
    k1 = k1
    alice = alice
    bob = bob
    anonymous = anonymous
    s1 = s1
    s2 = s2
    Ids <- MCIds
    Owners <- MCOwners
    Complete <- MCComplete
    States <- MCStates
    Nothing = Nothing
    TTL = 2
    MaxTime = 5
INVARIANTS TypeOK SoleUserReadsTheSame
PROPERTY OnlyOwnerEndsRow
