SPECIFICATION FairSpec
CONSTANTS
    Ids = {1, 2, 3}
    NoId = 0
    MaxNotes = 3
    Manifests <- MCManifests
INVARIANTS
    TypeOK
    AcceptedSound
    LoopsComputeRules
PROPERTY
    Terminates
