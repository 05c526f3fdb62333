SPECIFICATION Spec
CONSTANTS
    Users = {"u1", "u2"}
    Coros = {"c1", "c2"}
    Idents <- MCIdents
    Lower <- MCLower
    Tomb <- MCTomb
    Profiles <- MCProfiles
    Seeds <- MCSeeds
    Changes <- MCChanges
    AutoCreate = TRUE
    AllowCreate = TRUE
    MaxFlows = 3
 
PROPERTY RefusedOnlyIfTaken
CHECK_DEADLOCK FALSE
