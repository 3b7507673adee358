SPECIFICATION Spec
CONSTANTS
    Groups = {"g1", "g2"}
    Ranges = {"wide", "narrow"}
    RangeOf <- MCRangeOf
    Rps = {1, 2}
    Hash <- MCHash
    Configs <- MCConfigs
    Plans <- MCPlans
    Mappings <- MCMappings
    BsrHold = 2
    None = None
INVARIANTS
    MappingIsCurrent
    MembersHaveTree
    HeldWhileSaid
