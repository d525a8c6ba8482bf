CONSTANTS
    None = None
    ChainIDs = {1, 2}
    ConfigSets <- MCConfigSets
    MaxHeight = 5
SPECIFICATION Spec
INVARIANTS
    StartupInv
    RulesAgree
