SPECIFICATION Spec
CONSTANTS
    Workers = {w1, w2}
    Profiles = {"p1", "p2"}
    ModelIds <- MCModelIds
    Uses = {"draft", "structured"}
    JsonUses = {"structured"}
    Shapes <- MCShapes
    Rules <- MCRules
    Contexts <- MCContexts
    Fetched <- MCFetched
    Defaults <- MCDefaults
    NoProfile = NoProfile
    NoRule = NoRule
    MaxOps = 2
INVARIANTS
    TypeOK
    JsonRouted
    RefusedContentStays
PROPERTY CallsEnd
CHECK_DEADLOCK FALSE
