SPECIFICATION PolicySpec
CONSTANTS
    Deployments <- MCDeployments
    Calls = {c1, c2}
    Tools = {"shell"}
    Declared <- MCDeclared
    DefaultPolicy <- MCDefaultPolicy
    Actors = {"", "alice"}
    NoActor = ""
    Firings <- MCFirings
    RawPrefs = {"", "strict"}
    EnvPref = "balanced"
    Cooldown = 2
    MaxTime = 3
INVARIANTS
    ResolutionTypeOK
    ResolveStable
    WriteVerbNeverLaxer
    WriteGateCanFire
    TypeOK
    ThrottleInv
    TrailMatchesOutcome
    RefusalStands
PROPERTIES
    PromptsSpacedUnlessRaced
    ImplementsSignOff
CHECK_DEADLOCK FALSE
