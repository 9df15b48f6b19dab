SPECIFICATION Spec
CONSTANTS
    Deployments <- MCDeployments
    Calls = {c1, c2}
    Tools = {"shell"}
    Declared <- MCDeclared
    DefaultPolicy <- MCDefaultPolicy
    Actors = {"", "alice"}
    NoActor = ""
    Firings <- MCFirings
    RawPrefs = {"", "strict"}
    EnvPref = "balanced"
    Cooldown = 2
    MaxTime = 3
PROPERTY ApprovedIsNotAskedAgain
CHECK_DEADLOCK FALSE
