CONSTANTS
    Types = {"stagnation", "threat", "failure", "weather"}
    Predefined = {"stagnation", "threat", "failure"}
    Stagnation = "stagnation"
    HostThreat = "threat"
    Weather = "weather"
    Threats = {"threat"}
    Expiry = "expiry"
    Observed <- ObservedMC
    Rate <- RateMC
    Fade = 1
    Full = 3
    Floor = 1
    Calm = 2
    Initial = 1
    ThreatInitial = 2
    WeatherInitial = 1
    Relief = 1
    FailBase = 1
    FailStep = 1
    FailCap = 2
    NeverBase = 1
    NeverStep = 0
    NeverCap = 2
    LateTarget = 1
    OldTarget = 2
    MaxStressors = 3
    TalkLimit = 2
    Window = 2
    MaxAge = 1
    MaxPanel = 1
SPECIFICATION Spec
INVARIANTS TypeOK StagnationIsSeen
PROPERTIES StagnationIsEarnedOff InventedFade
