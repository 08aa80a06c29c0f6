SPECIFICATION Spec
CONSTANTS
    MaxFactor = 7
    MaxDuration = 15
    Policies <- AllPolicies
PROPERTIES
    DelayLaw
