CONSTANTS
    None = None
    Systems <- const_Systems
    Services <- const_Services
    Provides <- const_Provides
    Requires <- const_Requires
    Order <- const_Order
    Desires <- const_Desires
    Gens <- const_Gens
    MaxReconciles = 2
    MaxFaults = 0
    MaxHurt = 0
    MaxCalls = 0
SPECIFICATION Spec
INVARIANT RunningIsServed
CHECK_DEADLOCK FALSE
