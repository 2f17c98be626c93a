CONSTANTS
    None = None
    Systems <- const_Systems
    Services <- const_Services
    Provides <- const_Provides
    Requires <- const_Requires
    Order <- const_Order
    Desires <- const_Desires
    Gens <- const_Gens
    MaxReconciles = 2
    MaxFaults = 2
    MaxHurt = 2
    MaxCalls = 1
SPECIFICATION Spec
INVARIANTS GenerationsAreSound OnlyTheFailed RunningIsServed
PROPERTY CloseEnds
CHECK_DEADLOCK FALSE
