SPECIFICATION Spec
CONSTANTS
    Routes <- MCRoutes
    MaxAttempts = 3
INVARIANTS TypeOK GrantIsHonest NoSocketLeft WaitsForTunnels EveryTunnelTried
PROPERTIES ImplementsSession
