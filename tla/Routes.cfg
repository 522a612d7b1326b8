SPECIFICATION Spec
CONSTANTS
    Nil = Nil
    Upper <- MCUpper
    Routes <- MCRoutes
    Paths <- MCPaths
    Methods = {"get", "POST"}
    MaxRoutes = 3
INVARIANTS MatchSound ExactRouteWins LoneRouteFound
CHECK_DEADLOCK FALSE
