SPECIFICATION Spec
CONSTANTS
  Diffs <- SomeDiffs
  Takens <- SomeTakens
  Claims <- SomeClaims
  MaxClaims = 3
INVARIANTS DiscoveriesAreInTheDiff ClaimsAreIndependent
CHECK_DEADLOCK FALSE
