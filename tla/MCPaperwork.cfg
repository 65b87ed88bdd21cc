SPECIFICATION Spec
CONSTANTS
  Requests = {"officer", "other"}
  Officer = "officer"
  Docs = {"diploma"}
  NeedsTranslation = {"diploma"}
  Service = "GKS_SCHOLARSHIP"
  Moves = {"ON_HOLD"}
INVARIANTS TypeOK SettledIsEarned OneVerdict RoundsAgree  
CHECK_DEADLOCK FALSE
