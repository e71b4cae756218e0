\* A provider of each kind: "codex" hands out new refresh tokens, "anti" keeps the old one
\* and has two endpoints, "groq" has a key from the command line.
CONSTANTS
  Providers = {"codex", "anti", "groq"}
  Rotating = {"codex"}
  Override = {"groq"}
  Fallback = {"codex"}
  MaxIssued = 2
  MaxFaults = 2
  Assists = {"anti"}
  Codex = {"codex"}
  TwoServers = {"anti"}
  Keyless = {}
  MaxParts = 2
SPECIFICATION Spec
INVARIANTS
  LoginHeld
  NoStaleRefresh
  
  NewestKeyUsed
PROPERTIES
  CallEnds
