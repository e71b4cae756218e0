\* Histories of up to five messages by two models, three ids, answers with up to two calls,
\* requests for every API; all ids are one under Mistral's rule, and the second ends in "_".
CONSTANTS
  MaxLength = 5
  MaxIds = 3
  MaxCalls = 2
  KeepRecent = 3
  Origins = {"gpt", "kimi"}
  Targets = {"claude", "bedrock", "gemini", "claude-google", "kimi", "mistral", "gpt", "copilot"}
  Finishes = {"stop", "filtered"}
  Spoken = {"text", "image"}
  Alike = {1, 2, 3}
  Trailing = {2}
  Bridging = {"kimi"}
SPECIFICATION HistorySpec
INVARIANTS
  CallsPaired
  ResultsBelong
  NothingSaidIsLost
  ResultsBridged
CHECK_DEADLOCK FALSE
