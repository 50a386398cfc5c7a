CONSTANTS
  NSH_BUFSIZE = 8
  LETTERS = {"a", "b"}
  SPACE = "space"
  NUL = "nul"
  BUILTINS <- MCBUILTINS
SPECIFICATION NSpec
INVARIANTS NTypeOK BufferIsLine ArgvIsLine RunsNamedBuiltin
PROPERTIES CompletionIsBuiltin PromptReturns
