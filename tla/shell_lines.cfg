SPECIFICATION ShellSpec
CONSTANTS
  Letter <- Letters
  Command <- Commands
  SHELL_BUFFER_SIZE = 4
  SHELL_HISTORY_DEPTH = 2
  ARGC_MAX = 1
  Newlines <- LineEnds
  MaxLost <- Losses
PROPERTIES
  EditsLines
  KeysActOnce
