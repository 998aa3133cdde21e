\* The user types and presses Enter whenever he likes, also while the shell
\* is in the middle of trimInput.
CONSTANTS
  Letters = {"c", "x"}
  ArgCommands <- MCArgCommands
  Size = 3
  BufSize = 12
  MaxLines = 2
  MaxLineLen = 4
SPECIFICATION FairSpec
INVARIANTS TypeOK WordFitsBuffer ShellReadsTheLine
PROPERTIES ImplementsQueue EnterAppends ShellOnlyConsumes ShellComesBack LineIsHandled
CHECK_DEADLOCK FALSE
