\* Two commands, of which the second may come while the first runs; recording
\* is switched on and off any number of times, by messages and by scripts.
CONSTANTS
  Scripts = {"plain", "on", "off", "loop", "shutdown"}
  Commands = 2
  Capacity = 2
SPECIFICATION FairSpec
INVARIANTS TypeOK AnswersAreOwn FileIsContiguous
PROPERTY CommandsEnd
CHECK_DEADLOCK FALSE
