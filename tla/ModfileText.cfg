\* Every text of up to six characters of seven kinds.
CONSTANTS
  Letters = {"a"}
  MaxLength = 6
SPECIFICATION TextSpec
INVARIANTS ReadsTheGrammar
\* The run stops when the text is read.
CHECK_DEADLOCK FALSE
