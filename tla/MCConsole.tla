----------------------------- MODULE MCConsole ------------------------------
EXTENDS Console

\* One key with its two characters.
OneLetter == {"a"}
UpperOfA == [a |-> "A"]
=============================================================================
