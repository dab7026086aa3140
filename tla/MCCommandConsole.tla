-------------------------- MODULE MCCommandConsole --------------------------
\* Two commands sent from one tab, so that an answer about an earlier
\* one can come back while a later one is on show.
EXTENDS CommandConsole
=============================================================================
