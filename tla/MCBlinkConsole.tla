--------------------------- MODULE MCBlinkConsole ---------------------------
EXTENDS BlinkConsole
=============================================================================
