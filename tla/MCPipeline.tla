----------------------------- MODULE MCPipeline -----------------------------
EXTENDS Pipeline

MCSymbols == {"A", "B"}
MCSymbolLists == {<<>>, <<"A">>, <<"A", "B">>, <<"A", "A">>}
MCDefaultSymbols == <<"A", "B">>
MCNumbers == {15}      \* too large for an int of 4 bits
Ask(r, s, e) == [recording |-> r, statistics |-> s, exporting |-> e]
MCCountChoices == {Ask(-1, 1, 15), Ask(0, 5, 1), Ask(1, 0, 1), Ask(1, 15, 15)}
=============================================================================
