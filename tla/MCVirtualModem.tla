--------------------------- MODULE MCVirtualModem ---------------------------
EXTENDS VirtualModem

MCTraces == {<<0, 4>>, <<1, 3, 6>>}

\* The traces of the instance are of one day.
ASSUME MCTracesAssumption == Ascending
=============================================================================
