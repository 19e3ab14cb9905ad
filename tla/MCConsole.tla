------------------------------ MODULE MCConsole ------------------------------
EXTENDS Console

CONSTANTS p1, p2
Key(k, up) == [key |-> k, up |-> up]
MCPrograms == {[p \in Procs |-> {"read"}], [p \in Procs |-> {"sleep"}]}
MCCodes == {Key("ctl", FALSE), Key("ctl", TRUE), Key("d", FALSE)}
MCChars == {"x", "nl", "bs", "kill"}
MCNaps == {2, -1}
=============================================================================
