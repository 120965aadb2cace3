----------------------------- MODULE MCConsole -----------------------------
EXTENDS Console

Word(cmd, arg) == [cmd |-> cmd, arg |-> arg]
ConsoleWords ==
    {Word("ipv4", NoArg), Word("ipv4", 3), Word("ipv4", Invalid), Word("mac", 4),
     Word("offset", 5), Word("flags", 6), Word("log", NoArg), Word("boot", NoArg),
     Word("tlog", NoArg), Word("y", NoArg), Word("n", NoArg)}
OffsetWords == {Word("offset", 5), Word("y", NoArg), Word("flags", 6)}

\* A good file, one that ends in a bad line, one with a rotation that is
\* refused, one with an unknown line, one in the old form of the rotation.
GoodFile == Table([mac |-> 1, ipv4 |-> 1, offset |-> 1, flags |-> 1, rotation |-> 90])
OtherFile == Table([mac |-> 2, ipv4 |-> 2, offset |-> 2, flags |-> 2, rotation |-> 0])
UploadFiles ==
    {GoodFile, [OtherFile EXCEPT ![4].value = Invalid],
     [OtherFile EXCEPT ![5].value = 30],
     SubSeq(OtherFile, 1, 3) \o <<[name |-> "unknown", value |-> 1]>>}
BoardStates ==
    {[eeprom |-> Invalid, recovery |-> TRUE], [eeprom |-> 7, recovery |-> FALSE]}
=============================================================================
