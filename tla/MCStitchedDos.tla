--------------------------- MODULE MCStitchedDos ---------------------------
(* StitchedDos over four host files: one with an extension, one that has    *)
(* the name the first alias would have, and two whose names are too long,   *)
(* of which only one gets an alias.                                         *)
EXTENDS StitchedDos

N(letters, digit, ext) == [base |-> <<letters, digit>>, ext |-> ext]
MCNames == {N("FOO", 0, "TXT"), N("NEWNAME", 2, ""), N("BAR", 0, "COM")}
(* Two names for one host file. *)
MCNamesShared == {N("BAR", 0, "COM"), N("BAR", 0, "TXT")}
MCPaths == {N("FOO", 0, "TXT"), N("newname1", 0, ""), N("newname-a", 0, ""), N("newname-b", 0, ""),
            N("BAR", 0, ""), N("FOO", 0, ""), N("NEWNAME", 2, "")}
MCHostDir ==
    << [host |-> N("FOO", 0, "TXT"), direct |-> N("FOO", 0, "TXT"), length |-> 3,
        group |-> [base |-> "FOO", ext |-> "TXT"]],
       [host |-> N("newname-a", 0, ""), direct |-> NoName, length |-> 1,
        group |-> [base |-> "NEWNAME", ext |-> ""]],
       [host |-> N("newname-b", 0, ""), direct |-> NoName, length |-> 2,
        group |-> [base |-> "NEWNAME", ext |-> ""]],
       [host |-> N("newname1", 0, ""), direct |-> N("NEWNAME", 1, ""), length |-> 1,
        group |-> [base |-> "NEWNAME", ext |-> ""]] >>
=============================================================================
