---------------------------- MODULE MCSdfsImage ----------------------------
(* SdfsImage over two host files: a name that has an alias, and one that    *)
(* is its own; and over one host file of two map sectors.                   *)
EXTENDS SdfsImage

MCInventory == << [hostName |-> "alphabetical", name |-> "A", length |-> 3],
                  [hostName |-> "B", name |-> "B", length |-> 2] >>
MCLongFile == << [hostName |-> "A", name |-> "A", length |-> 7] >>
=============================================================================
