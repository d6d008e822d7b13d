---------------------------- MODULE MCFileSystem ----------------------------
(* An empty disk, one with a small file, and one with no block left.       *)
EXTENDS FileSystem

CONSTANTS file1, file2

MCImage == {<< >>, << [name |-> file1, words |-> <<1>>, even |-> FALSE] >>,
            << [name |-> file1, words |-> <<1, 1>>, even |-> FALSE] >>}
=============================================================================
