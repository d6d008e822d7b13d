---------------------------- MODULE MCFileServer ----------------------------
(* Two clients; each makes only some of the calls, to keep the run small.  *)
EXTENDS FileServer, TLC

CONSTANTS c1, c2, file1, file2

MCEntry == {1, 2}

MCProgram == c1 :> {"open", "close", "write", "truncate", "fork"}
             @@ c2 :> {"open", "close", "remove", "sync"}
=============================================================================
