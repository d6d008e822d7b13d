------------------------------ MODULE MCShell ------------------------------
(* Lines that are typed at the shell: words are one letter long.           *)
EXTENDS Shell

MCLines == {<<"e">>, <<"c">>, <<"e", "|", "c">>, <<"c", "<", "f", "|", "c", ">", "g">>,
            <<"x", " ", "|", "c">>, <<"e", " ", "e", " ", "e">>, <<"c", " ", "<">>,
            <<"c", "<", "x">>, <<"e", ">", "f", ">", "f", "&">>, <<"|", "c">>, <<"x", "|", "e", "|", "x">>,
            <<"<", "f", "|", "c">>}
MCPrograms == {"e", "c"}
MCFiles == {"e", "c", "f"}
=============================================================================
