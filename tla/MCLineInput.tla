---------------------------- MODULE MCLineInput ----------------------------
(* Small instances of LineInput: the letter c alone is a command that      *)
(* reads an argument, as cd and cat are; every other word is not.          *)
EXTENDS LineInput

MCArgCommands == {<<"c">>}
=============================================================================
