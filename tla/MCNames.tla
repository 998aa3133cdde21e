------------------------------ MODULE MCNames ------------------------------
(* Directories of up to three items. The long names have pieces up to the  *)
(* room there is and beyond, and end in the middle or at the end of one.   *)
EXTENDS Names

File(base, ext, long) == [kind |-> "file", base |-> base, ext |-> ext, long |-> long]

MCItems ==
  {File(<<".">>, <<>>, <<>>), File(<<".", ".">>, <<>>, <<>>),
   File(<<"A">>, <<>>, <<>>), File(<<"A", "B">>, <<"A">>, <<>>),
   File(<<"B">>, <<>>, <<"x", "A">>),
   File(<<"B", "A">>, <<>>, <<"x", "A", "B">>),
   File(<<"A", "A">>, <<"B">>, <<"x", "x", "A", "B">>),
   File(<<"B", "B">>, <<>>, <<"x", "A", "x", "A", "x">>),
   File(<<"B", "B">>, <<>>, <<"A", "A", "A", "A", "A", "A", "x">>),
   File(<<"B", "B">>, <<>>, <<"A", "A", "A", "A", "A", "A", "A", "A", "x">>),
   File(<<"A">>, <<"A">>, <<"A", Wide, "B">>),
   [kind |-> "orphan", long |-> <<"x", "A", "x", "A">>]}

MCTargets ==
  {<<".">>, <<".", ".">>, <<"A">>, <<"B">>, <<"A", "B">>, <<"B", "B">>, <<"A", ".", "A">>,
   <<"x", "A">>, <<"x", "A", "B">>, <<"x", "x", "A", "B">>, <<"A", "A", "A", "A", "A">>}

MCUpper == {"A", "B"}
=============================================================================
