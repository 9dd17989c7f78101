------------------------------ MODULE MCHistory ------------------------------
(* History for TLC: texts that contain one another, in two modes. *)
EXTENDS History

MCDraft ==
  {Blank,
   [mode |-> "r", text |-> <<"a">>],
   [mode |-> "ai", text |-> <<"A", "a">>]}

MCQuery == {<<>>, <<"A">>, <<"a", "a">>}

=============================================================================
