----------------------------- MODULE MCAutomation -----------------------------
(***************************************************************************)
(* Automation files of up to three objects whose names extend one another: *)
(* with a slash, with a letter and with a character that sorts before the  *)
(* slash.                                                                  *)
(***************************************************************************)
EXTENDS Automation

MCCharacters == <<"-", "/", "a", "b", "c">>

MCDefinitions ==
  {[path |-> <<"/", "a", "/", "b">>, kind |-> "readWrite"],
   [path |-> <<"/", "a", "/", "b", "-", "c">>, kind |-> "readOnly"],
   [path |-> <<"/", "a", "-", "b">>, kind |-> "function1"],
   [path |-> <<"/", "a", "b", "/", "c">>, kind |-> "monitor"],
   [path |-> <<"/", "a", "/", "c", "/", "b">>, kind |-> "readWrite"]}

MCMissing == {<<"/", "b">>, <<"/", "a", "/">>, <<"a", "/", "b">>, << >>}

=============================================================================
