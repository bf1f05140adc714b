------------------------------ MODULE MCPicker ------------------------------
(* Instances of Picker for TLC: two names, one of them a part of the other. *)
EXTENDS Picker

OneChar == {<<c>> : c \in Alphabet}
TwoNames == <<<<"emoji">>, <<"emoji", "accent">>>>
Hint == <<"a", "a">>
=============================================================================
