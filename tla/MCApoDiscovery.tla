---------------------------- MODULE MCApoDiscovery ----------------------------
(* A small instance of ApoDiscovery.                                       *)
EXTENDS ApoDiscovery

CONSTANTS e1, e2

(* Empty, just fitting, too long with a pair before the cut and in it, and *)
(* with a zero of its own.                                                 *)
MCNames ==
  {<<>>, <<"char", "char", "char">>, <<"char", "high", "low", "char">>,
   <<"char", "char", "high", "low">>, <<"char", "NUL", "char">>}

(* Each carrier once with texts that fit and once with texts that do not.  *)
MCApos ==
  {a \in [kind : Kinds, name : MCNames, copyright : MCNames] :
     \/ a.name = <<>> /\ a.copyright = <<"char", "char", "char">>
     \/ Len(a.name) = 4 /\ a.copyright = <<"char", "NUL", "char">>}

(* None, one, two in one order and half in the other, and too long a list  *)
(* for the word.                                                           *)
MCUserLists ==
  LET on == NewEffect(e1)
      off == WithState(WithControllable(NewEffect(e2), TRUE), "Off")
  IN  {<<>>, <<off>>, <<on, off>>, <<off, on, on, off>>}
=============================================================================
