---------------------------- MODULE MCRunSession ----------------------------
(***************************************************************************)
(* The setups of RunSession for TLC.                                       *)
(***************************************************************************)
EXTENDS RunSession

CONSTANTS a, b, c

MCSetups ==
  {[members |-> <<>>, players |-> {}, played |-> 0],        \* no room yet
   [members |-> <<a, b>>, players |-> {}, played |-> 0],    \* nobody plays
   [members |-> <<a, b>>, players |-> {a, b}, played |-> 1],
   [members |-> <<a, b, c>>, players |-> {a, b}, played |-> 0],
   [members |-> <<a, b, c>>, players |-> {a, b, c}, played |-> 1]}

=============================================================================
