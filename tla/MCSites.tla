------------------------------ MODULE MCSites ------------------------------
(* Values for TLC: the routes and the paths of a small site.               *)
EXTENDS Sites, TLC

CONSTANTS a1, a2, a3, none, default404

A == 97
B == 98

MCAction == {a1, a2, a3}
MCHost == {"", "test.com"}

\* /a /b /ab /a/ /a/a /a/:a/a /a/:b/a /a/:a/b /a/:b /a:b/
MCPattern ==
  {<<Slash, A>>, <<Slash, B>>, <<Slash, A, B>>, <<Slash, A, Slash>>,
   <<Slash, A, Slash, A>>,
   <<Slash, A, Slash, Colon, A, Slash, A>>,
   <<Slash, A, Slash, Colon, B, Slash, A>>,
   <<Slash, A, Slash, Colon, A, Slash, B>>,
   <<Slash, A, Slash, Colon, B>>,
   <<Slash, A, Colon, B, Slash>>}

Char == {Slash, A, B}

\* Every path of at most three characters, and every path /a/?/? and /a/?
MCPath ==
  {<<Slash>>}
  \cup {<<Slash, c>> : c \in Char}
  \cup {<<Slash, c, d>> : c \in Char, d \in Char}
  \cup {<<Slash, A, Slash, c>> : c \in Char}
  \cup {<<Slash, A, Slash, c, Slash, e>> : c \in Char, e \in Char}

\* What the other methods do is what "Get" does.
MCSlot == {"Get", "All"}
MCMethod == {"Get", "Head"}

Symmetry == Permutations(MCAction)

=============================================================================
