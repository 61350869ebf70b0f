--------------------------- MODULE MCNisseServer ---------------------------
(* Model values and symmetry for the runs of NisseServer.                  *)
EXTENDS NisseServer, TLC

\* Addresses are interchangeable, and so are descriptors.
Symmetry == Permutations(Handler) \cup Permutations(Socket)

=============================================================================
