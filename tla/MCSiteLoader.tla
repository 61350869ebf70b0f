---------------------------- MODULE MCSiteLoader ----------------------------
(* SiteLoader for TLC: the instances are in the .cfg files.                *)
EXTENDS SiteLoader, TLC

\* Libraries, hosts and calls are interchangeable; for safety runs only.
Symmetry == Permutations(Lib) \cup Permutations(Host) \cup Permutations(Call)

=============================================================================
