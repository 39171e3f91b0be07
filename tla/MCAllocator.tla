---------------------------- MODULE MCAllocator ----------------------------
(***************************************************************************)
(* Instances of Allocator for TLC.  The constants are model values and are *)
(* given in the .cfg files; only the symmetry of the interchangeable ones  *)
(* has to be defined here.  Symmetry is used by the runs that check safety *)
(* properties only.                                                        *)
(***************************************************************************)
EXTENDS AllocatorRelay, TLC

RaceSymmetry ==
    Permutations(Tuples) \union Permutations(Workers) \union Permutations(Relays)

=============================================================================
