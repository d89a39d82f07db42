--------------------------- MODULE MCClientProxy ---------------------------
(* Two pages; the second version of a page takes the whole cache. *)
EXTENDS ClientProxy

CONSTANTS a, b, f1, f2

MCPages == {a, b}
MCFetches == {f1, f2}
MCSize == [body \in MCPages \X {1, 2} |-> body[2]]

Symmetry == Permutations(MCPages) \cup Permutations(MCFetches)
=============================================================================
