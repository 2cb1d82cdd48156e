--------------------------- MODULE MCMemoryCycle ---------------------------
(* Instances of MemoryCycle for TLC.                                       *)
EXTENDS MemoryCycle, TLC

CONSTANTS x, y

\* Two Contexts of the window, each compared with the other.
Mutual == (x :> y) @@ (y :> x)

\* One Context of the window, compared with an older one.
Older == x :> y

\* A Context supports its target at first; edited, it contradicts it, and has
\* nothing to do with a target that is edited.
Drift ==
    [v \in Window \X (0 .. MaxEdits) \X (0 .. MaxEdits) |->
       IF v[3] > v[2] THEN "UNRELATED" ELSE IF v[2] > v[3] THEN "CONTRADICTS" ELSE "SUPPORTS"]

\* A Context supports its target until either is edited.
Turns ==
    [v \in Window \X (0 .. MaxEdits) \X (0 .. MaxEdits) |->
       IF v[2] = v[3] THEN "SUPPORTS" ELSE "CONTRADICTS"]

Symmetry == Permutations(Keys)
=============================================================================
