------------------------- MODULE MCSingletonGuard --------------------------
(* SingletonGuard on a few interchangeable processes and descriptions.     *)
EXTENDS SingletonGuard, TLC

CONSTANTS p1, p2, p3, f1, f2, f3, f4, i1, i2

Symmetry == Permutations({p1, p2, p3}) \cup Permutations({f1, f2, f3, f4})
            \cup Permutations({i1, i2})
=============================================================================
