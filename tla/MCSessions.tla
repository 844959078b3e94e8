----------------------------- MODULE MCSessions -----------------------------
(* Small instances of Sessions. *)
EXTENDS Sessions, TLC

CONSTANTS x1, x2, j1, j2, j3, phone, desktop, r1, r2

Same == Permutations(Rows) \cup Permutations(Jtis) \cup Permutations(Devices)
            \cup Permutations(Requests)
=============================================================================
