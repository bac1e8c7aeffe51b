------------------------------ MODULE VecRetain -----------------------------
(***************************************************************************)
(* Vec::retain of the Rust standard library: what is left of a sequence    *)
(* when only the elements of a set are kept, in their order.               *)
(***************************************************************************)
EXTENDS Naturals, Sequences

Retain(q, keep) ==
    LET left[n \in 0 .. Len(q)] ==
          IF n = 0 THEN <<>>
          ELSE IF q[n] \in keep THEN Append(left[n - 1], q[n])
          ELSE left[n - 1]
    IN  left[Len(q)]
=============================================================================
