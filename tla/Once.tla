-------------------------------- MODULE Once --------------------------------
(* Steps that pass a whole record on and read it many times.                *)

(* Op of d, with d evaluated once.                                          *)
With(d, Op(_)) == CHOOSE r \in {Op(v) : v \in {d}} : TRUE
=============================================================================
