----------------------------- MODULE MCMtdUtils -----------------------------
(* Images of half a block, one and a half, two, and two and a half blocks.  *)
EXTENDS MtdUtils

MCImages == {<<1>>, <<1, 2, 3>>, <<1, 2, 3, 4>>, <<1, 2, 3, 4, 5>>}
=============================================================================
