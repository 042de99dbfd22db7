--------------------------- MODULE MCVugvaEngine ---------------------------
(* Three GPUs of four units.  A tensor of one unit is whole or, as a shard *)
(* of nothing, refused; one of three is whole or three shards; one of four *)
(* is above the limit and leaves a remainder.                              *)
EXTENDS VugvaEngine

MCNames == {"a", "b"}
MCGenerated == <<"b">>
MCSizes == {1, 3, 4}
=============================================================================
