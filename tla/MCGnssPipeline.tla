--------------------------- MODULE MCGnssPipeline ---------------------------
(* Instance of GnssPipeline for TLC: None is a model value.                *)
EXTENDS GnssPipeline
=============================================================================
