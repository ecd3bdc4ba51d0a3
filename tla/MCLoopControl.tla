--------------------------- MODULE MCLoopControl ---------------------------
(* One start command at a time is enough for two supervisors: a second     *)
(* start before the first process has written its row launches another.     *)
EXTENDS LoopControl
=============================================================================
