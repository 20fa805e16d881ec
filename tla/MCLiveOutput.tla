---------------------------- MODULE MCLiveOutput ----------------------------
(* Sessions with up to MaxTasks messages of the host outstanding: the next *)
(* start and stop are already posted while one is being served.            *)
EXTENDS LiveOutput
=============================================================================
