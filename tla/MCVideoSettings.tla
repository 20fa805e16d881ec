--------------------------- MODULE MCVideoSettings ---------------------------
(* Two canvases that libobs takes and one that it does not.                *)
EXTENDS VideoSettings
=============================================================================
