-------------------------- MODULE MCCameraBeautify --------------------------
(* The instances of CameraBeautify that TLC checks.                        *)
EXTENDS CameraBeautify
=============================================================================
