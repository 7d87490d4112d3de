-------------------------- MODULE MCRtspReconnect --------------------------
(* The drills with the values of configs/streaming/yolo_rtsp_*.yaml. *)
EXTENDS RtspReconnect

=============================================================================
