-------------------------- MODULE MCRtspProfileServer --------------------------
(* One mount: mounts share nothing but the server's socket.  Three media in a   *)
(* row, of up to two viewers each.                                              *)
EXTENDS RtspProfileServer

CONSTANT hd
=============================================================================
