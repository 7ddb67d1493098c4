------------------------------ MODULE PipelineLife ------------------------------
(* What the owner of a GStreamer pipeline owes it, whatever steps its setup, its *)
(* state changes and its teardown take: the pipeline comes into being whole,    *)
(* leaves NULL and is watched only while it is whole, and is freed with all     *)
(* that is in it, in NULL and without its watch.  A setup that fails leaves     *)
(* nothing, or a remnant with which nothing is done until it is freed.  Both    *)
(* owners, of phase 1 and of the server, promise this much                      *)
(* (VideoPipeline.cpp:28-136, ProfileHost.cpp:32-119, 155-236).                 *)

VARIABLES
    owner,    \* the object that owns the pipeline exists
    pipe,     \* "none", "whole", or what a failed setup left, a "remnant"
    gst,      \* the pipeline's state
    watched   \* a bus watch is attached for it

vars == <<owner, pipe, gst, watched>>

Init == owner = TRUE /\ pipe = "none" /\ gst = "NULL" /\ watched = FALSE

Setup ==
    /\ owner /\ pipe = "none"
    /\ pipe' \in {"whole", "remnant"}
    /\ UNCHANGED <<owner, gst, watched>>

(* By a call, or by the threads that complete what a call asked for.            *)
ChangeState ==
    /\ owner /\ pipe = "whole"
    /\ gst' \in {"NULL", "READY", "PAUSED", "PLAYING"}
    /\ UNCHANGED <<owner, pipe, watched>>

Watch ==
    /\ owner /\ pipe = "whole"
    /\ watched' \in BOOLEAN
    /\ UNCHANGED <<owner, pipe, gst>>

(* By a teardown after which the owner may set up again, or by its destructor.  *)
Free ==
    /\ owner
    /\ owner' \in BOOLEAN
    /\ pipe' = "none" /\ gst' = "NULL" /\ watched' = FALSE

Next == Setup \/ ChangeState \/ Watch \/ Free

Spec == Init /\ [][Next]_vars

=============================================================================
