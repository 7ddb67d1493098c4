------------------------------- MODULE MediaFeed --------------------------------
(* What a mount of the RTSP server promises, without its mutex, its callbacks   *)
(* and its references: it feeds one media at a time, each in the order in which *)
(* they were made and none a second time; a buffer goes into the media that is  *)
(* fed, which stays that media until the buffer is in; and no sample is being   *)
(* delivered when the mounts are freed, or after (RtspProfileServer.cpp:93-147). *)
EXTENDS Integers

CONSTANTS Mounts, Media, None

VARIABLES
    alive,    \* the mounts have not been freed
    fed,      \* per mount: the media that is fed, or None
    served,   \* per mount: the media that are or were fed
    busy,     \* per mount: a sample is being delivered
    pushing   \* per mount: the media that a buffer is going into, or None

vars == <<alive, fed, served, busy, pushing>>

Init ==
    /\ alive = TRUE
    /\ fed = [m \in Mounts |-> None]
    /\ served = [m \in Mounts |-> {}]
    /\ busy = [m \in Mounts |-> FALSE]
    /\ pushing = [m \in Mounts |-> None]

Switch(m, k) ==
    /\ fed[m] = None
    /\ \A j \in served[m] : j < k
    /\ pushing[m] = None
    /\ fed' = [fed EXCEPT ![m] = k]
    /\ served' = [served EXCEPT ![m] = @ \cup {k}]
    /\ UNCHANGED <<alive, busy, pushing>>

Release(m) ==
    /\ pushing[m] = None
    /\ fed' = [fed EXCEPT ![m] = None]
    /\ UNCHANGED <<alive, served, busy, pushing>>

Accept(m) ==
    /\ alive
    /\ ~busy[m]
    /\ busy' = [busy EXCEPT ![m] = TRUE]
    /\ UNCHANGED <<alive, fed, served, pushing>>

Push(m) ==
    /\ busy[m]
    /\ fed[m] # None
    /\ pushing' = [pushing EXCEPT ![m] = fed[m]]
    /\ UNCHANGED <<alive, fed, served, busy>>

Pushed(m) ==
    /\ pushing[m] # None
    /\ pushing' = [pushing EXCEPT ![m] = None]
    /\ UNCHANGED <<alive, fed, served, busy>>

Finish(m) ==
    /\ busy[m] /\ pushing[m] = None
    /\ busy' = [busy EXCEPT ![m] = FALSE]
    /\ UNCHANGED <<alive, fed, served, pushing>>

Delete ==
    /\ alive
    /\ \A m \in Mounts : ~busy[m]
    /\ alive' = FALSE
    /\ UNCHANGED <<fed, served, busy, pushing>>

Next ==
    \/ \E m \in Mounts :
        \/ \E k \in Media : Switch(m, k)
        \/ Release(m) \/ Accept(m) \/ Push(m) \/ Pushed(m) \/ Finish(m)
    \/ Delete

Spec == Init /\ [][Next]_vars

=============================================================================
