------------------------------- MODULE ServerLife -------------------------------
(* The contract between the RTSP server object and the one who owns it, of which *)
(* each side is shown to keep its own: the owner makes the server once, lets it *)
(* listen, plays and pauses the capture whose samples the server's mounts take, *)
(* and deletes the server when the capture plays no more.  There is one way out: *)
(* GStreamer refused the last request to pause (RtspProfileServer.cpp:28-92,    *)
(* Application.cpp:23-48, 93-111).                                             *)

VARIABLES
    server,     \* "none" before it is made, "there", or "deleted"
    listening,  \* its m_source is set
    playing,    \* the capture pipeline is PLAYING
    refused     \* it still is because it would not pause

vars == <<server, listening, playing, refused>>

(* A server object may be there from the start, for who looks at one alone.     *)
Init ==
    /\ server \in {"none", "there"}
    /\ listening = FALSE /\ playing = FALSE /\ refused = FALSE

Construct ==
    /\ server = "none"
    /\ server' = "there"
    /\ UNCHANGED <<listening, playing, refused>>

Listen(on) ==
    /\ server = "there"
    /\ listening' = on
    /\ UNCHANGED <<server, playing, refused>>

(* There is nothing to play for before the mounts have their appsinks.          *)
Play ==
    /\ server = "there"
    /\ playing' = TRUE /\ refused' = FALSE
    /\ UNCHANGED <<server, listening>>

Pause ==
    /\ playing
    /\ \/ playing' = FALSE /\ refused' = FALSE
       \/ playing' = TRUE /\ refused' = TRUE
    /\ UNCHANGED <<server, listening>>

Delete ==
    /\ server = "there"
    /\ ~playing \/ refused
    /\ server' = "deleted" /\ listening' = FALSE
    /\ UNCHANGED <<playing, refused>>

Next == Construct \/ (\E on \in BOOLEAN : Listen(on)) \/ Play \/ Pause \/ Delete

Spec == Init /\ [][Next]_vars

=============================================================================
