--------------------------- MODULE RtspProfileServer ---------------------------
(* The bridge from the encoders to the RTSP media (server/RtspProfileServer.cpp) *)
(* Per mount, two kinds of thread meet under Mount::mutex: the streaming thread *)
(* of the profile's branch, which delivers a sample, and the threads of the     *)
(* RTSP library, which configure, prepare and unprepare the media that viewers  *)
(* share.  A callback is a step that takes the mutex and later steps that hold  *)
(* it.                                                                          *)
(*                                                                              *)
(* External, as this code uses it: the media factory of a mount runs one        *)
(* media-configure at a time, keeps a media that it shares in a cache while it  *)
(* is in use, and empties the cache only after the "unprepared" handlers ran;   *)
(* the PLAYING -> PAUSED change of the capture pipeline waits for the sample    *)
(* that is being delivered.                                                     *)
EXTENDS Integers, FiniteSets

CONSTANTS
    Mounts,      \* the profiles served
    MaxMedia,    \* bound: media that a mount's factory constructs, one by one
    MaxViewers   \* bound: viewers of one media

ASSUME ServerAssumption == MaxMedia \in Nat /\ MaxViewers \in Nat \ {0}

Media == 1..MaxMedia
None == 0          \* a null appSrc, an empty cache
Free == -1         \* the owner of a free mutex
Streaming == 0     \* the streaming thread; media k's thread is k

(* A media's life.  In a handler phase its thread is in, or waits to enter, the *)
(* callback: onMediaConfigure, onMediaPrepared, onMediaUnprepared.              *)
Handlers == {"configuring", "announcing", "leaving"}
Phases == {"none", "configured", "serving", "gone"} \cup Handlers
InUse == {"configured", "announcing", "serving", "leaving"}

VARIABLES
    alive,      \* the RtspProfileServer object exists
    attached,   \* m_source is set: the server listens
    connected,  \* some client has connected
    playing,    \* the capture pipeline is PLAYING
    open,       \* per mount: the profile's valve passes buffers
    state,      \* per mount: the reported ProfileInfo::state
    mutex,      \* per mount: the owner of Mount::mutex
    appSrc,     \* per mount: the media whose appsrc Mount::appSrc is, or None
    held,       \* per mount: the references to each media's appsrc it took
    phase,      \* per mount and media
    cached,     \* per mount: the media in the factory's cache, or None
    viewers,    \* per mount and media
    stream      \* per mount: the streaming thread's place in onNewSample

bridge == <<mutex, appSrc, held, phase, cached, viewers>>
vars == <<alive, attached, connected, playing, open, state, stream, bridge>>

TypeOK ==
    /\ alive \in BOOLEAN /\ attached \in BOOLEAN
    /\ connected \in BOOLEAN /\ playing \in BOOLEAN
    /\ open \in [Mounts -> BOOLEAN]
    /\ state \in [Mounts -> {"off", "ready"}]
    /\ mutex \in [Mounts -> {Free, Streaming} \cup Media]
    /\ appSrc \in [Mounts -> Media \cup {None}]
    /\ held \in [Mounts -> [Media -> Int]]
    /\ phase \in [Mounts -> [Media -> Phases]]
    /\ cached \in [Mounts -> Media \cup {None}]
    /\ viewers \in [Mounts -> [Media -> 0..MaxViewers]]
    /\ stream \in [Mounts -> {"idle", "lock", "pull", "check", "push", "unlock", "dead"}]

(* The constructor, after ProfileHost's setup: a mount per profile.  Setup has  *)
(* opened the valves whatever the reported state.                              *)
Init ==
    /\ alive = TRUE
    /\ attached = FALSE
    /\ connected = FALSE
    /\ playing = FALSE
    /\ open = [m \in Mounts |-> TRUE]
    /\ state = [m \in Mounts |-> "off"]
    /\ mutex = [m \in Mounts |-> Free]
    /\ appSrc = [m \in Mounts |-> None]
    /\ held = [m \in Mounts |-> [k \in Media |-> 0]]
    /\ phase = [m \in Mounts |-> [k \in Media |-> "none"]]
    /\ cached = [m \in Mounts |-> None]
    /\ viewers = [m \in Mounts |-> [k \in Media |-> 0]]
    /\ stream = [m \in Mounts |-> "idle"]

-----------------------------------------------------------------------------
(* The server object and its surroundings.                                      *)
Attach ==      \* false when already attached, or when the port is taken
    /\ alive
    /\ attached' \in {attached, TRUE}
    /\ UNCHANGED <<alive, connected, playing, open, state, stream, bridge>>

Detach ==
    /\ alive
    /\ attached' = FALSE
    /\ UNCHANGED <<alive, connected, playing, open, state, stream, bridge>>

Play ==
    /\ alive
    /\ playing' = TRUE
    /\ UNCHANGED <<alive, attached, connected, open, state, stream, bridge>>

(* The state change waits for the samples that are being delivered.            *)
Pause ==
    /\ playing
    /\ \A m \in Mounts : stream[m] \in {"idle", "dead"}
    /\ playing' = FALSE
    /\ UNCHANGED <<alive, attached, connected, open, state, stream, bridge>>

DestroyWhilePlaying ==
    /\ alive
    /\ alive' = FALSE
    /\ attached' = FALSE
    /\ UNCHANGED <<connected, playing, open, state, stream, bridge>>

(* ~RtspProfileServer(): detach, and every Mount is freed.  Application stops   *)
(* the host first (Application.cpp:23-25, and 100-105 after run()).             *)
Destroy ==
    /\ alive
    /\ ~playing
    /\ alive' = FALSE
    /\ attached' = FALSE
    /\ UNCHANGED <<connected, playing, open, state, stream, bridge>>

StateFor(enabled) == IF enabled THEN "ready" ELSE "off"

SetProfileEnabled(m, enabled) ==
    /\ open' = [open EXCEPT ![m] = enabled]
    /\ state' = [state EXCEPT ![m] = StateFor(enabled)]
    /\ UNCHANGED <<alive, attached, connected, playing, stream, bridge>>

Connect ==
    /\ attached
    /\ connected' = TRUE
    /\ UNCHANGED <<alive, attached, playing, open, state, stream, bridge>>

-----------------------------------------------------------------------------
(* The RTSP library: what happens to a media between the callbacks.             *)
KeepRest == UNCHANGED <<alive, attached, connected, playing, open, state, stream>>

Phase(m, k, from, to) ==
    /\ phase[m][k] \in from
    /\ phase' = [phase EXCEPT ![m][k] = to]

(* The first viewer: nothing in the cache, so the factory constructs a media.  *)
NewMedia(m, k) ==
    /\ connected
    /\ cached[m] = None
    /\ \A j \in Media : j < k => phase[m][j] \notin {"none", "configuring"}
    /\ Phase(m, k, {"none"}, "configuring")
    /\ viewers' = [viewers EXCEPT ![m][k] = 1]
    /\ UNCHANGED <<mutex, appSrc, held, cached>> /\ KeepRest

(* A second viewer of the cached media prepares it no second time.             *)
Join(m, k) ==
    /\ cached[m] = k
    /\ phase[m][k] # "leaving"
    /\ viewers[m][k] < MaxViewers
    /\ viewers' = [viewers EXCEPT ![m][k] = @ + 1]
    /\ UNCHANGED <<mutex, appSrc, held, phase, cached>> /\ KeepRest

Prepared(m, k) ==
    /\ Phase(m, k, {"configured"}, "announcing")
    /\ UNCHANGED <<mutex, appSrc, held, cached, viewers>> /\ KeepRest

(* A media that cannot be prepared is unprepared without having been prepared. *)
PrepareFails(m, k) ==
    /\ Phase(m, k, {"configured"}, "leaving")
    /\ viewers' = [viewers EXCEPT ![m][k] = 0]
    /\ UNCHANGED <<mutex, appSrc, held, cached>> /\ KeepRest

Leave(m, k) ==
    /\ viewers[m][k] > 0
    /\ viewers' = [viewers EXCEPT ![m][k] = @ - 1]
    /\ IF viewers[m][k] = 1 THEN Phase(m, k, {"serving"}, "leaving")
       ELSE UNCHANGED phase
    /\ UNCHANGED <<mutex, appSrc, held, cached>> /\ KeepRest

-----------------------------------------------------------------------------
(* The three callbacks of a media's thread.                                     *)
EnterHandlerUnlocked(m, k) ==
    /\ phase[m][k] \in Handlers
    /\ mutex' = [mutex EXCEPT ![m] = k]
    /\ UNCHANGED <<appSrc, held, phase, cached, viewers>> /\ KeepRest

EnterHandler(m, k) ==
    /\ phase[m][k] \in Handlers
    /\ mutex[m] = Free
    /\ mutex' = [mutex EXCEPT ![m] = k]
    /\ UNCHANGED <<appSrc, held, phase, cached, viewers>> /\ KeepRest

LeaveHandler(m, k) == mutex[m] = k /\ mutex' = [mutex EXCEPT ![m] = Free]

NotShared(k) == None

(* set_shared(TRUE): the factory keeps the media it has configured.            *)
Shared(k) == k

(* gst_bin_get_by_name() returns a reference; the pointer that was there is     *)
(* overwritten.                                                                *)
OnMediaConfigure(m, k) ==
    /\ LeaveHandler(m, k)
    /\ Phase(m, k, {"configuring"}, "configured")
    /\ appSrc' = [appSrc EXCEPT ![m] = k]
    /\ held' = [held EXCEPT ![m][k] = @ + 1]
    /\ cached' = [cached EXCEPT ![m] = Shared(k)]
    /\ UNCHANGED viewers /\ KeepRest

OnMediaPrepared(m, k) ==
    /\ LeaveHandler(m, k)
    /\ Phase(m, k, {"announcing"}, "serving")
    /\ UNCHANGED <<appSrc, held, cached, viewers>> /\ KeepRest

OnMediaUnpreparedNoUnref(m, k) ==
    /\ LeaveHandler(m, k)
    /\ Phase(m, k, {"leaving"}, "gone")
    /\ appSrc' = [appSrc EXCEPT ![m] = None]
    /\ cached' = [cached EXCEPT ![m] = IF @ = k THEN None ELSE @]
    /\ UNCHANGED <<held, viewers>> /\ KeepRest

(* Clears the appsrc of the mount, whichever media it is of.                   *)
OnMediaUnprepared(m, k) ==
    /\ LeaveHandler(m, k)
    /\ Phase(m, k, {"leaving"}, "gone")
    /\ appSrc' = [appSrc EXCEPT ![m] = None]
    /\ held' = [held EXCEPT ![m] =
                    [j \in Media |-> IF j = appSrc[m] THEN @[j] - 1 ELSE @[j]]]
    /\ cached' = [cached EXCEPT ![m] = IF @ = k THEN None ELSE @]
    /\ UNCHANGED viewers /\ KeepRest

-----------------------------------------------------------------------------
(* onNewSample on the streaming thread.                                         *)
StreamStep(m, from, to) ==
    /\ stream[m] = from
    /\ stream' = [stream EXCEPT ![m] = to]
    /\ UNCHANGED <<alive, attached, connected, playing, open, state>>
    /\ UNCHANGED <<appSrc, held, phase, cached, viewers>>

NewSample(m) ==
    /\ playing /\ open[m]
    /\ StreamStep(m, "idle", "lock") /\ UNCHANGED mutex

LockMount(m) ==
    /\ mutex[m] = Free
    /\ mutex' = [mutex EXCEPT ![m] = Streaming]
    /\ StreamStep(m, "lock", "pull")

PullSample(m) == StreamStep(m, "pull", "check") /\ UNCHANGED mutex

NoSampleLocked(m) == StreamStep(m, "pull", "dead") /\ UNCHANGED mutex

(* No sample: GST_FLOW_ERROR ends the branch's streaming.                      *)
NoSample(m) ==
    /\ StreamStep(m, "pull", "dead")
    /\ mutex' = [mutex EXCEPT ![m] = Free]

CheckAppSrc(m) ==
    /\ StreamStep(m, "check", IF appSrc[m] # None THEN "push" ELSE "unlock")
    /\ UNCHANGED mutex

PushBuffer(m) == StreamStep(m, "push", "unlock") /\ UNCHANGED mutex

UnlockMount(m) ==
    /\ StreamStep(m, "unlock", "idle")
    /\ mutex' = [mutex EXCEPT ![m] = Free]

-----------------------------------------------------------------------------
Library(m, k) ==
    NewMedia(m, k) \/ Join(m, k) \/ Prepared(m, k) \/ PrepareFails(m, k) \/ Leave(m, k)

Callback(m, k) == OnMediaConfigure(m, k) \/ OnMediaPrepared(m, k) \/ OnMediaUnprepared(m, k)

Delivery(m) ==
    \/ PullSample(m) \/ NoSample(m) \/ CheckAppSrc(m) \/ PushBuffer(m) \/ UnlockMount(m)

Next ==
    \/ Attach \/ Detach \/ Play \/ Pause \/ Destroy \/ Connect
    \/ \E m \in Mounts :
        \/ \E enabled \in BOOLEAN : SetProfileEnabled(m, enabled)
        \/ \E k \in Media : Library(m, k) \/ EnterHandler(m, k) \/ Callback(m, k)
        \/ NewSample(m) \/ LockMount(m) \/ Delivery(m)

Spec == Init /\ [][Next]_vars

(* A thread that holds a mount's mutex is scheduled until it releases it: no    *)
(* call under the mutex blocks (the sample that was signalled is there, and the *)
(* appsrc does not block its producer).                                         *)
FairSpec == Spec /\ \A m \in Mounts :
    WF_vars(Delivery(m)) /\ \A k \in Media : WF_vars(Callback(m, k))

-----------------------------------------------------------------------------
(* The bridge points at a media exactly from the moment it is configured until  *)
(* its "unprepared" is handled: a media that is prepared is fed, and none is    *)
(* after it has gone.  It rests on the factory sharing (line 44), since the     *)
(* handlers do not ask whose appsrc they replace and clear.                     *)
BridgeFeedsTheMedia == \A m \in Mounts, k \in Media :
    appSrc[m] = k <=> phase[m][k] \in InUse

(* One reference to the appsrc that the mount points at and to no other: no     *)
(* media is kept alive by a reference that was overwritten (line 100) and none  *)
(* is released twice (line 119).                                                *)
OneReferenceHeld == \A m \in Mounts, k \in Media :
    held[m][k] = IF appSrc[m] = k THEN 1 ELSE 0

(* The appsrc that was checked is still there when the buffer is pushed, and no *)
(* handler is between the two (lines 126-140).                                  *)
PushTargetIsThere == \A m \in Mounts :
    stream[m] \in {"pull", "check", "push", "unlock"} =>
        /\ mutex[m] = Streaming
        /\ stream[m] = "push" => appSrc[m] # None

(* When the mounts are freed the streaming threads are out of onNewSample and   *)
(* stay out, though the signal handlers remain connected to the borrowed        *)
(* appsinks, and nobody new connects. What the destructor does not end, as the  *)
(* reference that line 31 adds keeps the server's factories, is the media of a  *)
(* client that connected before: only a callback of such a media still takes a  *)
(* freed mount's mutex.                                                        *)
FreedMountsAreQuiet == ~alive =>
    /\ ~attached
    /\ \A m \in Mounts :
        /\ stream[m] \in {"idle", "dead"}
        /\ mutex[m] # Free =>
               connected /\ mutex[m] # Streaming /\ phase[m][mutex[m]] \in Handlers

(* The mounts keep the promise of MediaFeed: a mount feeds one media after the  *)
(* other, and every buffer goes whole into the media that is fed (lines 93-147). *)
Served(m) == {k \in Media : phase[m][k] \notin {"none", "configuring"}}

Feed == INSTANCE MediaFeed WITH
    fed <- appSrc,
    served <- [m \in Mounts |-> Served(m)],
    busy <- [m \in Mounts |-> stream[m] \notin {"idle", "dead"}],
    pushing <- [m \in Mounts |-> IF stream[m] = "push" THEN appSrc[m] ELSE None]

FeedsOneMediaAfterAnother == Feed!Spec

(* The server's part of the contract with its owner, who never deletes it while *)
(* the capture plays.                                                          *)
Life == INSTANCE ServerLife WITH
    server <- IF alive THEN "there" ELSE "deleted",
    listening <- attached,
    refused <- FALSE

(* Whoever takes a mount's mutex gives it back, on the error return too.        *)
MountIsReleased == \A m \in Mounts : mutex[m] # Free ~> mutex[m] = Free

(* The safety behind MountIsReleased: a callback gives the mutex back with its  *)
(* one step and a delivery after four at most, and no other thread's step, the  *)
(* end of the capture and of the server included, comes in between to move it.  *)
StepsLeft(m) ==
    IF mutex[m] # Streaming THEN 1
    ELSE IF stream[m] = "pull" THEN 4
    ELSE IF stream[m] = "check" THEN 3
    ELSE IF stream[m] = "push" THEN 2 ELSE 1

HolderGivesBack == [][\A m \in Mounts : mutex[m] # Free =>
    IF Delivery(m) \/ (\E k \in Media : Callback(m, k))
    THEN mutex'[m] = Free \/ (mutex'[m] = mutex[m] /\ StepsLeft(m)' < StepsLeft(m))
    ELSE mutex'[m] = mutex[m] /\ UNCHANGED StepsLeft(m)]_vars

-----------------------------------------------------------------------------
(* Why the handlers may replace and clear an appsrc without asking whose it is: *)
(* media are constructed one by one, the one in use is the cached one, and none *)
(* is configured beside it.                                                     *)
MediaInv == \A m \in Mounts, k \in Media :
    /\ \A j \in Media : j < k /\ phase[m][k] # "none" => phase[m][j] \notin {"none", "configuring"}
    /\ cached[m] = k <=> phase[m][k] \in InUse
    /\ phase[m][k] = "configuring" => cached[m] = None

(* And who holds the mutex is where it may: in a handler, or in a delivery.     *)
MutexInv == \A m \in Mounts :
    /\ \A k \in Media : mutex[m] = k => phase[m][k] \in Handlers
    /\ mutex[m] = Streaming => stream[m] \in {"pull", "check", "push", "unlock"}

(* Only a pipeline that plays delivers, and none plays once the mounts are gone. *)
DeliveryInv ==
    /\ ~alive => ~playing
    /\ \A m \in Mounts : stream[m] \notin {"idle", "dead"} => playing

(* There is a media only after somebody connected, and nobody can once the      *)
(* server is deleted.                                                          *)
ClientInv ==
    /\ ~alive => ~attached
    /\ ~connected => \A m \in Mounts, k \in Media : phase[m][k] = "none"

IInv ==
    /\ TypeOK /\ BridgeFeedsTheMedia /\ OneReferenceHeld /\ PushTargetIsThere
    /\ MediaInv /\ MutexInv /\ DeliveryInv

=============================================================================
