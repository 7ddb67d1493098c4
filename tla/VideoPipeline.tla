----------------------------- MODULE VideoPipeline -----------------------------
(* The single-branch pipeline source -> convert -> caps -> sink                 *)
(* (video/VideoPipeline.cpp): built, played, paused, sought, torn down and      *)
(* built again by one thread, while GStreamer's threads complete the state      *)
(* changes it asked for.  Every operation that depends on the state waits for   *)
(* the change in progress, so a call is two steps.                              *)
(*                                                                              *)
(* External: a state change fails, is done at once or goes on asynchronously; a *)
(* flushing seek makes the sink preroll again; get_state answers FAILURE after  *)
(* a change that failed, until the next one is asked for.                       *)
EXTENDS Integers

CONSTANTS
    CapsValues,    \* the VideoCaps a caller may set
    DefaultCaps,   \* the VideoCaps of a new object
    NoCaps         \* a capsfilter that does not exist has none

ASSUME CapsAssumption == DefaultCaps \in CapsValues

Chain == {"source", "videoConvert", "videoCaps", "sink"}
Elements == Chain \cup {"pipeline"}
States == {"NULL", "READY", "PAUSED", "PLAYING"}
Operations == {"play", "pause", "seek", "query"}

(* The states that isPipelineInState() is asked for.                            *)
Legal == [op \in Operations |->
    CASE op = "play" -> {"NULL", "READY", "PAUSED"}
      [] op = "pause" -> {"PLAYING"}
      [] OTHER -> {"PLAYING", "PAUSED"}]

(* The states that a change which has not ended may have reached, by the state  *)
(* it began in.                                                                 *)
Reached == [s \in States |->
    CASE s = "NULL" -> {"NULL", "READY", "PAUSED"}
      [] s = "READY" -> {"READY", "PAUSED"}
      [] OTHER -> {s}]

VARIABLES
    alive,      \* FALSE once the destructor has run
    source,     \* m_videoSource is set
    caps,       \* m_caps
    set,        \* the element pointers that are not null
    live,       \* the objects of the last setup that still exist
    linked,     \* the chain is in the pipeline and linked
    filter,     \* the "caps" of the capsfilter
    call,       \* the operation that waits in get_state, or "none"
    current,    \* the pipeline's state
    pending,    \* the state it is changing to, or "none"
    failed,     \* its last change failed
    watch,      \* m_busSource is set
    watches     \* the watches of this object that a context iterates

media == <<current, pending, failed>>
built == <<set, live, linked, filter>>
vars == <<alive, source, caps, built, call, media, watch, watches>>

TypeOK ==
    /\ alive \in BOOLEAN /\ source \in BOOLEAN /\ linked \in BOOLEAN
    /\ caps \in CapsValues /\ filter \in CapsValues \cup {NoCaps}
    /\ set \subseteq Elements /\ live \subseteq Elements
    /\ call \in Operations \cup {"none"}
    /\ current \in States /\ pending \in States \cup {"none"} /\ failed \in BOOLEAN
    /\ watch \in BOOLEAN /\ watches \in 0..1

Init ==
    /\ alive = TRUE /\ source = FALSE
    /\ caps = DefaultCaps
    /\ set = {} /\ live = {} /\ linked = FALSE /\ filter = NoCaps
    /\ call = "none"
    /\ current = "NULL" /\ pending = "none" /\ failed = FALSE
    /\ watch = FALSE /\ watches = 0

Idle == alive /\ call = "none"
Count(b) == IF b THEN 1 ELSE 0

-----------------------------------------------------------------------------
DetachBusWatch ==
    /\ watch' = FALSE
    /\ watches' = watches - Count(watch)

TearDownWatched(s, objects, kids) ==
    /\ set' = {}
    /\ live' = objects \ (IF "pipeline" \in s THEN {"pipeline"} \cup kids ELSE s)
    /\ linked' = FALSE /\ filter' = NoCaps
    /\ current' = "NULL" /\ pending' = "none" /\ failed' = FALSE
    /\ UNCHANGED <<watch, watches>>

TearDownDangling(s, objects, kids) ==
    /\ DetachBusWatch
    /\ set' = IF "pipeline" \in s THEN s \ {"pipeline"} ELSE {}
    /\ live' = objects \ (IF "pipeline" \in s THEN {"pipeline"} \cup kids ELSE s)
    /\ linked' = FALSE /\ filter' = NoCaps
    /\ current' = "NULL" /\ pending' = "none" /\ failed' = FALSE

(* stop(), from the pointers s and the objects there are: the pipeline, taken   *)
(* to NULL, frees its children, and the pointers to all four elements are       *)
(* dropped with it; without a pipeline every element is unref'd by itself.      *)
TearDown(s, objects, kids) ==
    /\ DetachBusWatch
    /\ set' = {}
    /\ live' = objects \ (IF "pipeline" \in s THEN {"pipeline"} \cup kids ELSE s)
    /\ linked' = FALSE /\ filter' = NoCaps
    /\ current' = "NULL" /\ pending' = "none" /\ failed' = FALSE

(* A null source takes away the one there is, and setups are refused again.     *)
(* The sink's factory is always there; setVideoSink() only exchanges it (no     *)
(* caller passes a null one, which the next setup would dereference).          *)
SetVideoSource ==
    /\ Idle
    /\ source' \in BOOLEAN
    /\ UNCHANGED <<alive, caps, built, call, media, watch, watches>>

SetCapsStored(c) ==
    /\ Idle
    /\ caps' = c
    /\ UNCHANGED <<alive, source, built, call, media, watch, watches>>

SetCaps(c) ==
    /\ Idle
    /\ caps' = c
    /\ filter' = IF set = Elements THEN c ELSE filter
    /\ UNCHANGED <<alive, source, set, live, linked, call, media, watch, watches>>

(* setupPipeline(): its two refusals change nothing.                            *)
CanSetup == Idle /\ source /\ set # Elements

CreateFails == \E made \in SUBSET Elements :
    /\ CanSetup
    /\ made # Elements
    /\ TearDown(made, made, {})
    /\ UNCHANGED <<alive, source, caps, call>>

LinkFailsUnclean ==
    /\ CanSetup
    /\ set' = Elements /\ live' = Elements
    /\ filter' = caps
    /\ UNCHANGED <<alive, source, caps, linked, call, media, watch, watches>>

LinkFails ==
    /\ CanSetup
    /\ TearDown(Elements, Elements, Chain)
    /\ UNCHANGED <<alive, source, caps, call>>

Succeeds ==
    /\ CanSetup
    /\ set' = Elements /\ live' = Elements /\ linked' = TRUE
    /\ filter' = caps
    /\ UNCHANGED <<alive, source, caps, call, media, watch, watches>>

SetupPipeline == CreateFails \/ LinkFails \/ Succeeds

Stop ==
    /\ Idle
    /\ TearDown(set, live, Chain)
    /\ UNCHANGED <<alive, source, caps, call>>

Destroy ==
    /\ Idle
    /\ alive' = FALSE
    /\ TearDown(set, live, Chain)
    /\ UNCHANGED <<source, caps, call>>

(* The old watch goes first; the new one may fail to be made.                   *)
AttachBusWatch ==
    /\ Idle
    /\ set = Elements
    /\ \E made \in BOOLEAN :
           /\ watch' = made
           /\ watches' = watches - Count(watch) + Count(made)
    /\ UNCHANGED <<alive, source, caps, built, call, media>>

Detach ==
    /\ Idle
    /\ DetachBusWatch
    /\ UNCHANGED <<alive, source, caps, built, call, media>>

-----------------------------------------------------------------------------
(* play(), pause(), seek() and the two queries: isPipelineInState() blocks      *)
(* without a limit, then the call is refused or goes on.                        *)
Call(op) ==
    /\ Idle
    /\ set = Elements
    /\ call' = op
    /\ UNCHANGED <<alive, source, caps, built, media, watch, watches>>

AnsweredAtOnce(allowed) ==
    /\ call # "none"
    /\ (~failed /\ current \in Legal[call]) <=> allowed

AnsweredAfterFailure(allowed) ==
    /\ call # "none" /\ pending = "none"
    /\ current \in Legal[call] <=> allowed

(* What get_state lets isPipelineInState() answer.                              *)
Answered(allowed) ==
    /\ call # "none" /\ pending = "none"
    /\ (~failed /\ current \in Legal[call]) <=> allowed

Return ==
    /\ call' = "none"
    /\ UNCHANGED <<alive, source, caps, built, watch, watches>>

Refuse == Answered(FALSE) /\ Return /\ UNCHANGED media

Target == IF call = "play" THEN "PLAYING" ELSE "PAUSED"

SetState ==
    /\ Answered(TRUE) /\ call \in {"play", "pause"}
    /\ \/ current' = Target /\ pending' = "none" /\ failed' = FALSE
       \/ current' \in Reached[current] /\ pending' = Target /\ failed' = FALSE
       \/ current' \in Reached[current] /\ pending' = "none" /\ failed' = TRUE
    /\ Return

Seek ==
    /\ Answered(TRUE) /\ call = "seek"
    /\ \/ UNCHANGED media
       \/ current' = "PAUSED" /\ pending' = current /\ UNCHANGED failed
    /\ Return

Query == Answered(TRUE) /\ call = "query" /\ Return /\ UNCHANGED media

(* GStreamer's threads, the streaming thread's first buffer among them.         *)
ChangeCompletes ==
    /\ pending # "none"
    /\ current' = pending /\ pending' = "none"
    /\ UNCHANGED <<alive, source, caps, built, call, failed, watch, watches>>

ChangeFails ==
    /\ pending # "none"
    /\ pending' = "none" /\ failed' = TRUE
    /\ UNCHANGED <<alive, source, caps, built, call, current, watch, watches>>

Next ==
    \/ SetVideoSource \/ \E c \in CapsValues : SetCaps(c)
    \/ SetupPipeline \/ Stop \/ Destroy
    \/ AttachBusWatch \/ Detach
    \/ \E op \in Operations : Call(op)
    \/ Refuse \/ SetState \/ Seek \/ Query
    \/ ChangeCompletes \/ ChangeFails

Spec == Init /\ [][Next]_vars

-----------------------------------------------------------------------------
(* No pointer is left to an element that was freed, by itself or with the       *)
(* pipeline (stop(), and setupPipeline()'s error paths that call it).           *)
NoDanglingPointer == set \subseteq live

(* isPipelineSetup(), five pointers, is what every operation trusts: it is      *)
(* never true of a chain that did not link, and a setup that failed leaves no   *)
(* pointer behind and can be tried again.                                       *)
SetupAllOrNothing == set = {} \/ (set = Elements /\ linked)

(* One watch at most, replaced and never doubled, and none without the pipeline *)
(* whose bus it watches (VideoPipeline.hpp:62-63).                              *)
WatchWithinPipeline ==
    /\ watches = Count(watch)
    /\ watch => alive /\ linked /\ "pipeline" \in live

(* The caps of a built pipeline are those last set, before or after the setup,  *)
(* and across a rebuild (VideoPipeline::setCaps, setupPipeline).                *)
CapsAreCurrent == set = Elements => filter = caps

(* No pipeline is freed outside NULL or in the middle of a change (stop()).     *)
DisposedInNull == "pipeline" \notin live => current = "NULL" /\ pending = "none"

(* A state change is never asked for while another is in progress, so a pause() *)
(* cannot overtake the play() before it (isPipelineInState waits).              *)
NoOverlappingChanges == [][pending # "none" => pending' \in {pending, "none"}]_vars

(* A pipeline whose state change failed refuses every operation until stop()    *)
(* and a new setup; play() is not a retry (isPipelineInState).                  *)
FailureNeedsRebuild ==
    [][failed => (failed' /\ current' = current) \/ set' = {}]_vars

(* What it does to its pipeline is what PipelineLife asks of an owner, with no  *)
(* remnant ever: the state changes, those that GStreamer's threads complete     *)
(* while the next call waits included, are of a whole pipeline, and stop(),     *)
(* whatever it meets, frees all that is in it.                                  *)
Pipe ==
    IF "pipeline" \notin live THEN "none"
    ELSE IF linked /\ set = Elements /\ live = Elements THEN "whole"
    ELSE "remnant"

Life == INSTANCE PipelineLife WITH
    owner <- alive, pipe <- Pipe, gst <- current, watched <- watch

KeepsPipelineLife == Life!Spec
=============================================================================
