--------------------------- MODULE ApplicationProofs ---------------------------
(* Proofs about the coordinator, for a catalogue of any length, any number of   *)
(* calls of stop() and of messages: who owns the GLib objects, and that the     *)
(* host inside it is the ProfileHost of the module of that name.                *)
EXTENDS Application, TLAPS

(* At first nothing has been made.                                              *)
LEMMA InitIInv == Init => IInv
<1> SUFFICES ASSUME Init PROVE IInv
  OBVIOUS
<1>1. /\ pc = "client" /\ back = "client" /\ stops = 0
      /\ refs = [o \in Sources \cup {"loop", "context"} |-> 0]
      /\ pointers = {} /\ attached = {} /\ batch = {} /\ pending = {} /\ messages = <<>>
      /\ rtsp = "none"
  BY DEF Init
<1>2. initialized = FALSE /\ refused = FALSE /\ mainLoop = FALSE /\ context = FALSE
      /\ running = FALSE /\ watch = FALSE
  BY DEF Init, Host!Init
<1>3. OwnTypes
  <2>1. messages \in Seq(Messages) /\ Len(messages) <= MaxMessages
    BY <1>1, ApplicationAssumption
  <2>2. stops \in 0..MaxStops /\ refs \in [Sources \cup {"loop", "context"} -> Int]
    BY <1>1, ApplicationAssumption
  <2>3. /\ initialized \in BOOLEAN /\ refused \in BOOLEAN /\ mainLoop \in BOOLEAN
        /\ context \in BOOLEAN /\ running \in BOOLEAN
    BY <1>2, Zenon
  <2> QED
    BY <1>1, <2>1, <2>2, <2>3 DEF OwnTypes, Places
<1>4. ReferencesMatchOwners
  BY <1>1, <1>2 DEF ReferencesMatchOwners, Count, Sources
<1>5. ControlInv /\ BatchInv /\ CaptureInv /\ MountsOutliveCapture
  BY <1>1, <1>2 DEF ControlInv, BatchInv, CaptureInv, MountsOutliveCapture, Destructors
<1> QED
  BY <1>3, <1>4, <1>5 DEF IInv

-----------------------------------------------------------------------------
(* A step that neither makes nor releases a GLib object keeps the references.   *)
LEMMA GlibUnchanged ==
    ASSUME IInv, UNCHANGED <<mainLoop, context, refs, pointers, attached, watch>>
    PROVE  ReferencesMatchOwners'
BY DEF IInv, ReferencesMatchOwners

(* Steps of initialize().                                                       *)
LEMMA CreateContextIInv == IInv /\ CreateContext => IInv'
<1> SUFFICES ASSUME IInv, CreateContext PROVE IInv'
  OBVIOUS
<1>1. /\ pc = "client" /\ pc' = "sigint" /\ initialized' = TRUE /\ context' = TRUE /\ mainLoop' = TRUE
      /\ refs' = [refs EXCEPT !["context"] = 2, !["loop"] = 1]
      /\ UNCHANGED <<back, stops, refused, running, pointers, attached, batch, pending, messages, rtsp>>
      /\ UNCHANGED <<watch, gst>>
  BY DEF CreateContext, Goto, events, host
<1>2. OwnTypes'
  BY <1>1 DEF IInv, OwnTypes, Places
<1>3. ReferencesMatchOwners'
  <2>1. refs'["loop"] = 1 /\ refs'["context"] = 2 /\ \A s \in Sources : refs'[s] = refs[s]
    BY <1>1 DEF IInv, OwnTypes, Sources, Signals
  <2>2. Count(mainLoop') = 1 /\ Count(context') = 1
    BY <1>1, Zenon DEF Count
  <2>3. refs'["loop"] = Count(mainLoop') /\ refs'["context"] = Count(context') + Count(mainLoop')
    BY <2>1, <2>2
  <2>4. UNCHANGED <<pointers, attached, watch>>
    BY <1>1
  <2>5. \A s \in Sources : refs'[s] =
           Count(s \in pointers' \/ (s = "bus" /\ watch')) + Count(s \in attached')
    BY <2>1, <2>4 DEF IInv, ReferencesMatchOwners
  <2> QED
    BY <2>3, <2>5 DEF ReferencesMatchOwners
<1>4. ControlInv' /\ BatchInv' /\ CaptureInv' /\ MountsOutliveCapture'
  BY <1>1 DEF IInv, ControlInv, BatchInv, CaptureInv, MountsOutliveCapture, Destructors
<1> QED
  BY <1>2, <1>3, <1>4 DEF IInv

(* A source that is made and attached, or could not be made.                    *)
LEMMA AttachKeepsOwners ==
    ASSUME IInv, NEW s \in Sources,
           \/ pointers' = pointers \cup {s} /\ s # "bus" /\ watch' = watch
           \/ pointers' = pointers /\ s = "bus" /\ watch' = TRUE,
           Attach(s), mainLoop' = mainLoop, context' = context
    PROVE  /\ ReferencesMatchOwners'
           /\ refs' \in [Sources \cup {"loop", "context"} -> Int]
<1>1. /\ refs'[s] = 2 /\ \A o \in Sources \cup {"loop", "context"} : o # s => refs'[o] = refs[o]
      /\ refs' \in [Sources \cup {"loop", "context"} -> Int]
      /\ attached' = attached \cup {s}
      /\ s # "loop" /\ s # "context"
  BY DEF Attach, IInv, OwnTypes, Sources, Signals
<1> QED
  BY <1>1 DEF IInv, ReferencesMatchOwners, Count, OwnTypes

LEMMA InstallIInv ==
    ASSUME IInv, NEW s \in Signals, NEW from, NEW to,
           <<from, to>> \in {<<"sigint", "sigterm">>, <<"sigterm", "setSource">>},
           Install(s, from, to)
    PROVE  IInv'
<1>1. /\ pc \in {"sigint", "sigterm"} /\ pc' \in {"sigterm", "setSource"}
      /\ UNCHANGED <<back, initialized, stops, refused, mainLoop, context, running, batch>>
      /\ UNCHANGED <<pending, messages, rtsp, watch, gst>>
      /\ \/ pointers' = pointers \cup {s} /\ Attach(s)
         \/ UNCHANGED <<pointers, attached, refs>>
  BY DEF Install, Goto, driver, events, host
<1>2. s \in Sources /\ s # "bus"
  BY DEF Sources, Signals
<1>3. ReferencesMatchOwners' /\ refs' \in [Sources \cup {"loop", "context"} -> Int]
  BY <1>1, <1>2, AttachKeepsOwners, GlibUnchanged DEF IInv, OwnTypes
<1>4. OwnTypes'
  BY <1>1, <1>2, <1>3 DEF IInv, OwnTypes, Places, Attach
<1>5. ControlInv' /\ BatchInv' /\ CaptureInv' /\ MountsOutliveCapture'
  BY <1>1 DEF IInv, ControlInv, BatchInv, CaptureInv, MountsOutliveCapture, Destructors
<1> QED
  BY <1>3, <1>4, <1>5 DEF IInv

LEMMA AttachServerIInv == IInv /\ AttachServer => IInv'
<1> SUFFICES ASSUME IInv, AttachServer PROVE IInv'
  OBVIOUS
<1>1. /\ pc = "attach" /\ pc' = "client"
      /\ UNCHANGED <<back, initialized, stops, refused, mainLoop, context, running, batch>>
      /\ UNCHANGED <<pending, messages, rtsp, watch, gst>>
      /\ \/ pointers' = pointers \cup {"rtsp"} /\ Attach("rtsp")
         \/ UNCHANGED <<pointers, attached, refs>>
  BY DEF AttachServer, Goto, driver, events, host
<1>2. "rtsp" \in Sources
  BY DEF Sources
<1>3. ReferencesMatchOwners' /\ refs' \in [Sources \cup {"loop", "context"} -> Int]
  BY <1>1, <1>2, AttachKeepsOwners, GlibUnchanged DEF IInv, OwnTypes
<1>4. OwnTypes'
  BY <1>1, <1>2, <1>3 DEF IInv, OwnTypes, Places, Attach
<1>5. ControlInv' /\ BatchInv' /\ CaptureInv' /\ MountsOutliveCapture'
  BY <1>1 DEF IInv, ControlInv, BatchInv, CaptureInv, MountsOutliveCapture, Destructors
<1> QED
  BY <1>3, <1>4, <1>5 DEF IInv

LEMMA AttachPipelineEventsIInv == IInv /\ AttachPipelineEvents => IInv'
<1> SUFFICES ASSUME IInv, AttachPipelineEvents PROVE IInv'
  OBVIOUS
<1>1. /\ pc = "watch" /\ pc' = "attach" /\ watch' = TRUE /\ gst' = gst /\ Attach("bus")
      /\ UNCHANGED <<back, initialized, stops, refused, mainLoop, context, running, pointers, batch>>
      /\ UNCHANGED <<pending, messages, rtsp>>
  BY DEF AttachPipelineEvents, Goto, Host!AttachBusWatch, driver, events
<1>2. "bus" \in Sources
  BY DEF Sources
<1>3. ReferencesMatchOwners' /\ refs' \in [Sources \cup {"loop", "context"} -> Int]
  BY <1>1, <1>2, AttachKeepsOwners
<1>4. OwnTypes'
  BY <1>1, <1>2, <1>3 DEF IInv, OwnTypes, Places, Attach
<1>5. ControlInv' /\ BatchInv' /\ CaptureInv' /\ MountsOutliveCapture'
  BY <1>1 DEF IInv, ControlInv, BatchInv, CaptureInv, MountsOutliveCapture, Destructors
<1> QED
  BY <1>3, <1>4, <1>5 DEF IInv

-----------------------------------------------------------------------------
(* The other steps of initialize(), the switches, run() and its loop, stop() up *)
(* to the host's, and the surroundings: no GLib object is made or released.     *)
LEMMA LoopIInv ==
    ASSUME IInv,
           \/ SetVideoSource \/ SetupPipeline \/ ConstructServer \/ SetProfileEnabled
           \/ Run \/ Play \/ Iterate \/ OnBusMessage \/ EndIteration \/ LoopReturns
           \/ \E s \in Signals : OnUnixSignal(s) \/ SignalArrives(s)
           \/ \E k \in Messages : PostMessage(k)
           \/ Stop \/ PauseHost \/ Destroy
    PROVE  IInv'
<1>1. CASE SetVideoSource \/ SetupPipeline \/ ConstructServer \/ SetProfileEnabled
  <2>1. /\ UNCHANGED <<back, initialized, stops, refused, mainLoop, context, refs, running>>
        /\ UNCHANGED <<pointers, attached, batch, pending, messages>>
    BY <1>1 DEF SetVideoSource, SetupPipeline, ConstructServer, SetProfileEnabled, driver, glib, events
  <2>2. /\ watch' = watch
        /\ \/ pc = "setSource" /\ pc' = "setup" /\ rtsp' = rtsp
           \/ pc = "setup" /\ pc' \in {"construct", "client"} /\ rtsp' = rtsp
           \/ pc = "construct" /\ pc' = "watch" /\ rtsp' = "there"
           \/ pc = "client" /\ pc' = "client" /\ rtsp' = rtsp
    BY <1>1
    DEF SetVideoSource, SetupPipeline, ConstructServer, SetProfileEnabled, Goto, host,
        Host!SetVideoSource, Host!SetProfileEnabled, Host!SetupPipeline, Host!CreateFails,
        Host!LinkFails, Host!BinFails, Host!PadFails, Host!Succeeds, Host!Attempt
  <2>3. OwnTypes'
    BY <2>1, <2>2 DEF IInv, OwnTypes, Places
  <2>4. ControlInv' /\ BatchInv' /\ CaptureInv' /\ MountsOutliveCapture'
    BY <2>1, <2>2 DEF IInv, ControlInv, BatchInv, CaptureInv, MountsOutliveCapture, Destructors
  <2> QED
    BY <2>1, <2>2, <2>3, <2>4, GlibUnchanged DEF IInv
<1>2. CASE Run \/ Play \/ EndIteration \/ LoopReturns \/ Stop \/ Destroy
  <2>1. /\ UNCHANGED <<initialized, refused, mainLoop, context, refs>>
        /\ UNCHANGED <<pointers, attached, batch, pending, messages, rtsp, watch>>
    BY <1>2
    DEF Run, Play, EndIteration, LoopReturns, Stop, Destroy, driver, glib, events, host,
        Host!Play, Host!SetPipelineState
  <2>2. /\ running' = running \/ running' = TRUE
        /\ back' \in {back, "client", "sources"}
        /\ stops' = stops \/ (stops < MaxStops /\ stops' = stops + 1)
        /\ \/ pc = "client" /\ pc' \in {"play", "pause"}
           \/ pc = "play" /\ pc' = "loop"
           \/ pc = "dispatch" /\ pc' = "loop" /\ batch = {}
           \/ pc = "loop" /\ pc' = "pause"
    <3>1. CASE Run \/ EndIteration \/ LoopReturns \/ Stop \/ Destroy
      BY <3>1 DEF Run, EndIteration, LoopReturns, Stop, Destroy, Goto, driver, glib
    <3>2. CASE Play
      BY <3>2 DEF Play, Goto, driver
    <3> QED
      BY <1>2, <3>1, <3>2
  <2>3. OwnTypes'
    <3>1. stops' \in 0..MaxStops
      BY <2>2, ApplicationAssumption DEF IInv, OwnTypes
    <3>2. running' \in BOOLEAN
      BY <2>2, Zenon DEF IInv, OwnTypes
    <3> QED
      BY <2>1, <2>2, <3>1, <3>2 DEF IInv, OwnTypes, Places
  <2>4. ControlInv' /\ BatchInv' /\ CaptureInv' /\ MountsOutliveCapture'
    BY <2>1, <2>2 DEF IInv, ControlInv, BatchInv, CaptureInv, MountsOutliveCapture, Destructors
  <2> QED
    BY <2>1, <2>3, <2>4, GlibUnchanged DEF IInv
<1>3. CASE Iterate
  <2>1. /\ pc = "loop" /\ pc' = "dispatch" /\ batch' = Ready
        /\ UNCHANGED <<back, initialized, stops, refused, mainLoop, context, refs, running>>
        /\ UNCHANGED <<pointers, attached, pending, messages, rtsp, watch, gst>>
    BY <1>3 DEF Iterate, Goto, driver, events, host
  <2>2. batch' \subseteq Sources /\ ("bus" \in batch' => messages # <<>>)
    BY <2>1 DEF Ready, IInv, OwnTypes, Signals
  <2>3. OwnTypes'
    BY <2>1, <2>2 DEF IInv, OwnTypes, Places
  <2>4. ControlInv' /\ BatchInv' /\ CaptureInv' /\ MountsOutliveCapture'
    BY <2>1, <2>2 DEF IInv, ControlInv, BatchInv, CaptureInv, MountsOutliveCapture, Destructors
  <2> QED
    BY <2>1, <2>3, <2>4, GlibUnchanged DEF IInv
<1>4. ASSUME NEW s \in Signals, OnUnixSignal(s) PROVE IInv'
  <2>1. /\ pc = "dispatch" /\ batch' = batch \ {s} /\ pending' = pending \ {s}
        /\ running' = (running /\ ~mainLoop)
        /\ UNCHANGED <<pc, back, initialized, stops, refused, mainLoop, context, refs>>
        /\ UNCHANGED <<pointers, attached, messages, rtsp, watch, gst>>
    BY <1>4 DEF OnUnixSignal, RequestStop, driver, host
  <2>2. OwnTypes'
    BY <2>1 DEF IInv, OwnTypes
  <2>3. ControlInv' /\ BatchInv' /\ CaptureInv' /\ MountsOutliveCapture'
    BY <2>1 DEF IInv, ControlInv, BatchInv, CaptureInv, MountsOutliveCapture, Destructors
  <2> QED
    BY <2>1, <2>2, <2>3, GlibUnchanged DEF IInv
<1>5. CASE OnBusMessage
  <2>1. /\ pc = "dispatch" /\ "bus" \in batch /\ batch' = batch \ {"bus"} /\ messages' = Tail(messages)
        /\ UNCHANGED <<pc, back, initialized, stops, refused, mainLoop, context, refs>>
        /\ UNCHANGED <<pointers, attached, running, pending, rtsp, watch, gst>>
    BY <1>5 DEF OnBusMessage, driver, host
  <2>2. messages' \in Seq(Messages) /\ Len(messages') <= MaxMessages
    <3>1. messages \in Seq(Messages) /\ messages # <<>> /\ Len(messages) <= MaxMessages
      BY <2>1 DEF IInv, OwnTypes, BatchInv
    <3>2. messages' \in Seq(Messages) /\ Len(messages') = Len(messages) - 1
      BY <2>1, <3>1
    <3> QED
      BY <3>1, <3>2, ApplicationAssumption
  <2>3. OwnTypes'
    BY <2>1, <2>2 DEF IInv, OwnTypes
  <2>4. ControlInv' /\ BatchInv' /\ CaptureInv' /\ MountsOutliveCapture'
    BY <2>1 DEF IInv, ControlInv, BatchInv, CaptureInv, MountsOutliveCapture, Destructors
  <2> QED
    BY <2>1, <2>3, <2>4, GlibUnchanged DEF IInv
<1>6. ASSUME NEW s \in Signals, SignalArrives(s) PROVE IInv'
  <2>1. /\ pc \notin Ended /\ pc' \in {pc, "killed"} /\ pending' \subseteq Signals
        /\ UNCHANGED <<back, initialized, stops, refused, mainLoop, context, refs, running>>
        /\ UNCHANGED <<pointers, attached, batch, messages, rtsp, watch, gst>>
    BY <1>6 DEF SignalArrives, driver, glib, host, IInv, OwnTypes
  <2>2. OwnTypes'
    BY <2>1 DEF IInv, OwnTypes, Places, Ended
  <2>3. ControlInv' /\ BatchInv' /\ CaptureInv' /\ MountsOutliveCapture'
    BY <2>1 DEF IInv, ControlInv, BatchInv, CaptureInv, MountsOutliveCapture, Destructors
  <2> QED
    BY <2>1, <2>2, <2>3, GlibUnchanged DEF IInv
<1>7. ASSUME NEW k \in Messages, PostMessage(k) PROVE IInv'
  <2>1. /\ messages' = Append(messages, k) /\ Len(messages) < MaxMessages
        /\ UNCHANGED <<pc, back, initialized, stops, refused, mainLoop, context, refs, running>>
        /\ UNCHANGED <<pointers, attached, batch, pending, rtsp, watch, gst>>
    BY <1>7 DEF PostMessage, driver, glib, host
  <2>2. messages' \in Seq(Messages) /\ Len(messages') <= MaxMessages /\ messages' # <<>>
    <3>1. messages \in Seq(Messages)
      BY DEF IInv, OwnTypes
    <3>2. messages' \in Seq(Messages) /\ Len(messages') = Len(messages) + 1
      BY <2>1, <3>1
    <3> QED
      BY <2>1, <3>1, <3>2, ApplicationAssumption
  <2>3. OwnTypes'
    BY <2>1, <2>2 DEF IInv, OwnTypes
  <2>4. ControlInv' /\ BatchInv' /\ CaptureInv' /\ MountsOutliveCapture'
    BY <2>1, <2>2 DEF IInv, ControlInv, BatchInv, CaptureInv, MountsOutliveCapture, Destructors
  <2> QED
    BY <2>1, <2>3, <2>4, GlibUnchanged DEF IInv
<1>8. CASE PauseHost
  <2>1. /\ pc = "pause" /\ pc' = "unrefLoop" /\ watch' = watch
        /\ refused' = (gst' = "PLAYING")
        /\ UNCHANGED <<back, initialized, stops, mainLoop, context, refs, running>>
        /\ UNCHANGED <<pointers, attached, batch, pending, messages, rtsp>>
    BY <1>8 DEF PauseHost, Goto, Host!Stop, Host!SetPipelineState, driver, glib, events, host
  <2>2. refused' \in BOOLEAN /\ (gst' # "PLAYING" \/ refused')
    BY <2>1
  <2>3. OwnTypes'
    BY <2>1, <2>2 DEF IInv, OwnTypes, Places
  <2>4. ControlInv' /\ BatchInv' /\ CaptureInv' /\ MountsOutliveCapture'
    BY <2>1, <2>2 DEF IInv, ControlInv, BatchInv, CaptureInv, MountsOutliveCapture, Destructors
  <2> QED
    BY <2>1, <2>3, <2>4, GlibUnchanged DEF IInv
<1> QED
  BY <1>1, <1>2, <1>3, <1>4, <1>5, <1>6, <1>7, <1>8

-----------------------------------------------------------------------------
(* The loop of run() or of a loop never run is released once.                   *)
LEMMA UnrefLoopIInv == IInv /\ UnrefLoop => IInv'
<1> SUFFICES ASSUME IInv, UnrefLoop PROVE IInv'
  OBVIOUS
<1>1. /\ pc = "unrefLoop" /\ pc' = back /\ mainLoop' = FALSE
      /\ refs' = IF mainLoop THEN [refs EXCEPT !["loop"] = @ - 1, !["context"] = @ - 1] ELSE refs
      /\ UNCHANGED <<back, initialized, stops, refused, context, running, pointers, attached, batch>>
      /\ UNCHANGED <<pending, messages, rtsp, watch, gst>>
  BY DEF UnrefLoop, Goto, driver, events, host
<1>2. OwnTypes'
  <2>1. refs' \in [Sources \cup {"loop", "context"} -> Int]
    BY <1>1 DEF IInv, OwnTypes
  <2>2. mainLoop' \in BOOLEAN
    BY <1>1, Zenon
  <2> QED
    BY <1>1, <2>1, <2>2 DEF IInv, OwnTypes, Places
<1>3. ReferencesMatchOwners'
  <2>1. /\ refs'["loop"] = refs["loop"] - Count(mainLoop)
        /\ refs'["context"] = refs["context"] - Count(mainLoop)
        /\ \A s \in Sources : refs'[s] = refs[s]
    BY <1>1 DEF IInv, OwnTypes, ReferencesMatchOwners, Sources, Signals, Count
  <2>2. Count(mainLoop') = 0 /\ Count(mainLoop) \in Int /\ Count(context) \in Int
    BY <1>1 DEF Count
  <2>3. UNCHANGED <<context, pointers, attached, watch>>
    BY <1>1
  <2>4. refs["loop"] = Count(mainLoop) /\ refs["context"] = Count(context) + Count(mainLoop)
    BY DEF IInv, ReferencesMatchOwners
  <2>5. refs'["loop"] = Count(mainLoop') /\ refs'["context"] = Count(context') + Count(mainLoop')
    BY <2>1, <2>2, <2>3, <2>4
  <2>6. \A s \in Sources : refs'[s] =
           Count(s \in pointers' \/ (s = "bus" /\ watch')) + Count(s \in attached')
    BY <2>1, <2>3 DEF IInv, ReferencesMatchOwners
  <2> QED
    BY <2>5, <2>6 DEF ReferencesMatchOwners
<1>4. ControlInv' /\ BatchInv' /\ CaptureInv' /\ MountsOutliveCapture'
  BY <1>1 DEF IInv, OwnTypes, ControlInv, BatchInv, CaptureInv, MountsOutliveCapture, Destructors
<1> QED
  BY <1>2, <1>3, <1>4 DEF IInv

(* Sources that are destroyed and released by the pointers that made them.      *)
LEMMA ReleasedCounts ==
    ASSUME IInv, NEW gone \in SUBSET Sources
    PROVE  /\ Released(gone, attached) \in [Sources \cup {"loop", "context"} -> Int]
           /\ \A o \in {"loop", "context"} : Released(gone, attached)[o] = refs[o]
           /\ \A o \in Sources \ gone : Released(gone, attached)[o] = refs[o]
           /\ \A o \in gone : Released(gone, attached)[o] = refs[o] - 1 - Count(o \in attached)
<1>1. /\ refs \in [Sources \cup {"loop", "context"} -> Int] /\ DOMAIN refs = Sources \cup {"loop", "context"}
      /\ "loop" \notin Sources /\ "context" \notin Sources
  BY DEF IInv, OwnTypes, Sources, Signals
<1> QED
  BY <1>1 DEF Released, Count

LEMMA FreeSourcesIInv == IInv /\ FreeSources => IInv'
<1> SUFFICES ASSUME IInv, FreeSources PROVE IInv'
  OBVIOUS
<1> DEFINE gone == pointers \cap Signals
<1>1. /\ pc = "sources" /\ pc' = "context" /\ refs' = Released(gone, attached)
      /\ pointers' = pointers \ Signals /\ attached' = attached \ gone /\ pending' = {}
      /\ UNCHANGED <<back, initialized, stops, refused, mainLoop, context, running, batch>>
      /\ UNCHANGED <<messages, rtsp, watch, gst>>
  BY DEF FreeSources, Goto, driver, host
<1>2. gone \in SUBSET Sources /\ "bus" \notin gone
  BY DEF Sources, Signals
<1> HIDE DEF gone
<1>3. /\ refs' \in [Sources \cup {"loop", "context"} -> Int]
      /\ \A o \in {"loop", "context"} : refs'[o] = refs[o]
      /\ \A o \in Sources \ gone : refs'[o] = refs[o]
      /\ \A o \in gone : refs'[o] = refs[o] - 1 - Count(o \in attached)
  BY <1>1, <1>2, ReleasedCounts
<1>4. OwnTypes'
  BY <1>1, <1>3 DEF IInv, OwnTypes, Places
<1>5. ReferencesMatchOwners'
  <2>1. \A o \in gone : refs'[o] = 0 /\ o \notin pointers' /\ o \notin attached' /\ o # "bus"
    <3> SUFFICES ASSUME NEW o \in gone
                 PROVE  refs'[o] = 0 /\ o \notin pointers' /\ o \notin attached' /\ o # "bus"
      OBVIOUS
    <3>1. o \in pointers /\ o \in Sources /\ o # "bus" /\ o \notin pointers' /\ o \notin attached'
      BY <1>1, <1>2 DEF gone
    <3>2. refs[o] = 1 + Count(o \in attached)
      BY <3>1 DEF IInv, ReferencesMatchOwners, Count
    <3> QED
      BY <1>3, <3>1, <3>2 DEF Count
  <2>2. \A o \in Sources \ gone : (o \in pointers' <=> o \in pointers) /\ (o \in attached' <=> o \in attached)
    BY <1>1 DEF gone
  <2> QED
    BY <1>1, <1>3, <2>1, <2>2 DEF IInv, ReferencesMatchOwners, Count
<1>6. ControlInv' /\ BatchInv' /\ CaptureInv' /\ MountsOutliveCapture'
  BY <1>1 DEF IInv, OwnTypes, Sources, Signals, ControlInv, BatchInv, CaptureInv, MountsOutliveCapture, Destructors
<1> QED
  BY <1>4, <1>5, <1>6 DEF IInv

(* The context, whose last reference is the pointer's, lets go of its sources.  *)
LEMMA UnrefContextIInv == IInv /\ UnrefContext => IInv'
<1> SUFFICES ASSUME IInv, UnrefContext PROVE IInv'
  OBVIOUS
<1>1. /\ pc = "context" /\ pc' = "deleteServer" /\ context' = FALSE
      /\ UNCHANGED <<back, initialized, stops, refused, mainLoop, running, pointers, batch>>
      /\ UNCHANGED <<pending, messages, rtsp, watch, gst>>
      /\ ~mainLoop
  BY DEF UnrefContext, Goto, driver, events, host, IInv, ControlInv, Destructors
<1>2. /\ refs["context"] = Count(context) /\ refs["loop"] = 0
      /\ (~context => attached = {})
      /\ refs \in [Sources \cup {"loop", "context"} -> Int]
      /\ DOMAIN refs = Sources \cup {"loop", "context"}
      /\ attached \subseteq Sources /\ "loop" \notin Sources /\ "context" \notin Sources
  BY <1>1 DEF IInv, OwnTypes, ReferencesMatchOwners, ControlInv, Count, Sources, Signals
<1>3. /\ attached' = {}
      /\ refs' = [o \in DOMAIN refs |-> refs[o] - Count(o = "context" /\ context) - Count(o \in attached)]
  <2>1. CASE context
    BY <1>2, <2>1 DEF UnrefContext, Count
  <2>2. CASE ~context
    BY <1>2, <2>2 DEF UnrefContext, Count
  <2> QED
    BY <2>1, <2>2
<1>4. /\ refs' \in [Sources \cup {"loop", "context"} -> Int]
      /\ refs'["loop"] = 0 /\ refs'["context"] = 0
      /\ \A s \in Sources : refs'[s] = refs[s] - Count(s \in attached)
  BY <1>2, <1>3 DEF Count
<1>5. OwnTypes'
  BY <1>1, <1>3, <1>4 DEF IInv, OwnTypes, Places
<1>6. ReferencesMatchOwners'
  BY <1>1, <1>3, <1>4 DEF IInv, ReferencesMatchOwners, Count
<1>7. ControlInv' /\ BatchInv' /\ CaptureInv' /\ MountsOutliveCapture'
  BY <1>1, <1>3 DEF IInv, ControlInv, BatchInv, CaptureInv, MountsOutliveCapture, Destructors
<1> QED
  BY <1>5, <1>6, <1>7 DEF IInv

LEMMA DeleteServerIInv == IInv /\ DeleteServer => IInv'
<1> SUFFICES ASSUME IInv, DeleteServer PROVE IInv'
  OBVIOUS
<1> DEFINE gone == pointers \cap {"rtsp"}
<1>1. /\ pc = "deleteServer" /\ pc' = "deleteHost" /\ refs' = Released(gone, attached)
      /\ pointers' = pointers \ {"rtsp"} /\ attached' = attached \ {"rtsp"}
      /\ rtsp' \in {rtsp, "deleted"}
      /\ UNCHANGED <<back, initialized, stops, refused, mainLoop, context, running, batch>>
      /\ UNCHANGED <<pending, messages, watch, gst>>
  BY DEF DeleteServer, Goto, driver, events, host
<1>2. gone \in SUBSET Sources /\ "bus" \notin gone /\ attached = {}
  BY <1>1 DEF Sources, IInv, ControlInv
<1> HIDE DEF gone
<1>3. /\ refs' \in [Sources \cup {"loop", "context"} -> Int]
      /\ \A o \in {"loop", "context"} : refs'[o] = refs[o]
      /\ \A o \in Sources \ gone : refs'[o] = refs[o]
      /\ \A o \in gone : refs'[o] = refs[o] - 1 - Count(o \in attached)
  BY <1>1, <1>2, ReleasedCounts
<1>4. OwnTypes'
  BY <1>1, <1>3 DEF IInv, OwnTypes, Places
<1>5. ReferencesMatchOwners'
  <2>1. \A o \in gone : refs'[o] = 0 /\ o \notin pointers' /\ o \notin attached' /\ o # "bus"
    <3> SUFFICES ASSUME NEW o \in gone
                 PROVE  refs'[o] = 0 /\ o \notin pointers' /\ o \notin attached' /\ o # "bus"
      OBVIOUS
    <3>1. o \in pointers /\ o \in Sources /\ o # "bus" /\ o \notin pointers' /\ o \notin attached'
      BY <1>1, <1>2 DEF gone
    <3>2. refs[o] = 1 + Count(o \in attached)
      BY <3>1 DEF IInv, ReferencesMatchOwners, Count
    <3> QED
      BY <1>3, <3>1, <3>2 DEF Count
  <2>2. \A o \in Sources \ gone : (o \in pointers' <=> o \in pointers) /\ (o \in attached' <=> o \in attached)
    BY <1>1, <1>2 DEF gone
  <2> QED
    BY <1>1, <1>3, <2>1, <2>2 DEF IInv, ReferencesMatchOwners, Count
<1>6. ControlInv' /\ BatchInv' /\ CaptureInv' /\ MountsOutliveCapture'
  BY <1>1, <1>2 DEF IInv, ControlInv, BatchInv, CaptureInv, MountsOutliveCapture, Destructors
<1> QED
  BY <1>4, <1>5, <1>6 DEF IInv

LEMMA DeleteHostIInv == IInv /\ DeleteHost => IInv'
<1> SUFFICES ASSUME IInv, DeleteHost PROVE IInv'
  OBVIOUS
<1> DEFINE gone == IF watch THEN {"bus"} ELSE {}
<1>1. /\ pc = "deleteHost" /\ pc' = "exited" /\ refs' = Released(gone, attached)
      /\ attached' = attached \ {"bus"} /\ messages' = <<>>
      /\ watch' = FALSE /\ gst' \in {gst, "NULL"}
      /\ UNCHANGED <<back, initialized, stops, refused, mainLoop, context, running, pointers, batch>>
      /\ UNCHANGED <<pending, rtsp>>
  BY DEF DeleteHost, Goto, driver, Host!Destroy, Host!KeptDropped, Host!Cleanup
<1>2. /\ gone \in SUBSET Sources /\ ("bus" \in gone <=> watch) /\ gone \subseteq {"bus"}
      /\ attached = {} /\ pointers = {} /\ batch = {}
  BY <1>1 DEF Sources, IInv, ControlInv, BatchInv
<1> HIDE DEF gone
<1>3. /\ refs' \in [Sources \cup {"loop", "context"} -> Int]
      /\ \A o \in {"loop", "context"} : refs'[o] = refs[o]
      /\ \A o \in Sources \ gone : refs'[o] = refs[o]
      /\ \A o \in gone : refs'[o] = refs[o] - 1 - Count(o \in attached)
  BY <1>1, <1>2, ReleasedCounts
<1>4. OwnTypes'
  <2>1. messages' \in Seq(Messages) /\ Len(messages') <= MaxMessages
    BY <1>1, ApplicationAssumption
  <2>2. pc' \in Places
    BY <1>1 DEF Places, Ended
  <2> QED
    BY <1>1, <1>3, <2>1, <2>2 DEF IInv, OwnTypes
<1>5. ReferencesMatchOwners'
  <2>1. \A s \in Sources : refs'[s] = 0
    BY <1>2, <1>3 DEF IInv, ReferencesMatchOwners, Count
  <2> QED
    BY <1>1, <1>2, <1>3, <2>1 DEF IInv, ReferencesMatchOwners, Count
<1>6. ControlInv' /\ BatchInv' /\ CaptureInv' /\ MountsOutliveCapture'
  BY <1>1, <1>2 DEF IInv, ControlInv, BatchInv, CaptureInv, MountsOutliveCapture, Destructors
<1> QED
  BY <1>4, <1>5, <1>6 DEF IInv

(* Every step keeps the invariant.                                              *)
LEMMA NextIInv == IInv /\ [Next]_vars => IInv'
<1> SUFFICES ASSUME IInv, [Next]_vars PROVE IInv'
  OBVIOUS
<1>1. CASE UNCHANGED vars
  <2>1. /\ UNCHANGED <<pc, back, initialized, stops, refused, mainLoop, context, refs, running>>
        /\ UNCHANGED <<pointers, attached, batch, pending, messages, rtsp, watch, gst>>
    BY <1>1 DEF vars, driver, glib, events, host
  <2> QED
    BY <2>1, GlibUnchanged
    DEF IInv, OwnTypes, ControlInv, BatchInv, CaptureInv, MountsOutliveCapture
<1>2. CASE Initialize
  <2>1. CASE Install("SIGINT", "sigint", "sigterm") \/ Install("SIGTERM", "sigterm", "setSource")
    BY <2>1, InstallIInv DEF Signals
  <2> QED
    BY <1>2, <2>1, CreateContextIInv, AttachPipelineEventsIInv, AttachServerIInv, LoopIInv
    DEF Initialize
<1> QED
  BY <1>1, <1>2, LoopIInv, UnrefLoopIInv, FreeSourcesIInv, UnrefContextIInv, DeleteServerIInv,
     DeleteHostIInv
  DEF Next, Main

-----------------------------------------------------------------------------
(* The inductive invariant of the coordinator.                                  *)
THEOREM Invariance == Spec => []IInv
BY InitIInv, NextIInv, PTL DEF Spec

(* Every GLib reference is owned, whatever step of initialize() failed and      *)
(* however often stop() was called.                                             *)
THEOREM Ownership == Spec => []ReferencesMatchOwners
<1>1. IInv => ReferencesMatchOwners
  BY DEF IInv
<1> QED
  BY <1>1, Invariance, PTL

(* And at the exit nothing is left.                                             *)
THEOREM NothingIsLeft == Spec => []ExitReleasesEverything
<1>1. IInv => ExitReleasesEverything
  <2> SUFFICES ASSUME IInv, pc = "exited", NEW o \in DOMAIN refs PROVE refs[o] = 0
    BY DEF ExitReleasesEverything
  <2>1. ~mainLoop /\ ~context /\ pointers = {} /\ attached = {} /\ ~watch
    BY DEF IInv, ControlInv, Destructors
  <2>2. o \in Sources \cup {"loop", "context"}
    BY DEF IInv, OwnTypes
  <2> QED
    BY <2>1, <2>2 DEF IInv, ReferencesMatchOwners, Count
<1> QED
  BY <1>1, Invariance, PTL

(* The RTSP server's mounts are freed after the capture has left PLAYING.       *)
THEOREM CaptureIsOver == Spec => []MountsOutliveCapture
<1>1. IInv => MountsOutliveCapture
  BY DEF IInv
<1> QED
  BY <1>1, Invariance, PTL

-----------------------------------------------------------------------------
(* The host inside the coordinator is a ProfileHost: every step of the          *)
(* coordinator is one of the host or leaves it as it is.                        *)
THEOREM HostInside == Spec => Host!Spec
<1>1. Init => Host!Init
  BY DEF Init
<1>2. [Next]_vars => [Host!Next]_(Host!vars)
  <2> SUFFICES ASSUME [Next]_vars PROVE Host!Next \/ UNCHANGED Host!vars
    BY DEF Host!vars
  <2>1. UNCHANGED host => UNCHANGED Host!vars
    BY DEF host, Host!vars, Host!owned
  <2>2. CASE UNCHANGED vars
    BY <2>1, <2>2 DEF vars
  <2>3. CASE Initialize
    <3>1. CASE SetVideoSource \/ SetupPipeline \/ AttachPipelineEvents
      BY <3>1 DEF SetVideoSource, SetupPipeline, AttachPipelineEvents, Host!Next
    <3>2. CASE \/ CreateContext \/ ConstructServer \/ AttachServer
               \/ Install("SIGINT", "sigint", "sigterm") \/ Install("SIGTERM", "sigterm", "setSource")
      BY <2>1, <3>2 DEF CreateContext, ConstructServer, AttachServer, Install
    <3> QED
      BY <2>3, <3>1, <3>2 DEF Initialize
  <2>4. CASE Play \/ PauseHost \/ DeleteHost
    BY <2>1, <2>4 DEF Play, PauseHost, DeleteHost, Host!Next
  <2>5. CASE SetProfileEnabled
    BY <2>5 DEF SetProfileEnabled, Host!Next, Host!Profiles
  <2>6. CASE \/ Run \/ Iterate \/ OnBusMessage \/ EndIteration \/ LoopReturns
             \/ \E s \in Signals : OnUnixSignal(s) \/ SignalArrives(s)
             \/ \E k \in Messages : PostMessage(k)
             \/ Stop \/ UnrefLoop \/ Destroy \/ FreeSources \/ UnrefContext \/ DeleteServer
    BY <2>1, <2>6
    DEF Run, Iterate, OnBusMessage, EndIteration, LoopReturns, OnUnixSignal, SignalArrives,
        PostMessage, Stop, UnrefLoop, Destroy, FreeSources, UnrefContext, DeleteServer
  <2> QED
    BY <2>2, <2>3, <2>4, <2>5, <2>6 DEF Next, Main
<1> QED
  BY <1>1, <1>2, PTL DEF Spec, Host!Spec

HostProofs == INSTANCE ProfileHostProofs WITH MaxAttempts <- 1, refs <- hostRefs

(* So what is proved of a ProfileHost holds of the coordinator's. The two names  *)
(* of each definition of that module mean the same.                             *)
THEOREM HostInvariance == Spec => []Host!IInv
<1>1. HostProofs!Spec => []HostProofs!IInv
  BY HostProofs!Invariance, ApplicationAssumption
<1>2. Host!Init => HostProofs!Init
  BY Zenon DEF Host!Init, HostProofs!Init, Host!Profiles, HostProofs!Profiles,
      Host!Elements, HostProofs!Elements, Host!Chain, HostProofs!Chain
<1>3. [Host!Next]_(Host!vars) => [HostProofs!Next]_(HostProofs!vars)
  BY Zenon DEF Host!Profiles, HostProofs!Profiles, Host!Chain, HostProofs!Chain,
      Host!Elements, HostProofs!Elements, Host!Faults, HostProofs!Faults,
      Host!StateFor, HostProofs!StateFor, Host!Count, HostProofs!Count,
      Host!Cleanup, HostProofs!Cleanup, Host!SetVideoSource,
      HostProofs!SetVideoSource, Host!CanSetup, HostProofs!CanSetup, Host!Attempt,
      HostProofs!Attempt, Host!CreateFails, HostProofs!CreateFails,
      Host!LinkFails, HostProofs!LinkFails, Host!BinCounts, HostProofs!BinCounts,
      Host!CreateBins, HostProofs!CreateBins, Host!BinFails, HostProofs!BinFails,
      Host!PadFails, HostProofs!PadFails, Host!Succeeds, HostProofs!Succeeds,
      Host!SetupPipeline, HostProofs!SetupPipeline, Host!SetPipelineState,
      HostProofs!SetPipelineState, Host!Play, HostProofs!Play, Host!Stop,
      HostProofs!Stop, Host!SetProfileEnabled, HostProofs!SetProfileEnabled,
      Host!AttachBusWatch, HostProofs!AttachBusWatch, Host!DetachBusWatch,
      HostProofs!DetachBusWatch, Host!Destroy, HostProofs!Destroy,
      Host!KeptDropped, HostProofs!KeptDropped, Host!Next,
      HostProofs!Next, Host!owned, HostProofs!owned, Host!vars, HostProofs!vars
<1>4. HostProofs!IInv => Host!IInv
  BY Zenon DEF Host!IInv, HostProofs!IInv, Host!TypeOK, HostProofs!TypeOK,
      Host!HeldByOwners, HostProofs!HeldByOwners, Host!LossInv, HostProofs!LossInv,
      Host!LossNeedsRetry, HostProofs!LossNeedsRetry,
      Host!SetupAllOrNothing, HostProofs!SetupAllOrNothing, Host!LifeInv,
      HostProofs!LifeInv, Host!Profiles, HostProofs!Profiles, Host!Chain,
      HostProofs!Chain, Host!Elements, HostProofs!Elements, Host!Faults,
      HostProofs!Faults, Host!Count, HostProofs!Count
<1> QED
  BY <1>1, <1>2, <1>3, <1>4, HostInside, PTL DEF Host!Spec, HostProofs!Spec

(* Every variable keeps its type, those of the host too; no GLib object has     *)
(* more than two references.                                                    *)
THEOREM TypeCorrect == Spec => []TypeOK
<1>1. IInv => refs \in [Sources \cup {"loop", "context"} -> 0..2]
  <2> SUFFICES ASSUME IInv, NEW o \in Sources \cup {"loop", "context"} PROVE refs[o] \in 0..2
    BY DEF IInv, OwnTypes
  <2>1. \A b : Count(b) \in {0, 1}
    BY Zenon DEF Count
  <2>2. /\ refs["loop"] = Count(mainLoop) /\ refs["context"] = Count(context) + Count(mainLoop)
        /\ \A s \in Sources : refs[s] =
              Count(s \in pointers \/ (s = "bus" /\ watch)) + Count(s \in attached)
    BY DEF IInv, ReferencesMatchOwners
  <2>3. CASE o = "loop" \/ o = "context"
    BY <2>1, <2>2, <2>3
  <2>4. CASE o \in Sources
    BY <2>1, <2>2, <2>4
  <2> QED
    BY <2>3, <2>4
<1>2. IInv /\ Host!IInv => TypeOK
  BY <1>1 DEF IInv, OwnTypes, TypeOK, Host!IInv
<1> QED
  BY <1>2, Invariance, HostInvariance, PTL

(* The coordinator sets its host up once, so it never overwrites a branch's bin *)
(* (ProfileBin.cpp:31): what it may lose is what a missing factory leaves.      *)
THEOREM ProgramLosesNoBin == Spec => [](lost # {} => fault = "bin")
<1>1. Host!IInv => (lost # {} => fault = "bin")
  BY DEF Host!IInv, Host!TypeOK, Host!LossInv, Host!LossNeedsRetry
<1> QED
  BY <1>1, HostInvariance, PTL

(* Only the deletion of the host ends the program.                              *)
LEMMA NextExit == IInv /\ ExitInv /\ [Next]_vars => ExitInv'
<1> SUFFICES ASSUME IInv, ExitInv, [Next]_vars PROVE ExitInv'
  OBVIOUS
<1>1. CASE DeleteHost
  BY <1>1 DEF DeleteHost, Host!Destroy, Host!KeptDropped, ExitInv
<1>2. CASE SetVideoSource \/ SetupPipeline \/ AttachPipelineEvents \/ Play \/ PauseHost \/ SetProfileEnabled
  <2>1. pc' # "exited"
    BY <1>2 DEF SetVideoSource, SetupPipeline, AttachPipelineEvents, Play, PauseHost, SetProfileEnabled, Goto
  <2> QED
    BY <2>1 DEF ExitInv
<1>3. CASE UNCHANGED <<pc, host>>
  BY <1>3 DEF host, ExitInv
<1>4. CASE UNCHANGED host /\ pc' # "exited"
  BY <1>4 DEF host, ExitInv
<1>5. CASE CreateContext \/ ConstructServer \/ AttachServer
           \/ Install("SIGINT", "sigint", "sigterm") \/ Install("SIGTERM", "sigterm", "setSource")
  BY <1>4, <1>5 DEF CreateContext, ConstructServer, AttachServer, Install, Goto
<1>6. CASE \/ Run \/ Iterate \/ EndIteration \/ LoopReturns \/ Stop \/ Destroy
           \/ FreeSources \/ UnrefContext \/ DeleteServer
  BY <1>4, <1>6
  DEF Run, Iterate, EndIteration, LoopReturns, Stop, Destroy, FreeSources, UnrefContext, DeleteServer, Goto
<1>7. CASE OnBusMessage \/ (\E s \in Signals : OnUnixSignal(s)) \/ \E k \in Messages : PostMessage(k)
  BY <1>3, <1>7 DEF OnBusMessage, OnUnixSignal, PostMessage
<1>8. ASSUME NEW s \in Signals, SignalArrives(s) PROVE ExitInv'
  BY <1>8, <1>3, <1>4 DEF SignalArrives
<1>9. CASE UnrefLoop
  BY <1>4, <1>9 DEF UnrefLoop, Goto, IInv, OwnTypes
<1>10. CASE UNCHANGED vars
  BY <1>3, <1>10 DEF vars
<1> QED
  BY <1>1, <1>2, <1>5, <1>6, <1>7, <1>8, <1>9, <1>10 DEF Next, Main, Initialize

(* When the program exits nothing is left of GLib, of the pipeline or of its    *)
(* branches, whatever failed on the way, but for the two setups that say so.    *)
THEOREM NothingIsLeftOfHost == Spec => []ExitFreesPipeline
<1>1. Init => ExitInv
  BY DEF Init, Host!Init, ExitInv
<1>2. Spec => []ExitInv
  BY <1>1, NextExit, Invariance, PTL DEF Spec
<1>3. ASSUME ExitReleasesEverything, Host!IInv, ExitInv, lost # {} => fault = "bin"
      PROVE  ExitFreesPipeline
  <2> SUFFICES ASSUME pc = "exited"
               PROVE  /\ \A p \in 1..NumProfiles : binRefs[p] = 0
                      /\ fault # "link" => \A e \in DOMAIN hostRefs : hostRefs[e] = 0
                      /\ fault # "bin" => lost = {}
    BY <1>3 DEF ExitFreesPipeline
  <2>1. ~alive /\ ~linked /\ bin = {} /\ inside = {}
    BY <1>3 DEF ExitInv, Host!IInv, Host!LifeInv
  <2>2. ASSUME NEW p \in 1..NumProfiles PROVE binRefs[p] = 0
    BY <1>3, <2>1 DEF Host!IInv, Host!HeldByOwners, Host!Profiles, Host!Count
  <2>3. ASSUME fault # "link", NEW e \in DOMAIN hostRefs PROVE hostRefs[e] = 0
    <3>1. set = {} /\ e \in Host!Elements
      BY <1>3, <2>1, <2>3 DEF Host!IInv, Host!SetupAllOrNothing, Host!TypeOK
    <3> QED
      BY <1>3, <2>3, <3>1 DEF Host!IInv, Host!HeldByOwners, Host!Count
  <2> QED
    BY <1>3, <2>2, <2>3
<1> QED
  BY <1>2, <1>3, NothingIsLeft, HostInvariance, ProgramLosesNoBin, PTL

-----------------------------------------------------------------------------
(* Signals.  A step that changes neither the sources nor what is pending.       *)
LEMMA SignalUnchanged ==
    ASSUME SignalInv, UNCHANGED <<pointers, attached, pending>>,
           pc' \in {"play", "loop", "dispatch"} => mainLoop'
    PROVE  SignalInv'
BY DEF SignalInv

LEMMA NextSignal == IInv /\ SignalInv /\ [Next]_vars => SignalInv'
<1> SUFFICES ASSUME IInv, SignalInv, [Next]_vars PROVE SignalInv'
  OBVIOUS
<1>1. CASE UNCHANGED vars
  BY <1>1, SignalUnchanged DEF vars, glib, events, SignalInv
<1>2. CASE CreateContext \/ SetVideoSource \/ SetupPipeline \/ ConstructServer
  <2>1. UNCHANGED <<pointers, attached, pending>>
    BY <1>2 DEF CreateContext, SetVideoSource, SetupPipeline, ConstructServer, glib, events
  <2>2. pc' \notin {"play", "loop", "dispatch"}
    BY <1>2 DEF CreateContext, SetVideoSource, SetupPipeline, ConstructServer, Goto
  <2> QED
    BY <2>1, <2>2, SignalUnchanged
<1>3. CASE Install("SIGINT", "sigint", "sigterm") \/ Install("SIGTERM", "sigterm", "setSource")
  <2>1. PICK s \in Signals :
          /\ pc' \in {"sigterm", "setSource"} /\ pending' = pending
          /\ \/ pointers' = pointers \cup {s} /\ attached' = attached \cup {s}
             \/ UNCHANGED <<pointers, attached>>
    BY <1>3 DEF Install, Goto, Attach, events, Signals
  <2> QED
    BY <2>1 DEF SignalInv
<1>4. CASE AttachPipelineEvents \/ AttachServer
  <2>1. PICK o \in {"bus", "rtsp"} :
          /\ pc' \in {"attach", "client"} /\ pending' = pending
          /\ pointers' \in {pointers, pointers \cup {o}}
          /\ attached' \in {attached, attached \cup {o}}
    BY <1>4 DEF AttachPipelineEvents, AttachServer, Goto, Attach, events
  <2> QED
    BY <2>1 DEF SignalInv, Signals
<1>5. CASE Run \/ Play \/ Iterate \/ OnBusMessage \/ EndIteration \/ LoopReturns
  <2>1. UNCHANGED <<pointers, attached, pending, mainLoop>>
    BY <1>5 DEF Run, Play, Iterate, OnBusMessage, EndIteration, LoopReturns, glib, events
  <2>2. pc' \in {"play", "loop", "dispatch"} => mainLoop
    BY <1>5 DEF Run, Play, Iterate, OnBusMessage, EndIteration, LoopReturns, Goto, SignalInv
  <2> QED
    BY <2>1, <2>2, SignalUnchanged
<1>6. ASSUME NEW s \in Signals, OnUnixSignal(s) PROVE SignalInv'
  BY <1>6 DEF OnUnixSignal, SignalInv
<1>7. CASE SetProfileEnabled \/ Stop \/ PauseHost \/ UnrefLoop \/ Destroy
  <2>1. UNCHANGED <<pointers, attached, pending>>
    BY <1>7 DEF SetProfileEnabled, Stop, PauseHost, UnrefLoop, Destroy, glib, events
  <2>2. pc' \notin {"play", "loop", "dispatch"}
    BY <1>7 DEF SetProfileEnabled, Stop, PauseHost, UnrefLoop, Destroy, Goto, IInv, OwnTypes
  <2> QED
    BY <2>1, <2>2, SignalUnchanged
<1>8. CASE FreeSources \/ UnrefContext \/ DeleteServer \/ DeleteHost
  <2>1. pc \in Destructors /\ pc' \notin {"play", "loop", "dispatch"}
    BY <1>8 DEF FreeSources, UnrefContext, DeleteServer, DeleteHost, Goto, Destructors
  <2>2. CASE FreeSources
    BY <2>1, <2>2 DEF FreeSources, SignalInv
  <2>3. CASE ~FreeSources
    <3>1. pointers \cap Signals = {}
      BY <1>8, <2>3 DEF UnrefContext, DeleteServer, DeleteHost, Goto, IInv, ControlInv,
                        Destructors, Signals
    <3>2. pointers' \subseteq pointers /\ attached' \subseteq attached /\ pending' = pending
      BY <1>8, <2>3 DEF UnrefContext, DeleteServer, DeleteHost, events
    <3>3. pending = {}
      BY <3>1 DEF SignalInv, IInv, OwnTypes
    <3> QED
      BY <2>1, <3>1, <3>2, <3>3 DEF SignalInv
  <2> QED
    BY <2>2, <2>3
<1>9. ASSUME NEW s \in Signals, SignalArrives(s) PROVE SignalInv'
  <2>1. /\ UNCHANGED <<pointers, attached, mainLoop>>
        /\ pc' \in {pc, "killed"} /\ pending' \in {pending, pending \cup {s}}
        /\ pending' = pending \/ refs[s] > 0
    BY <1>9 DEF SignalArrives, glib
  <2>2. refs[s] > 0 => s \in attached
    <3>1. s \in Sources /\ s # "bus"
      BY DEF Sources, Signals
    <3>2. refs[s] = Count(s \in pointers \/ (s = "bus" /\ watch)) + Count(s \in attached)
      BY <3>1 DEF IInv, ReferencesMatchOwners
    <3>3. s \in pointers <=> s \in attached
      BY DEF SignalInv
    <3> QED
      BY <3>1, <3>2, <3>3 DEF Count
  <2> QED
    BY <2>1, <2>2 DEF SignalInv
<1>10. ASSUME NEW k \in Messages, PostMessage(k) PROVE SignalInv'
  BY <1>10, SignalUnchanged DEF PostMessage, glib, SignalInv
<1> QED
  BY <1>1, <1>2, <1>3, <1>4, <1>5, <1>6, <1>7, <1>8, <1>9, <1>10 DEF Next, Main, Initialize

THEOREM SignalInvariance == Spec => []SignalInv
<1>1. Init => SignalInv
  BY DEF Init, SignalInv
<1> QED
  BY <1>1, NextSignal, Invariance, PTL DEF Spec

(* A signal that GLib has caught is never swallowed: the loop that runs has it  *)
(* to dispatch, and it goes only where it stops that loop or in the destructor. *)
(* With the scheduling of the main thread this is why the program ends          *)
(* (CaughtSignalEndsProgram).                                                   *)
THEOREM NoSignalIsSwallowed == Spec => []SignalWakesLoop /\ SignalTakenStopsLoop
<1>1. SignalInv => SignalWakesLoop
  BY DEF SignalInv, SignalWakesLoop, Ready
<1>2. SignalInv /\ [Next]_vars => [pending \ pending' # {} => ~running' \/ pc = "sources"]_vars
  <2> SUFFICES ASSUME SignalInv, Next, pending \ pending' # {} PROVE ~running' \/ pc = "sources"
    OBVIOUS
  <2>1. CASE FreeSources
    BY <2>1 DEF FreeSources, Goto
  <2>2. ASSUME NEW s \in Signals, OnUnixSignal(s) PROVE ~running'
    BY <2>2 DEF OnUnixSignal, RequestStop, SignalInv
  <2>3. ASSUME NEW s \in Signals, SignalArrives(s) PROVE pending \subseteq pending'
    BY <2>3 DEF SignalArrives
  <2>4. ASSUME NEW k \in Messages, PostMessage(k) PROVE pending' = pending
    BY <2>4 DEF PostMessage
  <2>5. CASE Initialize
    BY <2>5 DEF Initialize, CreateContext, Install, SetVideoSource, SetupPipeline, ConstructServer,
                AttachPipelineEvents, AttachServer, events
  <2>6. CASE \/ SetProfileEnabled \/ Run \/ Play \/ Iterate \/ OnBusMessage \/ EndIteration
             \/ LoopReturns \/ Stop \/ PauseHost \/ UnrefLoop \/ Destroy \/ UnrefContext
             \/ DeleteServer \/ DeleteHost
    BY <2>6 DEF SetProfileEnabled, Run, Play, Iterate, OnBusMessage, EndIteration, LoopReturns,
                Stop, PauseHost, UnrefLoop, Destroy, UnrefContext, DeleteServer, DeleteHost, events
  <2> QED
    BY <2>1, <2>2, <2>3, <2>4, <2>5, <2>6 DEF Next, Main
<1> QED
  BY <1>1, <1>2, SignalInvariance, PTL DEF Spec, SignalTakenStopsLoop

(* No failure of the pipeline ends the loop: only the handler of a signal does. *)
THEOREM FailuresDoNotStopLoop == Spec => OnlySignalsStopLoop
<1>1. [Next]_vars => [running /\ ~running' => \E s \in Signals : OnUnixSignal(s)]_vars
  <2> SUFFICES ASSUME Next, ~\E s \in Signals : OnUnixSignal(s), running PROVE running'
    OBVIOUS
  <2>1. CASE Initialize
    BY <2>1 DEF Initialize, CreateContext, Install, SetVideoSource, SetupPipeline, ConstructServer,
                AttachPipelineEvents, AttachServer, glib
  <2>2. CASE Play
    BY <2>2 DEF Play
  <2>3. CASE ~Initialize /\ ~Play
    BY <2>3 DEF Next, Main, SetProfileEnabled, Run, Iterate, OnBusMessage, EndIteration, LoopReturns,
                Stop, PauseHost, UnrefLoop, Destroy, FreeSources, UnrefContext, DeleteServer,
                DeleteHost, SignalArrives, PostMessage, glib
  <2> QED
    BY <2>1, <2>2, <2>3
<1> QED
  BY <1>1, PTL DEF Spec, OnlySignalsStopLoop

-----------------------------------------------------------------------------
(* The server and its owner.  What the steps that concern the host do to the    *)
(* parts that the server's life depends on; the others leave the host alone.    *)
LEMMA HostParts ==
    ASSUME IInv, Host!IInv, [Next]_vars
    PROVE  /\ UNCHANGED <<linked, gst>>
              \/ (SetupPipeline \/ Play \/ PauseHost \/ DeleteHost)
           /\ SetupPipeline => gst = "NULL" /\ gst' = "NULL" /\ (linked' => fault' = "none")
           /\ Play => UNCHANGED linked /\ gst' \in {gst, "PLAYING"} /\ (gst' # gst => linked)
           /\ PauseHost => UNCHANGED linked /\ gst' \in {gst, "PAUSED"}
           /\ DeleteHost => linked' = FALSE /\ gst' \in {gst, "NULL"}
<1>1. /\ UNCHANGED <<linked, gst>>
         \/ (SetupPipeline \/ Play \/ PauseHost \/ DeleteHost)
  <2>1. CASE UNCHANGED vars
    BY <2>1 DEF vars, host
  <2>2. CASE Initialize
    BY <2>2 DEF Initialize, CreateContext, Install, SetVideoSource, ConstructServer,
                AttachPipelineEvents, AttachServer, Host!SetVideoSource, Host!AttachBusWatch,
                Host!owned, host
  <2>3. CASE SetProfileEnabled \/ (\E s \in Signals : OnUnixSignal(s) \/ SignalArrives(s))
             \/ \E k \in Messages : PostMessage(k)
    BY <2>3 DEF SetProfileEnabled, OnUnixSignal, SignalArrives, PostMessage,
                Host!SetProfileEnabled, host
  <2>4. CASE \/ Run \/ Iterate \/ OnBusMessage \/ EndIteration \/ LoopReturns
             \/ Stop \/ UnrefLoop \/ Destroy \/ FreeSources \/ UnrefContext \/ DeleteServer
    BY <2>4 DEF Run, Iterate, OnBusMessage, EndIteration, LoopReturns, Stop, UnrefLoop, Destroy,
                FreeSources, UnrefContext, DeleteServer, host
  <2> QED
    BY <2>1, <2>2, <2>3, <2>4 DEF Next, Main
<1>2. SetupPipeline => gst = "NULL" /\ gst' = "NULL" /\ (linked' => fault' = "none")
  <2> SUFFICES ASSUME SetupPipeline
               PROVE  gst = "NULL" /\ gst' = "NULL" /\ (linked' => fault' = "none")
    OBVIOUS
  <2>1. Host!CanSetup
    BY DEF SetupPipeline, Host!SetupPipeline, Host!CreateFails, Host!LinkFails, Host!BinFails,
           Host!PadFails, Host!Succeeds, Host!Attempt
  <2>2. ~linked
    BY <2>1 DEF Host!CanSetup, Host!IInv, Host!SetupAllOrNothing, Host!Elements
  <2>3. gst = "NULL"
    BY <2>2 DEF Host!IInv, Host!LifeInv
  <2>4. gst' \in {gst, "NULL"}
    BY DEF SetupPipeline, Host!SetupPipeline, Host!CreateFails, Host!LinkFails, Host!BinFails,
           Host!PadFails, Host!Succeeds, Host!Cleanup
  <2>5. linked' => fault' = "none"
    BY <2>2 DEF SetupPipeline, Host!SetupPipeline, Host!CreateFails, Host!LinkFails, Host!BinFails,
                Host!PadFails, Host!Succeeds, Host!Cleanup, Host!Attempt
  <2> QED
    BY <2>3, <2>4, <2>5
<1>3. Play => UNCHANGED linked /\ gst' \in {gst, "PLAYING"} /\ (gst' # gst => linked)
  BY DEF Play, Host!Play, Host!SetPipelineState, host
<1>4. PauseHost => UNCHANGED linked /\ gst' \in {gst, "PAUSED"}
  BY DEF PauseHost, Host!Stop, Host!SetPipelineState, host
<1>5. DeleteHost => linked' = FALSE /\ gst' \in {gst, "NULL"}
  BY DEF DeleteHost, Host!Destroy, Host!KeptDropped, Host!Cleanup
<1> QED
  BY <1>1, <1>2, <1>3, <1>4, <1>5

LEMMA NextServer == IInv /\ Host!IInv /\ ServerInv /\ [Next]_vars => ServerInv'
<1> SUFFICES ASSUME IInv, Host!IInv, ServerInv, [Next]_vars PROVE ServerInv'
  OBVIOUS
<1>1. CASE UNCHANGED vars
  BY <1>1 DEF vars, driver, glib, host, ServerInv
<1>2. CASE SetupPipeline
  <2>1. /\ pc = "setup" /\ pc' = IF fault' = "none" THEN "construct" ELSE "client"
        /\ UNCHANGED <<initialized, refused, pointers, rtsp>>
    BY <1>2 DEF SetupPipeline, driver, glib
  <2>2. gst = "NULL" /\ gst' = "NULL" /\ (linked' => fault' = "none")
    BY <1>2, HostParts
  <2> QED
    BY <2>1, <2>2 DEF ServerInv, Ended
<1>3. CASE Play \/ PauseHost \/ DeleteHost
  <2>1. UNCHANGED <<initialized, rtsp, pointers>> /\ pc \in {"play", "pause", "deleteHost"}
    BY <1>3 DEF Play, PauseHost, DeleteHost, Goto, driver, glib
  <2>2. \/ UNCHANGED linked /\ pc' \in {"loop", "unrefLoop"}
        \/ linked' = FALSE /\ pc' = "exited"
    BY <1>3, HostParts DEF Play, PauseHost, DeleteHost, Goto
  <2>3. refused' => gst' = "PLAYING" \/ pc' \in Ended
    <3>1. CASE Play
      BY <3>1, HostParts DEF Play, Goto, ServerInv, Ended
    <3>2. CASE PauseHost
      BY <3>2 DEF PauseHost
    <3>3. CASE DeleteHost
      BY <3>3 DEF DeleteHost, Goto, Ended
    <3> QED
      BY <1>3, <3>1, <3>2, <3>3
  <2> QED
    BY <2>1, <2>2, <2>3 DEF ServerInv
<1>4. CASE ~SetupPipeline /\ ~Play /\ ~PauseHost /\ ~DeleteHost /\ Next
  <2>1. UNCHANGED <<linked, gst>>
    BY <1>4, HostParts
  <2>2. CASE CreateContext \/ SetVideoSource
    BY <2>1, <2>2 DEF CreateContext, SetVideoSource, Goto, driver, glib, ServerInv, Ended
  <2>3. CASE Install("SIGINT", "sigint", "sigterm") \/ Install("SIGTERM", "sigterm", "setSource")
    <3>1. /\ pc \in {"sigint", "sigterm"} /\ pc' \in {"sigterm", "setSource"}
          /\ UNCHANGED <<initialized, refused, rtsp>>
          /\ pointers' \subseteq pointers \cup Signals
      BY <2>3 DEF Install, Goto, driver, Signals
    <3> QED
      BY <2>1, <3>1 DEF ServerInv, Ended, Signals
  <2>4. CASE ConstructServer \/ AttachPipelineEvents \/ AttachServer
    <3>1. initialized
      BY <2>4 DEF ConstructServer, AttachPipelineEvents, AttachServer, Goto, IInv, ControlInv
    <3>2. /\ rtsp' = "there" /\ UNCHANGED <<initialized, refused>>
          /\ pc \notin Ended /\ pc' \in {"watch", "attach", "client"}
      BY <2>4 DEF ConstructServer, AttachPipelineEvents, AttachServer, Goto, driver, ServerInv, Ended
    <3> QED
      BY <2>1, <3>1, <3>2 DEF ServerInv, Ended
  <2>5. CASE SetProfileEnabled \/ Run \/ Iterate \/ OnBusMessage \/ EndIteration \/ LoopReturns \/ Stop
             \/ UnrefLoop \/ Destroy \/ \E s \in Signals : OnUnixSignal(s)
    <3>1. UNCHANGED <<initialized, refused, rtsp, pointers>>
      BY <2>5 DEF SetProfileEnabled, Run, Iterate, OnBusMessage, EndIteration, LoopReturns, Stop,
                  UnrefLoop, Destroy, OnUnixSignal, driver, glib
    <3>2. /\ pc \notin Ended \cup {"sigint", "sigterm", "setSource", "setup", "construct", "watch", "attach"}
          /\ pc' \notin Ended \cup {"sigint", "sigterm", "setSource", "setup", "construct", "watch", "attach"}
      BY <2>5 DEF SetProfileEnabled, Run, Iterate, OnBusMessage, EndIteration, LoopReturns, Stop,
                  UnrefLoop, Destroy, OnUnixSignal, Goto, Ended, IInv, OwnTypes
    <3> QED
      BY <2>1, <3>1, <3>2 DEF ServerInv, Ended
  <2>6. CASE FreeSources \/ UnrefContext
    BY <2>1, <2>6 DEF FreeSources, UnrefContext, Goto, driver, ServerInv, Ended
  <2>7. CASE DeleteServer
    <3>1. /\ pc = "deleteServer" /\ pc' = "deleteHost" /\ pointers' = pointers \ {"rtsp"}
          /\ rtsp' = (IF rtsp = "there" THEN "deleted" ELSE rtsp)
          /\ UNCHANGED <<initialized, refused>>
      BY <2>7 DEF DeleteServer, Goto, driver
    <3> QED
      BY <2>1, <3>1 DEF ServerInv, Ended
  <2>8. CASE (\E s \in Signals : SignalArrives(s)) \/ \E k \in Messages : PostMessage(k)
    BY <2>1, <2>8 DEF SignalArrives, PostMessage, driver, glib, ServerInv, Ended
  <2> QED
    BY <1>4, <2>2, <2>3, <2>4, <2>5, <2>6, <2>7, <2>8 DEF Next, Main, Initialize
<1> QED
  BY <1>1, <1>2, <1>3, <1>4

THEOREM ServerInvariance == Spec => []ServerInv
<1>1. Init => ServerInv
  BY DEF Init, Host!Init, ServerInv
<1> QED
  BY <1>1, NextServer, Invariance, HostInvariance, PTL DEF Spec

(* The coordinator keeps its part of the contract with the RTSP server: it      *)
(* plays and listens only while the server is there, and deletes it when the    *)
(* capture has stopped playing or GStreamer would not stop it.                  *)
THEOREM OwnerKeepsContract == Spec => KeepsServerLife
<1>1. Init => Life!Init
  BY DEF Init, Host!Init, Life!Init
<1>2. ASSUME IInv, Host!IInv, ServerInv, [Next]_vars
      PROVE  [Life!Next]_(Life!vars)
  <2> SUFFICES Life!Next \/ UNCHANGED Life!vars
    OBVIOUS
  <2>1. UNCHANGED <<rtsp, pointers, gst, refused>> => UNCHANGED Life!vars
    BY DEF Life!vars
  <2>2. CASE UNCHANGED vars
    BY <1>2, <2>1, <2>2 DEF vars, glib, host
  <2>3. CASE SetupPipeline
    <3>1. UNCHANGED <<rtsp, pointers, refused>> /\ gst = "NULL" /\ gst' = "NULL"
      BY <1>2, <2>3, HostParts DEF SetupPipeline, glib
    <3> QED
      BY <2>1, <3>1
  <2>4. CASE Play
    <3>1. /\ UNCHANGED <<rtsp, pointers, refused>>
          /\ gst' = gst \/ (gst' = "PLAYING" /\ linked)
      BY <1>2, <2>4, HostParts DEF Play, glib
    <3>2. CASE gst' = gst
      BY <2>1, <3>1, <3>2
    <3>3. CASE gst' # gst
      <4>1. rtsp = "there" /\ ~refused
        BY <1>2, <2>4, <3>1, <3>3
        DEF Play, Goto, ServerInv, IInv, CaptureInv, OwnTypes, Ended
      <4> QED
        BY <3>1, <3>3, <4>1 DEF Life!Next, Life!Play
    <3> QED
      BY <3>2, <3>3
  <2>5. CASE PauseHost
    <3>1. /\ UNCHANGED <<rtsp, pointers>> /\ gst' \in {gst, "PAUSED"}
          /\ refused' = (gst' = "PLAYING")
      BY <1>2, <2>5, HostParts DEF PauseHost, glib
    <3>2. CASE gst # "PLAYING"
      <4>1. gst' # "PLAYING" /\ ~refused'
        BY <3>1, <3>2
      <4> QED
        BY <3>1, <3>2, <4>1 DEF Life!vars
    <3>3. CASE gst = "PLAYING"
      BY <3>1, <3>3 DEF Life!Next, Life!Pause
    <3> QED
      BY <3>2, <3>3
  <2>6. CASE DeleteHost
    <3>1. /\ UNCHANGED <<rtsp, pointers, refused>> /\ gst' \in {gst, "NULL"}
      BY <1>2, <2>6, HostParts DEF DeleteHost
    <3>2. CASE gst # "PLAYING"
      <4>1. gst' # "PLAYING"
        BY <3>1, <3>2
      <4> QED
        BY <3>1, <3>2, <4>1 DEF Life!vars
    <3>3. CASE gst = "PLAYING"
      BY <2>1, <3>1, <3>3 DEF Life!Next, Life!Pause
    <3> QED
      BY <3>2, <3>3
  <2>7. CASE ~SetupPipeline /\ ~Play /\ ~PauseHost /\ ~DeleteHost /\ Next
    <3>1. UNCHANGED gst
      BY <1>2, <2>7, HostParts
    <3>2. CASE CreateContext \/ SetVideoSource \/ AttachPipelineEvents
      BY <2>1, <3>1, <3>2 DEF CreateContext, SetVideoSource, AttachPipelineEvents, glib
    <3>3. CASE Install("SIGINT", "sigint", "sigterm") \/ Install("SIGTERM", "sigterm", "setSource")
      <4>1. UNCHANGED <<rtsp, refused>> /\ ("rtsp" \in pointers' <=> "rtsp" \in pointers)
        BY <3>3 DEF Install
      <4> QED
        BY <3>1, <4>1 DEF Life!vars
    <3>4. CASE ConstructServer
      <4>1. rtsp = "none" /\ rtsp' = "there" /\ UNCHANGED <<pointers, refused>>
        BY <1>2, <3>4 DEF ConstructServer, Goto, ServerInv, glib
      <4> QED
        BY <3>1, <4>1 DEF Life!Next, Life!Construct
    <3>5. CASE AttachServer
      <4>1. rtsp = "there" /\ UNCHANGED <<rtsp, refused>> /\ pointers' \in {pointers, pointers \cup {"rtsp"}}
        BY <1>2, <3>5 DEF AttachServer, Goto, ServerInv
      <4>2. CASE pointers' = pointers
        BY <2>1, <3>1, <4>1, <4>2
      <4>3. CASE "rtsp" \in pointers'
        <5>1. Life!Listen(TRUE)
          BY <3>1, <4>1, <4>3 DEF Life!Listen
        <5> QED
          BY <5>1 DEF Life!Next
      <4> QED
        BY <4>1, <4>2, <4>3
    <3>6. CASE SetProfileEnabled \/ Run \/ Iterate \/ OnBusMessage \/ EndIteration \/ LoopReturns \/ Stop
               \/ UnrefLoop \/ Destroy \/ \E s \in Signals : OnUnixSignal(s)
      BY <2>1, <3>1, <3>6
      DEF SetProfileEnabled, Run, Iterate, OnBusMessage, EndIteration, LoopReturns, Stop, UnrefLoop,
          Destroy, OnUnixSignal, glib
    <3>7. CASE FreeSources \/ UnrefContext
      <4>1. UNCHANGED <<rtsp, refused>> /\ ("rtsp" \in pointers' <=> "rtsp" \in pointers)
        BY <3>7 DEF FreeSources, UnrefContext, Signals
      <4> QED
        BY <3>1, <4>1 DEF Life!vars
    <3>8. CASE DeleteServer
      <4>1. /\ pc = "deleteServer" /\ pointers' = pointers \ {"rtsp"} /\ refused' = refused
            /\ rtsp' = (IF rtsp = "there" THEN "deleted" ELSE rtsp)
        BY <3>8 DEF DeleteServer, Goto
      <4>2. gst # "PLAYING" \/ refused
        BY <1>2, <4>1 DEF IInv, CaptureInv, Destructors
      <4>3. CASE rtsp = "there"
        BY <3>1, <4>1, <4>2, <4>3 DEF Life!Next, Life!Delete
      <4>4. CASE rtsp # "there"
        BY <1>2, <3>1, <4>1, <4>4 DEF ServerInv, Life!vars
      <4> QED
        BY <4>3, <4>4
    <3>9. CASE (\E s \in Signals : SignalArrives(s)) \/ \E k \in Messages : PostMessage(k)
      BY <2>1, <3>1, <3>9 DEF SignalArrives, PostMessage, glib
    <3> QED
      BY <2>7, <3>2, <3>3, <3>4, <3>5, <3>6, <3>7, <3>8, <3>9 DEF Next, Main, Initialize
  <2> QED
    BY <1>2, <2>2, <2>3, <2>4, <2>5, <2>6, <2>7
<1> QED
  BY <1>1, <1>2, Invariance, HostInvariance, ServerInvariance, PTL DEF Spec, KeepsServerLife, Life!Spec

=============================================================================
