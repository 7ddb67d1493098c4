------------------------------ MODULE Application ------------------------------
(* The coordinator's life on the main thread (server/Application.cpp, main.cpp): *)
(* construction, initialize() step by step, run(), stop(), destruction; and who *)
(* owns the GLib objects, by reference count, on every path.  Signals arrive    *)
(* and bus messages are posted between any two steps.  m_host is ProfileHost.   *)
(*                                                                              *)
(* External: a GLib context holds a reference of each source attached to it,    *)
(* its loop one of the context; one iteration dispatches every source that was  *)
(* ready when it began.  A signal without a GLib source kills the process.      *)
EXTENDS Integers, Sequences

CONSTANTS
    NumProfiles,   \* the length of the catalogue
    MaxStops,      \* bound: explicit calls of stop(), as the tests make them
    MaxMessages    \* bound: messages that wait on the bus

ASSUME ApplicationAssumption ==
    NumProfiles \in Nat \ {0} /\ MaxStops \in Nat /\ MaxMessages \in Nat

Signals == {"SIGINT", "SIGTERM"}
Sources == Signals \cup {"bus", "rtsp"}
Messages == {"error", "eos", "warning"}
Ended == {"exited", "killed"}

VARIABLES
    pc,           \* the statement the main thread is about to execute
    back,         \* where the stop() that is running returns to
    initialized,  \* initialize() was called, whatever it returned
    stops,        \* explicit calls of stop()
    refused,      \* the last host.stop() did not leave PLAYING
    mainLoop,     \* m_mainLoop is set
    context,      \* m_context is set
    refs,         \* references to "loop", "context" and each source
    running,      \* the loop's is_running
    pointers,     \* m_sigintSource, m_sigtermSource, m_rtsp's m_source: those set
    attached,     \* the sources the context iterates
    batch,        \* the sources this iteration has yet to dispatch
    pending,      \* signals that GLib caught and has not dispatched
    messages,     \* the pipeline's bus
    rtsp,         \* m_rtsp: not yet made, there, or deleted
    \* m_host, with the names of ProfileHost
    alive, source, attempts, fault, set, hostRefs, filled, linked,
    bin, binRefs, inside, lost, closed, state, gst, watch

Host == INSTANCE ProfileHost WITH MaxAttempts <- 1, refs <- hostRefs

host == <<alive, source, attempts, fault, set, hostRefs, filled, linked,
          bin, binRefs, inside, lost, closed, state, gst, watch>>
driver == <<initialized, stops>>
glib == <<mainLoop, context, refs, running, pointers, attached, batch>>
events == <<pending, messages>>
vars == <<pc, back, refused, driver, glib, events, rtsp, host>>

Places == Ended \cup {"client", "sigint", "sigterm", "setSource", "setup", "construct",
    "watch", "attach", "play", "loop", "dispatch", "pause", "unrefLoop", "sources",
    "context", "deleteServer", "deleteHost"}

TypeOK ==
    /\ pc \in Places /\ back \in {"client", "sources"}
    /\ initialized \in BOOLEAN /\ stops \in 0..MaxStops /\ refused \in BOOLEAN
    /\ mainLoop \in BOOLEAN /\ context \in BOOLEAN /\ running \in BOOLEAN
    /\ refs \in [Sources \cup {"loop", "context"} -> 0..2]
    /\ pointers \subseteq Sources \ {"bus"}
    /\ attached \subseteq Sources /\ batch \subseteq Sources
    /\ pending \subseteq Signals
    /\ messages \in Seq(Messages) /\ Len(messages) <= MaxMessages
    /\ rtsp \in {"none", "there", "deleted"}
    /\ Host!TypeOK

(* The constructor reported every profile off, before any element existed.     *)
Init ==
    /\ pc = "client" /\ back = "client"
    /\ initialized = FALSE /\ stops = 0 /\ refused = FALSE
    /\ mainLoop = FALSE /\ context = FALSE /\ running = FALSE
    /\ refs = [o \in Sources \cup {"loop", "context"} |-> 0]
    /\ pointers = {} /\ attached = {} /\ batch = {}
    /\ pending = {} /\ messages = <<>>
    /\ rtsp = "none"
    /\ Host!Init

Goto(from, to) == pc = from /\ pc' = to

-----------------------------------------------------------------------------
(* initialize(): a step that fails returns to the caller, who goes on.          *)
CreateContext ==
    /\ Goto("client", "sigint")
    /\ ~initialized /\ stops = 0
    /\ initialized' = TRUE
    /\ context' = TRUE
    /\ mainLoop' = TRUE
    /\ refs' = [refs EXCEPT !["context"] = 2, !["loop"] = 1]
    /\ UNCHANGED <<back, stops, refused, running, pointers, attached, batch, events, rtsp, host>>

(* A source that is attached has two references, ours and the context's.       *)
Attach(s) ==
    /\ attached' = attached \cup {s}
    /\ refs' = [refs EXCEPT ![s] = 2]

InstallUnattached(s, from, to) ==
    /\ Goto(from, to)
    /\ pointers' = pointers \cup {s}
    /\ refs' = [refs EXCEPT ![s] = 1]
    /\ UNCHANGED <<back, driver, refused, mainLoop, context, attached, running, batch>>
    /\ UNCHANGED <<events, rtsp, host>>

(* attachSignalSource; a source that cannot be made leaves the default action. *)
Install(s, from, to) ==
    /\ Goto(from, to)
    /\ \/ pointers' = pointers \cup {s} /\ Attach(s)
       \/ UNCHANGED <<pointers, attached, refs>>
    /\ UNCHANGED <<back, driver, refused, mainLoop, context, running, batch>>
    /\ UNCHANGED <<events, rtsp, host>>

SetVideoSource ==
    /\ Goto("setSource", "setup")
    /\ Host!SetVideoSource
    /\ UNCHANGED <<back, driver, refused, glib, events, rtsp>>

SetupPipeline ==
    /\ pc = "setup"
    /\ Host!SetupPipeline
    /\ pc' = IF fault' = "none" THEN "construct" ELSE "client"
    /\ UNCHANGED <<back, driver, refused, glib, events, rtsp>>

ConstructServer ==
    /\ Goto("construct", "watch")
    /\ rtsp' = "there"
    /\ UNCHANGED <<back, driver, refused, glib, events, host>>

AttachPipelineEvents ==
    /\ Goto("watch", "attach")
    /\ Host!AttachBusWatch
    /\ Attach("bus")
    /\ UNCHANGED <<back, driver, refused, mainLoop, context, running, pointers, batch>>
    /\ UNCHANGED <<events, rtsp>>

(* The port may be taken.                                                      *)
AttachServer ==
    /\ Goto("attach", "client")
    /\ \/ pointers' = pointers \cup {"rtsp"} /\ Attach("rtsp")
       \/ UNCHANGED <<pointers, attached, refs>>
    /\ UNCHANGED <<back, driver, refused, mainLoop, context, running, batch>>
    /\ UNCHANGED <<events, rtsp, host>>

Initialize ==
    \/ CreateContext
    \/ Install("SIGINT", "sigint", "sigterm") \/ Install("SIGTERM", "sigterm", "setSource")
    \/ SetVideoSource \/ SetupPipeline \/ ConstructServer
    \/ AttachPipelineEvents \/ AttachServer

-----------------------------------------------------------------------------
(* main() switches a profile on before run(), the tests at other times too.    *)
SetProfileEnabled ==
    /\ pc = "client"
    /\ \E p \in 1..NumProfiles, enabled \in BOOLEAN : Host!SetProfileEnabled(p, enabled)
    /\ UNCHANGED <<pc, back, driver, refused, glib, events, rtsp>>

(* run(): play() may be refused and the loop runs all the same.                 *)
Run ==
    /\ Goto("client", "play")
    /\ initialized /\ mainLoop /\ stops = 0
    /\ UNCHANGED <<back, driver, refused, glib, events, rtsp, host>>

Play ==
    /\ Goto("play", "loop")
    /\ IF linked THEN Host!Play ELSE UNCHANGED host
    /\ running' = TRUE
    /\ UNCHANGED <<back, driver, refused, mainLoop, context, refs, pointers, attached, batch>>
    /\ UNCHANGED <<events, rtsp>>

Ready == attached \cap (pending \cup IF messages # <<>> THEN {"bus"} ELSE {})

Iterate ==
    /\ Goto("loop", "dispatch")
    /\ running
    /\ Ready # {}
    /\ batch' = Ready
    /\ UNCHANGED <<back, driver, refused, mainLoop, context, refs, running, pointers, attached>>
    /\ UNCHANGED <<events, rtsp, host>>

RequestStopIfPlaying == running' = (running /\ ~(mainLoop /\ gst = "PLAYING"))

(* requestStop(), called from the handlers of the sources of the context.      *)
RequestStop == running' = (running /\ ~mainLoop)

OnUnixSignal(s) ==
    /\ pc = "dispatch" /\ s \in batch \cap Signals
    /\ batch' = batch \ {s}
    /\ pending' = pending \ {s}
    /\ RequestStop
    /\ UNCHANGED <<pc, back, driver, refused, mainLoop, context, refs, pointers, attached>>
    /\ UNCHANGED <<messages, rtsp, host>>

(* The watch pops a message and calls GstBusFunc(bus, message, data);           *)
(* onBusMessageStatic is a GSourceFunc and takes the bus for its ProfileHost.   *)
(* What it reads as m_busSource is a reserved, zero word of the GstBus (64-bit, *)
(* libstdc++): it returns, and no event reaches onPipelineEvent.               *)
OnBusMessage ==
    /\ pc = "dispatch" /\ "bus" \in batch
    /\ batch' = batch \ {"bus"}
    /\ messages' = Tail(messages)
    /\ UNCHANGED <<pc, back, driver, refused, mainLoop, context, refs, pointers, attached>>
    /\ UNCHANGED <<running, pending, rtsp, host>>

EndIteration ==
    /\ Goto("dispatch", "loop")
    /\ batch = {}
    /\ UNCHANGED <<back, driver, refused, glib, events, rtsp, host>>

LoopReturns ==
    /\ Goto("loop", "pause")
    /\ ~running
    /\ back' = "client"
    /\ UNCHANGED <<driver, refused, glib, events, rtsp, host>>

-----------------------------------------------------------------------------
(* stop(): called by the driver, by run() and by the destructor.                *)
Stop ==
    /\ Goto("client", "pause")
    /\ stops < MaxStops
    /\ stops' = stops + 1
    /\ back' = "client"
    /\ UNCHANGED <<initialized, refused, glib, events, rtsp, host>>

PauseWhileRunning ==
    /\ Goto("pause", "unrefLoop")
    /\ IF linked /\ running THEN Host!Stop ELSE UNCHANGED host
    /\ refused' = (running /\ gst' = "PLAYING")
    /\ UNCHANGED <<back, driver, glib, events, rtsp>>

PauseHost ==
    /\ Goto("pause", "unrefLoop")
    /\ IF linked THEN Host!Stop ELSE UNCHANGED host
    /\ refused' = (gst' = "PLAYING")
    /\ UNCHANGED <<back, driver, glib, events, rtsp>>

UnrefLoopOnce ==
    /\ Goto("unrefLoop", back)
    /\ refs' = IF mainLoop THEN [refs EXCEPT !["loop"] = @ - 1, !["context"] = @ - 1]
               ELSE refs
    /\ UNCHANGED <<back, driver, refused, mainLoop, context, running, pointers, attached, batch>>
    /\ UNCHANGED <<events, rtsp, host>>

(* The last reference of the loop goes, and with it the loop's context ref.    *)
UnrefLoop ==
    /\ Goto("unrefLoop", back)
    /\ refs' = IF mainLoop THEN [refs EXCEPT !["loop"] = @ - 1, !["context"] = @ - 1]
               ELSE refs
    /\ mainLoop' = FALSE
    /\ UNCHANGED <<back, driver, refused, context, running, pointers, attached, batch>>
    /\ UNCHANGED <<events, rtsp, host>>

-----------------------------------------------------------------------------
(* ~Application(): stop(), the signal sources, the context; then the members in *)
(* reverse, m_rtsp and m_host.                                                  *)
Destroy ==
    /\ Goto("client", "pause")
    /\ back' = "sources"
    /\ UNCHANGED <<driver, refused, glib, events, rtsp, host>>

(* g_source_destroy takes the source off its context, g_source_unref drops the  *)
(* creation reference.                                                          *)
Released(set_, from) == [o \in DOMAIN refs |->
    refs[o] - (IF o \in set_ THEN 1 ELSE 0) - (IF o \in set_ \cap from THEN 1 ELSE 0)]

FreeSources ==
    /\ Goto("sources", "context")
    /\ refs' = Released(pointers \cap Signals, attached)
    /\ pointers' = pointers \ Signals
    /\ attached' = attached \ (pointers \cap Signals)
    /\ pending' = {}
    /\ UNCHANGED <<back, driver, refused, mainLoop, context, running, batch>>
    /\ UNCHANGED <<messages, rtsp, host>>

(* A context that is freed lets go of the sources that are still attached.     *)
UnrefContext ==
    /\ Goto("context", "deleteServer")
    /\ LET freed == context /\ refs["context"] = 1
       IN  /\ refs' = [o \in DOMAIN refs |->
                 refs[o] - (IF o = "context" /\ context THEN 1 ELSE 0)
                         - (IF freed /\ o \in attached THEN 1 ELSE 0)]
           /\ attached' = IF freed THEN {} ELSE attached
    /\ context' = FALSE
    /\ UNCHANGED <<back, driver, refused, mainLoop, running, pointers, batch>>
    /\ UNCHANGED <<events, rtsp, host>>

DeleteServer ==
    /\ Goto("deleteServer", "deleteHost")
    /\ rtsp' = IF rtsp = "there" THEN "deleted" ELSE rtsp
    /\ refs' = Released(pointers \cap {"rtsp"}, attached)
    /\ pointers' = pointers \ {"rtsp"}
    /\ attached' = attached \ {"rtsp"}
    /\ UNCHANGED <<back, driver, refused, mainLoop, context, running, batch, events, host>>

DeleteHostIfLinked ==
    /\ Goto("deleteHost", "exited")
    /\ IF linked THEN Host!Destroy ELSE UNCHANGED host
    /\ refs' = Released(IF watch THEN {"bus"} ELSE {}, attached)
    /\ attached' = attached \ {"bus"}
    /\ messages' = <<>>
    /\ UNCHANGED <<back, driver, refused, mainLoop, context, running, pointers, batch>>
    /\ UNCHANGED <<pending, rtsp>>

DeleteHost ==
    /\ Goto("deleteHost", "exited")
    /\ Host!Destroy
    /\ refs' = Released(IF watch THEN {"bus"} ELSE {}, attached)
    /\ attached' = attached \ {"bus"}
    /\ messages' = <<>>
    /\ UNCHANGED <<back, driver, refused, mainLoop, context, running, pointers, batch>>
    /\ UNCHANGED <<pending, rtsp>>

-----------------------------------------------------------------------------
(* The surroundings.                                                            *)
SignalArrives(s) ==
    /\ pc \notin Ended
    /\ IF refs[s] > 0 THEN pending' = pending \cup {s} /\ UNCHANGED pc
       ELSE pc' = "killed" /\ UNCHANGED pending
    /\ UNCHANGED <<back, driver, refused, glib, messages, rtsp, host>>

PostMessage(k) ==
    /\ pc \notin Ended
    /\ gst # "NULL" /\ Len(messages) < MaxMessages
    /\ messages' = Append(messages, k)
    /\ UNCHANGED <<pc, back, driver, refused, glib, pending, rtsp, host>>

Main ==
    \/ Initialize
    \/ Run \/ Play \/ Iterate \/ OnBusMessage \/ EndIteration \/ LoopReturns
    \/ \E s \in Signals : OnUnixSignal(s)
    \/ Stop \/ PauseHost \/ UnrefLoop
    \/ Destroy \/ FreeSources \/ UnrefContext \/ DeleteServer \/ DeleteHost

Next ==
    \/ Main
    \/ SetProfileEnabled
    \/ \E s \in Signals : SignalArrives(s)
    \/ \E k \in Messages : PostMessage(k)

Spec == Init /\ [][Next]_vars

(* The main thread is scheduled, and the driver does not switch profiles for    *)
(* ever instead of going on.  Nothing is assumed of signals, messages, viewers. *)
FairSpec == Spec /\ WF_vars(Main)

-----------------------------------------------------------------------------
(* Every reference to a GLib object is owned: the loop and the context by their *)
(* pointers, the context by its loop too, a source by the pointer that made it  *)
(* and by the context it is on.  So no step that fails in initialize(), and no  *)
(* number of calls of stop(), frees one twice (Application.cpp:34-47,105-110).  *)
Count(b) == IF b THEN 1 ELSE 0

ReferencesMatchOwners ==
    /\ refs["loop"] = Count(mainLoop)
    /\ refs["context"] = Count(context) + Count(mainLoop)
    /\ \A s \in Sources : refs[s] =
           Count(s \in pointers \/ (s = "bus" /\ watch)) + Count(s \in attached)

(* When the destructors are through, every loop, context and source is freed    *)
(* (~Application, ~RtspProfileServer, ~ProfileHost).                            *)
ExitReleasesEverything == pc = "exited" => \A o \in DOMAIN refs : refs[o] = 0

(* And with them the pipeline, its elements and the bins of the profiles, on    *)
(* whichever step initialize() gave up, but where a setup failed at the chain's *)
(* link (freed twice), or at a bin with a factory missing (that bin leaks).     *)
ExitFreesPipeline ==
    /\ ExitReleasesEverything
    /\ pc = "exited" =>
        /\ \A p \in 1..NumProfiles : binRefs[p] = 0
        /\ fault # "link" => \A e \in DOMAIN hostRefs : hostRefs[e] = 0
        /\ fault # "bin" => lost = {}

(* The RTSP server, with its mounts, and the host are deleted after the capture *)
(* has left PLAYING, unless GStreamer refused to (run() and the destructor stop): *)
(* this is what RtspProfileServer's Destroy assumes of its owner.               *)
MountsOutliveCapture == rtsp = "deleted" => gst # "PLAYING" \/ refused

(* The coordinator keeps the owner's part of ServerLife, on every path through  *)
(* initialize(), run(), stop() and the destructors.                             *)
Life == INSTANCE ServerLife WITH
    server <- rtsp,
    listening <- "rtsp" \in pointers,
    playing <- gst = "PLAYING",
    refused <- refused /\ gst = "PLAYING"

KeepsServerLife == Life!Spec

(* A signal that GLib caught is never swallowed, whenever it arrives between    *)
(* installSignalHandlers() and the destructor, before the loop runs too: the    *)
(* program ends (onUnixSignal, requestStop, on a context that run() iterates).  *)
CaughtSignalEndsProgram == \A s \in Signals : s \in pending ~> pc \in Ended

(* ProfileHost.hpp:56-57: every error and end of stream is reported, and        *)
(* Application's handler requests the stop.                                    *)
PipelineFailureEndsProgram ==
    (pc = "loop" /\ watch /\ messages # <<>> /\ Head(messages) \in {"error", "eos"})
        ~> pc \in Ended

-----------------------------------------------------------------------------
(* Why the references match on every path: what the destructors have dealt with *)
(* by each of their statements, and that nothing is attached without a context. *)
Destructors == {"sources", "context", "deleteServer", "deleteHost", "exited"}

ControlInv ==
    /\ ~initialized => ~mainLoop /\ ~context
    /\ ~context => attached = {}
    /\ pc \in {"sigint", "sigterm", "setSource", "setup", "construct", "watch", "attach"} => context
    /\ pc \in Destructors => ~mainLoop
    /\ pc \in Destructors \ {"sources"} => pointers \subseteq {"rtsp"}
    /\ pc \in {"deleteServer", "deleteHost", "exited"} => ~context
    /\ pc \in {"deleteHost", "exited"} => pointers = {}
    /\ pc = "exited" => ~watch

(* And why the mounts outlive the capture: the destructor's stop() is before    *)
(* them, and nothing plays after it.                                           *)
CaptureInv ==
    /\ pc \in Destructors \/ (pc = "unrefLoop" /\ back = "sources") => gst # "PLAYING" \/ refused
    /\ rtsp = "deleted" => pc \in {"deleteHost", "exited", "killed"}

(* A message that is to be dispatched is still on the bus.                      *)
BatchInv ==
    /\ batch # {} => pc \in {"dispatch", "killed"}
    /\ "bus" \in batch => messages # <<>>

(* And why a caught signal is not swallowed: GLib catches one while its source   *)
(* is on the context, where the loop finds it, and the handler finds the loop.  *)
SignalInv ==
    /\ pending \subseteq attached
    /\ Signals \cap attached = Signals \cap pointers
    /\ pc \in {"play", "loop", "dispatch"} => mainLoop

(* The safety behind CaughtSignalEndsProgram.  A loop that runs has something to *)
(* dispatch while a signal is pending (g_unix_signal_source_new on m_context).  *)
SignalWakesLoop == pc = "loop" /\ running /\ pending # {} => Ready # {}

(* A pending signal is taken by its handler, which stops the loop, or dropped   *)
(* by the destructor (onUnixSignal, requestStop, ~Application).                 *)
SignalTakenStopsLoop == [][pending \ pending' # {} => ~running' \/ pc = "sources"]_vars

(* And why the server is there whenever the capture may play.                   *)
ServerInv ==
    /\ refused => gst = "PLAYING" \/ pc \in Ended
    /\ rtsp = "none" /\ linked => pc \in {"construct", "killed"}
    /\ ~initialized \/ pc \in {"sigint", "sigterm", "setSource", "setup", "construct"} => rtsp = "none"
    /\ pc \in {"watch", "attach"} => rtsp = "there"
    /\ "rtsp" \in pointers => rtsp = "there"

(* Nothing but the handler of a signal ends the loop: no message of the         *)
(* pipeline does, whatever failed (onUnixSignal, onBusMessageStatic).           *)
OnlySignalsStopLoop ==
    [][running /\ ~running' => \E s \in Signals : OnUnixSignal(s)]_vars

(* When the program exits, its host is destroyed.                               *)
ExitInv == pc = "exited" => ~alive

(* TypeOK without the host, and without the bound that the references have      *)
(* from their owners.                                                          *)
OwnTypes ==
    /\ pc \in Places /\ back \in {"client", "sources"}
    /\ initialized \in BOOLEAN /\ stops \in 0..MaxStops /\ refused \in BOOLEAN
    /\ mainLoop \in BOOLEAN /\ context \in BOOLEAN /\ running \in BOOLEAN
    /\ refs \in [Sources \cup {"loop", "context"} -> Int]
    /\ pointers \subseteq Sources \ {"bus"}
    /\ attached \subseteq Sources /\ batch \subseteq Sources
    /\ pending \subseteq Signals
    /\ messages \in Seq(Messages) /\ Len(messages) <= MaxMessages
    /\ rtsp \in {"none", "there", "deleted"}

IInv ==
    /\ OwnTypes /\ ReferencesMatchOwners /\ ControlInv /\ BatchInv
    /\ CaptureInv /\ MountsOutliveCapture

=============================================================================
