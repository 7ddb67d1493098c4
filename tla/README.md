# camera-platform: models, checks and proofs

TLA+ modules of the camera server in `server/`, of the HTTP parser in `web/` and of
the experiments in `labs/` that its design rests on, the TLC configurations that
check them on small instances, and TLAPS proofs for every value of
the constants. Source paths below are relative to the repository's root (written
`src/` in `PROJECT.json`).

## 1. The system

| Component | Source | State it keeps | Operations |
|---|---|---|---|
| ProfileHost, ProfileBin | `server/ProfileHost.cpp`, `server/ProfileBin.cpp` | pipeline and chain pointers, `m_isLinked`, one bin / valve / appsink per profile, the reported `ProfileInfo::state`, the bus watch | `setVideoSource`, `setupPipeline`, `play`, `stop`, `setProfileEnabled`, `attachBusWatch`, `detachBusWatch`, destruction |
| Control plane (`CameraControl`) | `web/CameraControl.hpp`, `server/Application.cpp:113-133` | `m_stateMutex` over the host's profiles | `profiles`, `setProfileEnabled`, `systemStatus` |
| RtspProfileServer | `server/RtspProfileServer.cpp` | per mount: mutex, borrowed appsink, the appsrc of the current media; the server's GSource | `attach`, `detach`, media-configure / prepared / unprepared, `onNewSample` |
| Application | `server/Application.cpp`, `server/main.cpp` | main loop, private GMainContext, two signal sources, host, server | `initialize`, `run`, `stop`, signal and bus handlers, destruction |
| VideoPipeline | `video/VideoPipeline.cpp` | the single-branch pipeline of phase 1: element pointers, caps, bus watch | setup, play, pause, seek, queries, caps, watch, stop and rebuild |
| The dataflow of the shared pipeline | `server/ProfileBin.cpp:27-82`, `labs/lab3*`, `lab4*`, `lab-stall*`, `lab-preroll*`, `lab-async*` | queues, valves, the preroll gate, streaming threads | play, switch a valve, push, encode, render |
| HTTP messages | `web/HttpMessage.hpp` | none | `parseRequest`, `parseQuery`; formatting |
| Recorder lab | `labs/lab7-record.cpp` | one `rec`, its deadline, the end-of-stream flag, the bus | start, stop, poll, tear down |
| Recovery lab | `labs/lab8-rtsp-recover.cpp` | producer generation, bridge, watchdog flags | start, crash, end of stream, viewers, watchdog |
| WebServer, ApiController, CloudStreamer | headers in `web/`, `server/` | - | declared, not implemented |
| Other labs | `labs/` | counters | experiments |
| Qt client | `client-qt/` | - | user interface |

How they meet: `Application` owns the host and then the server, and deletes them
in reverse. Its signal sources, the host's bus watch and the RTSP server's socket
are sources of one private context that only the main thread iterates. The
encoders' streaming threads call `onNewSample`, the threads of the RTSP library
call the media callbacks, and both meet under `Mount::mutex`. Control calls reach
the host through `m_stateMutex`.

The hard behaviour, listed with its lines as `hazards` in `PROJECT.json`: a switch is
two writes and a listing a loop, under concurrent callers; setup has five ways to
fail, each with its own cleanup; floating, sunk and borrowed references; media
that replace one another while samples are delivered; signals before, in and after
the loop; `stop()` called up to three times; teardown order across two libraries; a
pipeline that cannot play because one of its branches is closed; a recording that
ends by a flag, an error or a timeout; a watchdog that judges a source by its silence.

## 2. Modules

| Module | Models | Correspondence |
|---|---|---|
| `Catalog` | the promise of `CameraControl` | every call takes effect at one instant; a listing is one state of the catalogue |
| `ControlPlane` | `profiles` and `setProfileEnabled`, statement by statement | `mutex` is `m_stateMutex`; `pc` the statement; `found` the iterator of `find_if`; `copied` the vector under construction; `closed` / `state` the valve and the reported state |
| `MCControlPlane` | - | the instance for TLC |
| `ControlPlaneProofs` | - | inductive invariant, `ReadyIsOpen`, the refinement of `Catalog`, the composition with `ProfileHost` |
| `ProfileHost` | the host and its bins | one action per operation; `setupPipeline` is one action per outcome (`CreateFails`, `LinkFails`, `BinFails`, `PadFails`, `Succeeds`), each with the cleanup of that path; `set` are the non-null pointers, `refs` / `binRefs` GObject reference counts |
| `ProfileHostProofs` | - | ownership, all-or-nothing setup, the refinement of `PipelineLife`, valve and state |
| `RtspProfileServer` | the bridge | a callback is a step that takes `Mount::mutex` and a step that does its work and releases it; `onNewSample` is one step per statement; the RTSP library's media life is external |
| `MediaFeed` | the promise of a mount | knows of no mutex, callback or reference: one media is fed at a time, in the order they were made, and a buffer goes whole into the one that is fed |
| `PipelineLife` | the contract between a pipeline and its owner | the pipeline comes into being whole, plays and is watched whole, and is freed with all that is in it, in NULL and unwatched; a failed setup leaves nothing, or a remnant nobody touches |
| `ServerLife` | the contract between the RTSP server object and its owner | made once, listens, plays and pauses, is deleted when the capture plays no more (or would not pause) |
| `MCRtspProfileServer` | - | the instance for TLC |
| `VideoPipeline` | the pipeline of phase 1 and its asynchronous state changes | `call` is the operation that waits in `get_state`; `current` / `pending` / `failed` are GStreamer's state, target and last result; `set` the non-null pointers, `live` the objects that exist |
| `VideoPipelineProofs` | - | all of its safety properties, the refinement of `PipelineLife` |
| `RtspProfileServerProofs` | - | all of its safety properties, the refinement of `MediaFeed`, its side of `ServerLife` |
| `SharedPipeline` | the streaming threads, queues, valves and sinks of the pipeline | `at` is the branch the tee is pushing to, `queue` and `stage` where buffers are, `playing` that the preroll has committed; `conf` is which pipeline: the server's or a lab's variant |
| `SharedPipelineProofs` | - | where a stall comes from and how to avoid it, the cost of a closed branch |
| `Recovery` | source death and rebuild | one step per callback under `lock`; the watchdog is two, its reading under the lock (`look`) and its decision after it |
| `RecoveryProofs` | - | alarms that are due, whose end of stream is on record, that a frozen picture is noticed |
| `Recorder` | recording branches on a running tee | one step per event of the script and per poll; `bin` is `rec.bin`, `branch` where each bin is, `bus` whose errors are on the pipeline's bus, in order |
| `RecorderProofs` | - | when one `rec` is enough, that every drain has a deadline |
| `HttpMessage` | the request parser, as operators | `Parse` is `parseRequest`, `ParseQuery` is `parseQuery`; the variables are a client that composes, escapes, sends and is cut off |
| `Application` | the main thread from construction to exit | `pc` the statement; `refs` GLib reference counts; `Host == INSTANCE ProfileHost` supplies every step on `m_host` |
| `ApplicationProofs` | - | ownership, exit, signals, and that the program implements `Host!Spec` and `ServerLife` |

`Application` composes with `ProfileHost` through INSTANCE: each of its steps on `m_host`
is that module's action, so a change there changes the composition; its theorem
`HostInside` says that the program is a behaviour of `ProfileHost`.

`ControlPlane` composes with it too: `Host` is the host that `initialize()` leaves (set up, or
with the bins of a setup that failed), and every change of a valve or of a reported state is
one whole `SetProfileEnabled` of it (`SwitchesAreHostSteps`). That is why `Application` and
`ProfileHost` may have a switch as one step, while the code has two writes and any number of
threads.

`Application` and `RtspProfileServer` are too large to compose step by step, and meet
in the contract `ServerLife` instead. The program keeps the owner's side
(`KeepsServerLife`). The bridge takes that contract for its surroundings: each of their
steps is one of the contract (`SurroundingsKeepContract`), and each step the contract
allows an owner that is never refused is one of theirs, between two samples
(`SurroundingsAreTheContract`). So what is proved of the bridge holds under the
program, unless GStreamer refuses the last request to pause. `ServerLife` and
`MediaFeed` are checked and proved about through the modules that implement them.

`RtspProfileServer` implements `MediaFeed` (`FeedsOneMediaAfterAnother`) and
`ControlPlane` implements `Catalog` (`CallsAreAtomic`), each with its mapping in the
module. `VideoPipeline` and `ProfileHost`, the two classes that own a pipeline, implement
`PipelineLife` (`KeepsPipelineLife`): one with state changes that other threads complete and
with rebuilds, the other with branches, failing setups that can be retried and the
remnant of a failed link.

Reference counts follow GObject: an element that nobody sank is floating and a bin
that adds it takes that reference; `gst_object_ref_sink` in `createElement()` comes
first, so the pipeline adds a reference of its own and the profile's bin has two
owners. A context holds a reference on each attached source, a loop one on its context.

Operators such as `LockForWriters` or `CleanupEach`, which no action uses, are
deliberately wrong variants of the definition that follows them: each stands for a
plausible bug, and the property named for it in `PROJECT.json` fails on it.

## 3. Runs

| Run | Bounds | States | Shows |
|---|---|---|---|
| `control_plane` | 2 threads, 2 entries (one without a valve), 1 unknown name | 218,813 | every interleaving of two callers is a behaviour of `Catalog`; ready profiles have open valves outside the lock; valves and states change in whole steps of `ProfileHost`; the lock is always given back |
| `profile_host` | 3 profiles, 3 setups | 4,975 | ownership, losses for a retry or a missing factory only, all-or-nothing setup, every behaviour is one of `PipelineLife`, watch within the pipeline, switches keep valve and state together |
| `rtsp_bridge` | 1 mount, 3 media in a row, 2 viewers | 2,124 | a prepared media is fed and no other; one reference held; check-then-push is safe; every behaviour is one of `MediaFeed`; freed mounts are used by the media of earlier clients only; the mount's mutex is released |
| `application` | 2 profiles, 2 explicit `stop()`, 2 queued messages | 136,119 | every GLib reference is owned and all are released at exit, and the pipeline with its branches is freed; every behaviour is one of `ServerLife`, so the capture leaves PLAYING before the mounts go; a signal that is taken stops the loop, and a caught one ends the program |
| `video_pipeline` | 2 caps | 600 | pointers, links, watch and caps fit the pipeline after every setup that fails and every rebuild; every behaviour is one of `PipelineLife`; a state change neither overtakes another nor follows a failed one |
| `shared_pipeline` | 3 branches, queues of 1 buffer, 9 pipelines | 215,448 | a closed branch encodes at most the buffer in hand; a stall needs a valve that closed before the preroll and is permanent, and no other deadlock exists; open branches flow |
| `recovery` | a limit of 3 periods, 3 generations | 56,372 | one alarm per generation at most, while it is current and past the grace of its start; an end of stream on record is the current generation's unless one was lost; a frozen viewer is reported |
| `recorder` | a period of 4 ticks, a patience of 5, 3 recordings, 3 errors on the bus at once | 118,525 | only overlapping recordings confuse `rec`; a file is whole unless an error came first, and when that can be an earlier recording's; the deadline never serves its own recording; every drain ends |
| `http_message` | requests with up to 3 characters of data, 2 pairs, 2 headers | 636,614 | what a client writes is what the parser returns; a cut request never asks for something else |
| `off_valve` | as `profile_host` | violated | after setup, profiles reported off encode |
| `failed_link` | as `profile_host` | violated | a failed link of the chain ends in a double unref |
| `bus_events` | 1 profile, 1 message | violated | pipeline errors never reach the application |

Why the bounds are enough. Two threads exhibit every pairwise race of a lock and two
writes; a listing needs two entries to mix instants. Three profiles give a first, a middle
and a last branch to fail at; three setups give a retry after a failure and one after
that. Mounts share nothing but the socket, so one is enough; three media give an old, a
current and a next one. The coordinator calls setup once and `stop()` twice at most in the
tests, plus the calls in `run()` and the destructor. `VideoPipeline` needs no bound: its
state is finite, and two caps tell an old value from a new one. In `SharedPipeline` a
queue of one buffer is already full and empty, and a third branch gives the tee one before
and one after the branch that blocks it; the capacity is the code's `max-size-time` and
the theorems hold for any. A patience of 5 ticks against a period of 4 lets a slow drain
reach the next start; a limit of 3 periods lets frames, viewers and the watchdog come in
every order around it. Three errors on the bus are one of the recording, one of the trunk
and one left over, in every order. Three characters of data hold a whole escape, a
separator between two of them, and an escape cut at the end. `MaxAttempts`, `MaxMedia`,
`MaxViewers`, `MaxStops`, `MaxMessages`, `MaxErrors`, `Capacity`, `Last` and `MaxSize` are
the bounds; the code has no such counters, except the vector of bins and the queues'
limits.

The types are proved (`TypeCorrect`, and `Invariance` for the recorder), so only
`shared_pipeline`, whose `TypeOK` holds the limit of the queues, checks them as well.

Deadlock is checked in `control_plane` and `shared_pipeline`, where a valve can
always be switched. The other systems may stop: the host is destroyed, the media are
used up, the program exits, a script is over, a request is sent.

Fairness. `ControlPlane`: some thread inside a call takes a step (`std::mutex`
promises no order, so nothing is assumed of one thread). `RtspProfileServer`: a
thread that holds a mount's mutex goes on; nothing under it blocks, since the
sample that was signalled is there and `appsrc` does not block its producer by
default. `Application`: the main thread is scheduled, and the caller does not switch
profiles for ever instead of going on. `SharedPipeline`: a streaming thread that can go on does.
`Recovery` and `Recorder`: time passes and the main loop serves its timeouts; no frame,
end of stream, error or viewer is promised. Nothing is assumed of signals, messages,
viewers or the RTSP library.

## 4. What the checks found

Statements of the documentation that the code does not keep (see `findings`). Three
have a run: profiles reported off with open valves (`common/Protocol.hpp:68`); the
double unref after a failed link (`server/ProfileHost.cpp:62-65`); the bus watch whose
callback has the wrong signature (`server/ProfileHost.cpp:178`). The last one depends
on a layout: what `onBusMessageStatic` reads as `m_busSource` lies in the reserved words
of the `GstBus` it was given, which are zero on 64-bit with libstdc++; the model takes
that outcome, the mildest one.

Three have none, as they are read off the code directly: the elements lost when
one cannot be created (`video/VideoPipeline.cpp:122-130`, visible in `CreateFails`); the
live state that is never published (`server/RtspProfileServer.hpp:24-27`); and the switch
before preroll, which `docs/ARCHITECTURE-SERVER-CLIENT.md:113-114` calls harmless,
which `NOTES.md:27` measured to be fatal, and which nothing in `setProfileEnabled`
prevents. `SharedPipeline` has the wedge among its behaviours: what `shared_pipeline`
checks is what it needs (`StallNeedsEarlyOff`) and that it stays.

Five limits of the code show in the models and are listed as hazards. What is known of how
far each goes is said by the property named with it, which states the code as it is and
forbids no more. An end of stream of a generation that was replaced but never stopped is
taken for the new one's (`labs/lab8-rtsp-recover.cpp:71`); nothing else makes it so
(`EndIsOfTheCurrent`). A false alarm silences the true one of the same generation
(`labs/lab8-rtsp-recover.cpp:136`, `AlarmsAreDue`). An error left on the bus ends a later
recording early (`labs/lab7-record.cpp:51-53`): a drain takes one error off the bus,
whoever posted it, while a branch that fails may post several and the trunk more.
`FileIsWholeOrGivenUp` says when there is one to be left: an earlier recording came to its
end of stream in spite of its error, or more errors than one had been posted, by it or by
the trunk. The RTSP server survives its destructor through an extra reference
(`server/RtspProfileServer.cpp:31`), so a media of a client that had connected may still
lock a freed mount; neither the streaming threads nor a new client do
(`FreedMountsAreQuiet`). And the fallback of a drain never serves the recording it was set
for: its patience is 2.5 s (`labs/lab7-record.cpp:116`), the next recording starts after 2
s (lines 157-163) and takes `rec` over, so the poll that runs out of time tears that one
down (`FileIsWholeOrGivenUp`: a deadline cuts its own recording only where it comes before
the next start).

Read in the code, without a run: `stop()` does not detach the RTSP server although
`server/Application.hpp:42-44` says so; `main()` ignores what `initialize()` returns.

## 5. Proofs

`ControlPlaneProofs`, for any number of threads and any catalogue
(`ControlAssumption`: the entries are a non-empty sequence of names, the built ones
among them, the null owner is no thread):

- `Invariance`: `IInv` is inductive. `ReadyIsOpen` alone is not: between the two
  writes of a switch valve and state disagree, so `ValveInv` says by how much, which
  needs `LockInv` (who is inside) and `RequestInv` (the entry found is still the one
  asked for). `ListInv` (the copied prefix is still the catalogue's) is what makes a
  listing one instant.
- `TypeCorrect`, `ReadyProfilesAreOpen`: its consequences.
- `ControlIsTheHosts`: `Spec => SwitchesAreHostSteps`, and hence `[][Host!Next]_(Host!vars)`. The
  state as the host has it is already the new one between the two writes (`Reported`);
  `ValveInv` makes the first write a whole switch, `RequestInv` one of the profile that was
  asked for, and no other statement changes a valve or `Reported` (`LockInv`: nobody else is
  between his two writes).
- `Refinement`: `Spec => CallsAreAtomic`. A switch takes effect at the write of the
  valve, a listing at its last copy, a refusal at the failed search.
- `SectionsEnd`: the holder of the lock has at most as many statements left as the
  catalogue has entries and three (`SectionIsBounded`), each step of its own makes them
  fewer, and no other thread's step changes them or the owner (`SectionGetsShorter`). With
  the scheduling of `FairSpec` that is the argument for `LockIsReleased`.

`ProfileHostProofs`, for a catalogue of any length and any number of setups:

- `Invariance`: `ReferencesMatchOwners` and `SetupAllOrNothing` with `LifeInv`, which
  adds that only a linked pipeline leaves NULL or is watched, that only a living host
  is linked, and what a failed link leaves behind, and with `LossInv`: the first setup
  finds nothing to overwrite, so a bin is lost only by a retry, or by a missing factory.
- `TypeCorrect`, `Ownership`, `AllOrNothing`, `Teardown`, `WatchIsInside`,
  `ValveFollowsState`: its consequences, the last one an action property.
- `PipelineIsKept`: `Spec => KeepsPipelineLife`. By `PipeIsLinked` the pipeline is whole when
  `m_isLinked` is set, a remnant after a failed link, and nothing else is left of it otherwise; so a
  setup that fails elsewhere is a stutter, and the destructor is `Free` from wherever it starts.
- `DoubleUnrefIsTheFailedLink`: the defect that the run `failed_link` finds is exactly the
  failed link: such a host always ends with a double unref, and no other host ever does.

`VideoPipelineProofs`, for any caps (`CapsAssumption`: the default is one of them):

- `Invariance`: the conjuncts of the run's invariants with `EmptyInv` (an object without
  a pipeline is in NULL, unwatched, and nobody waits on it) and `ChangeInv` (a change
  that failed is over), both needed for a call that meets a teardown or a failure.
- `TypeCorrect`, `PointersAreAlive`, `PipelineIsWhole`, `WatchIsInside`, `CapsStay`,
  `ChangesDoNotOverlap`, `FailureIsFinal`: its consequences, the last two action
  properties.
- `PipelineIsKept`: `Spec => KeepsPipelineLife`. `TearDownFrees` takes the four callers of `stop()`'s
  body to `Free`; a call that waits and a change in progress need a whole pipeline
  (`EmptyInv`), so what GStreamer's threads complete is a change of one.

`RtspProfileServerProofs`, for any set of mounts, any number of media and viewers:

- `Invariance`: the run's four invariants with `MediaInv` (media of a mount are
  constructed one by one, and the cached one is the one in use, so the handlers may
  replace or clear an appsrc without asking whose it is), `MutexInv` (the holder of a
  mount's mutex is inside a handler or a delivery) and `DeliveryInv` (only a pipeline that
  plays delivers, and none plays once the mounts are gone). `PushTargetIsThere` alone
  says nothing of the callback that could clear the pointer in between.
- `TypeCorrect`, `MediaAreFed`, `NoReferenceIsLost`, `PushesAreSafe`: its consequences.
- `MountsAreUnused`: `Spec => []FreedMountsAreQuiet`, with `ClientInv` beside `IInv` (there is no media before
  a client has connected, and a deleted server does not listen).
- `MountsImplementFeed`: `Spec => FeedsOneMediaAfterAnother`. A media-configure is
  `Switch`, an "unprepared" `Release`; a delivery is `Accept`, then `Push` and `Pushed` when
  the check found an appsrc, then `Finish`. The hard steps are the callbacks:
  `MediaInv` says that nothing is fed when a media is configured and that what was fed is
  older, `PushTargetIsThere` that no push is under way.
- `SurroundingsKeepContract`, `SurroundingsAreTheContract`: the two halves of the
  bridge's side of `ServerLife` (section 2).
- `MutexIsGivenBack`: `Spec => HolderGivesBack`. A callback gives the mutex back with its
  one step, a delivery after four at most, and no other step touches a mutex that is held:
  the argument for `MountIsReleased`.

`ApplicationProofs`, for any catalogue (`ApplicationAssumption`: not empty), any number
of stops and messages:

- `Invariance`: `ReferencesMatchOwners` and `MountsOutliveCapture` with
  `ControlInv` (what exists at each statement of the main thread), `CaptureInv` (that the
  destructor's `stop()` comes before the mounts, and nothing plays after it) and `BatchInv`
  (a message that is to be dispatched is still on the bus). `NothingIsLeft`
  (`ExitReleasesEverything`, the half of `ExitFreesPipeline` about GLib) is a consequence.
- `HostInside`: `Spec => Host!Spec`. Every step of the program is one of the host's or
  leaves it alone. `HostInvariance` then carries the inductive invariant that
  `ProfileHostProofs` proves of the host alone into the program, which is what types the
  host's variables in `TypeCorrect`.
- `TypeCorrect`, `Ownership`, `NothingIsLeft`, `CaptureIsOver`: its consequences.
- `ProgramLosesNoBin`, `NothingIsLeftOfHost` (`Spec => []ExitFreesPipeline`): what `HostInvariance` and `LossInv` give the
  program. It sets up once, so no bin is overwritten; and at exit the bins, the
  pipeline and its elements are freed as well, where the setup did not fail at the chain's
  link or at a missing factory.
- `OwnerKeepsContract`: `Spec => KeepsServerLife`, from `ServerInv`, which adds that a linked
  pipeline comes before the server and that only a living server listens.
- `NoSignalIsSwallowed`: from `SignalInv` (a pending signal's source is on the context, and
  the loop exists while it may be dispatched): a loop that runs has something to
  dispatch while a signal is pending, and a signal that is taken stops the loop, if the
  destructor has not come first. With fairness that is `CaughtSignalEndsProgram`.
- `FailuresDoNotStopLoop`: only the handler of a signal ever ends a running loop. It is
  the general form of what the run `bus_events` finds for one message.

`SharedPipelineProofs`, for any number of branches and any capacity
(`PipelineAssumption`), hence for any `max-size-time`:

- `Invariance`: `TypeOK` and `EncoderIdleWhenOff` with `GateInv` (a sink that does not gate the
  preroll is behind a live source, so it never waits) and `LevelInv`: until a closed valve has
  swallowed a buffer, every branch that gates the preroll has been given the same
  number, but for the round the tee is in. So when one is full and the tee stands
  before it, none is empty, which is `WedgeNeedsValve`. That theorem also says that
  nothing else stops the dataflow: a played pipeline that is not wedged has a thread that
  can go on.
- `WedgeStays`: no step leaves the circular wait. `OffIsCheap`, `TypeCorrect`.
- `LateSwitchNeverStalls`: while no gating valve is closed before PLAYING commits (the rule
  of `NOTES.md:42`), the pipeline never starves, never wedges, and some thread can
  always go on. `ServerThatWaitsNeverStalls`: for the server's own pipelines, whose valves
  start open, it is enough that `setProfileEnabled` waits for the commit. That
  hypothesis is the repair that section 4 asks for, not what the code does today.

`RecoveryProofs`, for any limit: `IInv` adds that no silence, the watchdog's copy
included, is older than the generation, and `GenInv` (the script's place tells the
generation). `OneReportPerGeneration` states `AlarmsAreDue`, and needs `LatchInv` as well:
the latch is set exactly if the current generation was reported, and the watchdog's copy
of it is still right when it decides, because the main loop runs the watchdog or a start,
never one inside the other. `EndsAreTold` rests on `OneRuns`: unless a generation was
lost, no pipeline but the current one runs, so no other can post an end. `SilenceTells` is
the argument for `FrozenViewerIsReported`: under a frozen picture the silence only grows
(`SilenceInv`: it is known from the start of a generation on), a reading of the watchdog
that finds it too long condemns the generation, nothing between reading and decision
changes that, and the decision reports the generation that is current.

`RecorderProofs`, for any period and patience: `IInv` adds `ScriptInv` (the script's place
tells which recording `rec` points to) and `FlagInv` (a flag that is set was set by this
recording, as every start clears it). `FilesAreWhole` needs `BusInv` as well: the bus holds no
more errors of anyone than were posted, and while a poll is to come only the trunk's and that
recording's, unless an earlier recording left some behind (`LeftBehind`). Errors are not
limited: a branch posts as many as it likes until its bin is in NULL, the trunk at any time, and the
bound `MaxErrors` on the bus enters no step of the proof.
`StopInv` (without an overlap the deadline is that of the stop the script has just done) and
`DrainInv` rule the deadline out where it does not come before the next start.
`DrainsHaveAnEnd`, from `DrainInv` (the clock waits for the script, so a stop finds it at
its time): overlapping recordings included, a poll is at most a patience from its
deadline, and the model's clock goes on past every deadline, so `DrainEnds` does not
rest on the bound `Last`.

Only model-checked:

- Liveness (`LockIsReleased`, `MountIsReleased`, `CaughtSignalEndsProgram`, `OpenBranchesFlow`,
  `FrozenViewerIsReported`, `DrainEnds`), since fairness is outside this prover's
  reach. The safety that each rests on is proved, in the same order: `SectionsEnd`,
  `MutexIsGivenBack`, `NoSignalIsSwallowed`, `WedgeNeedsValve`, `SilenceTells`,
  `DrainsHaveAnEnd`.
- The two invariants of `HttpMessage`. Its recursive functions and folds would need an
  induction over data, which the installed provers cannot do: for each of the finitely many
  data of the run the parser is evaluated, for all of them nothing is proved.
- The three runs that find a violation: a counterexample is a fact about one instance.
  `DoubleUnrefIsTheFailedLink` and `FailuresDoNotStopLoop` say what holds of two of them
  in general.

That a `Seq` of entries is searched by a recursive algorithm does not arise: `find_if` is
modelled by what it returns.

## 6. Not modelled

Responses and their formatting (`serializeResponse`, `statusText`, `jsonEscape`): wording
only. The web server, API controller and cloud streamer, which have no implementation;
the element factories, which have no state; encoder settings, caps and log texts; the Qt
client. `onPipelineEvent()` is unreachable, so it has no action. Of the labs: lab6, the
first form of the bridge that `RtspProfileServer` models; the snapshot lab, one valve and
one poll; the clients and the RTSP server of lab5, which only count frames.

Abstracted where modelled: frames and their timestamps (a buffer is a count), so the
restamping of the bridge is not; clocks are ticks; the preroll of a sink is its first
buffer; a pipeline of `SharedPipeline` is played once and not paused. A teardown or a destructor that
runs on the thread of the main loop is one step: that it drops the watch is checked, the order of its
statements is not visible to anyone. A null video source is modelled in `VideoPipeline`, a null sink is not.

Assumed of the RTSP library: a factory that is shared caches one media per mount, so `BridgeFeedsTheMedia`
and `OneReferenceHeld` speak of media that follow one another. The cache is keyed by the URL, and viewers
are taken to use the mount's own, without a query: two URLs of one mount would be two media at a time,
for which a `Mount` has one `appSrc` only. `Recovery` does not assume it.

## 7. Plan

Every module, run and proof above is done. Should the code move on:

1. `WebServer` and `ApiController`, when they have code: `HttpMessage` as the parser of
   what a connection has read so far, `ControlPlane` as what a request calls.
2. A switch that waits for the preroll, if `setProfileEnabled` is given one:
   `ServerThatWaitsNeverStalls` is then a theorem without its hypothesis.
