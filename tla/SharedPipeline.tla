---------------------------- MODULE SharedPipeline ----------------------------
(* The dataflow of the pipeline that ProfileHost builds and the labs measure:   *)
(* one source, a tee, and per branch                                            *)
(*     queue ! valve ! videoscale ! capsfilter ! x264enc ! sink                 *)
(* with a streaming thread for the source and one behind every queue, the       *)
(* preroll gate in front of PLAYING, and the valve that switches a branch.      *)
(*                                                                              *)
(* Of GStreamer it takes what NOTES.md:20-34 records: the tee pushes a buffer   *)
(* to one pad after the other and blocks at a queue that is full; a buffer that *)
(* meets a closed valve dies there; a sink keeps its first buffer until the     *)
(* pipeline commits PLAYING, which waits for every sink with async=true.        *)
(* A run plays its pipeline once; what pausing it for good leaves behind is in  *)
(* ProfileHost and Application.                                                 *)
EXTENDS Integers

CONSTANTS
    NumProfiles,   \* the length of the catalogue
    Capacity       \* bound: buffers in a queue (30 at 30 fps, max-size-time 1 s)

ASSUME PipelineAssumption == NumProfiles \in Nat /\ NumProfiles >= 2 /\ Capacity \in Nat \ {0}

Branches == 1..NumProfiles

(* A pipeline: its branches, whether its source is live, the branches with a    *)
(* valve, those whose valve is closed before play(), and the sinks that gate    *)
(* the preroll (async=true).                                                    *)
Pipeline(branches, live, valves, closed, async) ==
    [branches |-> branches, live |-> live, valves |-> valves,
     closed |-> closed, async |-> async]

(* What the server builds: TestVideoSource is not live, a camera is; every      *)
(* valve is open and every appsink has the default async=true.                  *)
ServerPipelines == {Pipeline(Branches, live, Branches, {}, Branches) : live \in BOOLEAN}

(* The labs: branch 1 is the sibling, branch 2 the one behind the valve.        *)
StallVariants ==
    {Pipeline({1, 2}, live, {2}, {2}, {1, 2}) : live \in BOOLEAN}   \* closed-at, nonlive-at
    \cup {Pipeline({2}, TRUE, {2}, {2}, {2})}                       \* single-at
    \cup {Pipeline({1, 2}, TRUE, {2}, {2}, {1})}                    \* closed-af
    \cup {Pipeline({1, 2}, TRUE, {2}, {}, {1, 2})}                  \* open

PrerollVariants ==
    {Pipeline({1, 2}, live, {2}, {2}, {1, 2}) : live \in BOOLEAN}
    \cup {Pipeline({1, 2}, TRUE, {2}, {2}, {1}), Pipeline({1, 2}, TRUE, {2}, {}, {1, 2})}

AsyncVariants ==
    {Pipeline({1, 2}, TRUE, {2}, closed, {1, 2}) : closed \in {{}, {2}}}
    \cup {Pipeline({1, 2}, TRUE, {2}, {2}, {1})}

SingleBin == {Pipeline({1}, TRUE, {1}, {}, {1})}          \* lab 3
TwoBins == {Pipeline({1, 2}, TRUE, {1, 2}, {}, {1, 2})}   \* lab 4

VARIABLES
    conf,      \* the pipeline of this run
    played,    \* gst_element_set_state(PLAYING) was called
    playing,   \* the pipeline has committed PLAYING
    closed,    \* branches whose valve has drop=true
    at,        \* the branch the tee is pushing to; 0: the source makes a buffer
    queue,     \* per branch: buffers in its queue
    stage,     \* per branch: where its thread has a buffer
    encoded,   \* history, per branch: buffers encoded since its valve closed
    starved    \* history: a valve swallowed a buffer its sink needed for the preroll

vars == <<conf, played, playing, closed, at, queue, stage, encoded, starved>>

TypeOK ==
    /\ conf \in [branches : SUBSET Branches, live : BOOLEAN, valves : SUBSET Branches,
                 closed : SUBSET Branches, async : SUBSET Branches]
    /\ conf.async \subseteq conf.branches
    /\ played \in BOOLEAN /\ playing \in BOOLEAN /\ starved \in BOOLEAN
    /\ closed \subseteq conf.valves
    /\ at \in {0} \cup conf.branches
    /\ queue \in [Branches -> 0..Capacity]
    /\ stage \in [Branches -> {"idle", "encoding", "waiting"}]
    /\ encoded \in [Branches -> 0..1]

Init ==
    /\ conf \in ServerPipelines \cup StallVariants \cup PrerollVariants
                \cup AsyncVariants \cup SingleBin \cup TwoBins
    /\ played = FALSE
    /\ playing = FALSE
    /\ closed = conf.closed
    /\ at = 0
    /\ queue = [b \in Branches |-> 0]
    /\ stage = [b \in Branches |-> "idle"]
    /\ encoded = [b \in Branches |-> 0]
    /\ starved = FALSE

-----------------------------------------------------------------------------
(* The pipeline reports PAUSED, pending PLAYING.                               *)
Pending == played /\ ~playing

(* A sink renders once the pipeline plays; in a live pipeline one that does    *)
(* not gate the preroll goes to PLAYING by itself.                             *)
Renders(b) == playing \/ (played /\ conf.live /\ b \notin conf.async)

-----------------------------------------------------------------------------
(* The control side.                                                           *)
Play ==
    /\ ~played
    /\ played' = TRUE
    /\ UNCHANGED <<conf, playing, closed, at, queue, stage, encoded, starved>>

SetDrop(b, drop) ==
    /\ b \in conf.valves
    /\ closed' = IF drop THEN closed \cup {b} ELSE closed \ {b}
    /\ encoded' = IF b \in closed THEN encoded ELSE [encoded EXCEPT ![b] = 0]
    /\ UNCHANGED <<conf, played, playing, at, queue, stage, starved>>

(* Mutant: PLAYING as soon as some sink has its first buffer.                  *)
CommitAny ==
    /\ Pending
    /\ \E b \in conf.async : stage[b] = "waiting"
    /\ playing' = TRUE
    /\ UNCHANGED <<conf, played, closed, at, queue, stage, encoded, starved>>

(* GstBin: every sink that gates the preroll has its first buffer.             *)
Commit ==
    /\ Pending
    /\ \A b \in conf.async : stage[b] = "waiting"
    /\ playing' = TRUE
    /\ UNCHANGED <<conf, played, closed, at, queue, stage, encoded, starved>>

-----------------------------------------------------------------------------
(* The streaming threads.                                                      *)
(* Mutant: the last branch is never attached to the tee.                       *)
NextAttached(b) ==
    LET later == {c \in conf.branches : c > b /\ c < NumProfiles}
    IN IF later = {} THEN 0 ELSE CHOOSE c \in later : \A d \in later : c <= d

NextBranch(b) ==
    LET later == {c \in conf.branches : c > b}
    IN IF later = {} THEN 0 ELSE CHOOSE c \in later : \A d \in later : c <= d

Produce ==
    /\ played
    /\ at = 0
    /\ at' = NextBranch(0)
    /\ UNCHANGED <<conf, played, playing, closed, queue, stage, encoded, starved>>

(* Mutant: a queue without its limit.                                          *)
PushUnlimited(b) ==
    /\ at = b
    /\ queue' = [queue EXCEPT ![b] = @ + 1]
    /\ at' = NextBranch(b)
    /\ UNCHANGED <<conf, played, playing, closed, stage, encoded, starved>>

Push(b) ==
    /\ at = b
    /\ queue[b] < Capacity
    /\ queue' = [queue EXCEPT ![b] = @ + 1]
    /\ at' = NextBranch(b)
    /\ UNCHANGED <<conf, played, playing, closed, stage, encoded, starved>>

(* Mutants: the valve behind the encoder; a valve that blocks what it should   *)
(* discard.                                                                    *)
TakeUnchecked(b) ==
    /\ stage[b] = "idle" /\ queue[b] > 0
    /\ queue' = [queue EXCEPT ![b] = @ - 1]
    /\ stage' = [stage EXCEPT ![b] = "encoding"]
    /\ UNCHANGED <<conf, played, playing, closed, at, encoded, starved>>

TakeOpenOnly(b) == b \notin closed /\ TakeUnchecked(b)

(* The thread behind a queue takes a buffer and comes to the valve.            *)
Take(b) ==
    /\ stage[b] = "idle" /\ queue[b] > 0
    /\ queue' = [queue EXCEPT ![b] = @ - 1]
    /\ stage' = [stage EXCEPT ![b] = IF b \in closed THEN "idle" ELSE "encoding"]
    /\ starved' = (starved \/ (~playing /\ b \in closed /\ b \in conf.async))
    /\ UNCHANGED <<conf, played, playing, closed, at, encoded>>

Encode(b) ==
    /\ stage[b] = "encoding"
    /\ stage' = [stage EXCEPT ![b] = "waiting"]
    /\ encoded' = IF b \in closed THEN [encoded EXCEPT ![b] = @ + 1] ELSE encoded
    /\ UNCHANGED <<conf, played, playing, closed, at, queue, starved>>

Render(b) ==
    /\ stage[b] = "waiting"
    /\ Renders(b)
    /\ stage' = [stage EXCEPT ![b] = "idle"]
    /\ UNCHANGED <<conf, played, playing, closed, at, queue, encoded, starved>>

Control == Play \/ \E b \in Branches, drop \in BOOLEAN : SetDrop(b, drop)
Branch(b) == Push(b) \/ Take(b) \/ Encode(b) \/ Render(b)
Next == Control \/ Commit \/ Produce \/ \E b \in Branches : Branch(b)

(* A streaming thread that can go on does; nobody has to play or to switch.    *)
Fairness ==
    /\ WF_vars(Commit) /\ WF_vars(Produce)
    /\ \A b \in Branches : /\ WF_vars(Push(b)) /\ WF_vars(Take(b))
                           /\ WF_vars(Encode(b)) /\ WF_vars(Render(b))

Spec == Init /\ [][Next]_vars /\ Fairness

-----------------------------------------------------------------------------
(* The circular wait of NOTES.md:27: the tee is blocked at a queue whose sink   *)
(* waits for PLAYING, PLAYING waits for a sink without a first buffer, and that *)
(* sink waits for the tee.                                                      *)
Wedged ==
    /\ ~playing
    /\ at \in conf.async /\ queue[at] = Capacity /\ stage[at] = "waiting"
    /\ \E b \in conf.async : queue[b] = 0 /\ stage[b] = "idle"

(* A profile that is switched off costs the encoder no more than the buffer it *)
(* had in hand (Protocol.hpp:68, lab 3's frozen file).                         *)
EncoderIdleWhenOff ==
    \A b \in closed : encoded[b] + (IF stage[b] = "encoding" THEN 1 ELSE 0) <= 1

(* Some thread can take its next step: the guards of Commit, Produce and Branch. *)
Flowing ==
    \/ Pending /\ \A b \in conf.async : stage[b] = "waiting"
    \/ played /\ at = 0
    \/ \E b \in Branches :
        \/ at = b /\ queue[b] < Capacity
        \/ stage[b] = "idle" /\ queue[b] > 0
        \/ stage[b] = "encoding"
        \/ stage[b] = "waiting" /\ Renders(b)

(* The pipeline wedges only if a valve swallowed a buffer some sink needed for *)
(* its preroll: opening every valve until PLAYING has committed is enough, and *)
(* so is async=false on the sink behind a valve that starts closed.  And no    *)
(* other deadlock hides beside it: when every thread has stopped, this wait is  *)
(* why (NOTES.md:27-34).                                                       *)
StallNeedsEarlyOff == (Wedged => starved) /\ (played /\ ~Flowing => Wedged)

(* Switching the valve afterwards does not rescue a pipeline that has wedged.  *)
StallIsPermanent == [][Wedged => Wedged']_vars

(* Once the pipeline plays, or if no valve closes before it does, a branch that *)
(* is left open gets frames for ever, whatever is switched beside it.          *)
OpenBranchesFlow ==
    \A b \in Branches :
        <>[](/\ played /\ b \in conf.branches /\ b \notin closed
             /\ (playing \/ ~starved))
            => []<><<Render(b)>>_vars

-----------------------------------------------------------------------------
(* Why a wedge needs a valve: until the first closed valve swallows a buffer,   *)
(* every branch that gates the preroll has been given the same number of        *)
(* buffers, but for the round the tee is in, and keeps them all.                *)
Level(b) ==
    queue[b] + (IF stage[b] = "idle" THEN 0 ELSE 1) - (IF at # 0 /\ b < at THEN 1 ELSE 0)

LevelInv == ~playing /\ ~starved => \A b, c \in conf.async : Level(b) = Level(c)

(* A sink that does not gate the preroll is only ever behind a live source, so  *)
(* its thread never waits for PLAYING.                                          *)
GateInv == conf.live \/ conf.async = conf.branches

IInv == TypeOK /\ EncoderIdleWhenOff /\ LevelInv /\ GateInv

(* The rule of NOTES.md:42: until PLAYING has committed, no valve is closed in  *)
(* front of a sink that gates the preroll.                                      *)
SwitchedLate == ~playing => closed \cap conf.async = {}

=============================================================================
