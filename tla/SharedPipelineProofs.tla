------------------------- MODULE SharedPipelineProofs -------------------------
(* Proofs about SharedPipeline, for any number of branches, any length of their *)
(* queues and every pipeline of its list: the types, the cost of a branch that  *)
(* is off, where a wedge comes from, that it stays, that nothing else stops the *)
(* dataflow, and what a switch has to wait for.                                 *)
EXTENDS SharedPipeline, WellFoundedInduction, TLAPS

(* Branches are numbers, so those behind one have a first, if there are any.    *)
LEMMA LeastBranch ==
    ASSUME NEW S \in SUBSET Branches, S # {}
    PROVE  \E x \in S : \A y \in S : x <= y
<1>1. S \subseteq Nat
  BY PipelineAssumption DEF Branches
<1>2. PICK x \in S : \A y \in S : ~(<<y, x>> \in OpToRel(<, Nat))
  BY <1>1, WFMin, NatLessThanWellFounded, Zenon
<1>3. \A y \in S : ~(y < x)
  BY <1>1, <1>2 DEF OpToRel
<1> QED
  BY <1>1, <1>3

(* The tee goes on to the nearest branch, or has come to its last.              *)
LEMMA NextBranchIsNearest ==
    ASSUME TypeOK, NEW b \in {0} \cup Branches
    PROVE  /\ NextBranch(b) \in {0} \cup conf.branches
           /\ NextBranch(b) = 0 => \A c \in conf.branches : c <= b
           /\ NextBranch(b) # 0 =>
                NextBranch(b) > b /\ \A c \in conf.branches : c > b => NextBranch(b) <= c
<1> DEFINE later == {c \in conf.branches : c > b}
<1>0. conf.branches \subseteq Branches /\ Branches \subseteq Nat \ {0}
  BY PipelineAssumption DEF TypeOK, Branches
<1>1. CASE later = {}
  <2>1. \A c \in conf.branches : ~(c > b)
    BY <1>1
  <2>2. NextBranch(b) = 0
    BY <1>1 DEF NextBranch
  <2>3. b \in Nat /\ \A c \in conf.branches : c \in Nat
    BY <1>0, PipelineAssumption DEF Branches
  <2>4. \A c \in conf.branches : c <= b
    BY <2>1, <2>3
  <2> QED
    BY <2>2, <2>4
<1>2. CASE later # {}
  <2>1. \E c \in later : \A d \in later : c <= d
    BY <1>0, <1>2, LeastBranch
  <2>2. NextBranch(b) \in later /\ \A d \in later : NextBranch(b) <= d
    BY <1>2, <2>1 DEF NextBranch
  <2> QED
    BY <1>0, <2>2
<1> QED
  BY <1>1, <1>2

(* Every pipeline of the list is one of the catalogue's branches.               *)
LEMMA InitIInv == Init => IInv
<1> SUFFICES ASSUME Init PROVE IInv
  OBVIOUS
<1> USE PipelineAssumption
<1>1. {1, 2} \subseteq Branches
  BY DEF Branches
<1>2. /\ conf \in [branches : SUBSET Branches, live : BOOLEAN, valves : SUBSET Branches,
                   closed : SUBSET Branches, async : SUBSET Branches]
      /\ conf.async \subseteq conf.branches /\ conf.closed \subseteq conf.valves
      /\ conf.live \/ conf.async = conf.branches
  <2>1. PICK B, V, C, A \in SUBSET Branches, live \in BOOLEAN :
            /\ A \subseteq B /\ C \subseteq V /\ (live \/ A = B)
            /\ conf = Pipeline(B, live, V, C, A)
    <3>1. CASE conf \in ServerPipelines
      BY <3>1 DEF ServerPipelines
    <3>2. CASE conf \in StallVariants
      BY <1>1, <3>2 DEF StallVariants
    <3>3. CASE conf \in PrerollVariants
      BY <1>1, <3>3 DEF PrerollVariants
    <3>4. CASE conf \in AsyncVariants
      BY <1>1, <3>4 DEF AsyncVariants
    <3>5. CASE conf \in SingleBin \cup TwoBins
      BY <1>1, <3>5 DEF SingleBin, TwoBins
    <3> QED
      BY <3>1, <3>2, <3>3, <3>4, <3>5 DEF Init
  <2>2. conf = [branches |-> B, live |-> live, valves |-> V, closed |-> C, async |-> A]
    BY <2>1 DEF Pipeline
  <2>3. /\ conf.branches = B /\ conf.valves = V /\ conf.closed = C /\ conf.async = A
        /\ conf.live = live
    BY <2>2
  <2>4. conf \in [branches : SUBSET Branches, live : BOOLEAN, valves : SUBSET Branches,
                  closed : SUBSET Branches, async : SUBSET Branches]
    BY <2>2
  <2> QED
    BY <2>1, <2>3, <2>4
<1>3. TypeOK
  <2>1. queue \in [Branches -> 0..Capacity] /\ encoded \in [Branches -> 0..1]
    BY DEF Init
  <2>2. stage \in [Branches -> {"idle", "encoding", "waiting"}]
    BY DEF Init
  <2> QED
    BY <1>2, <2>1, <2>2 DEF Init, TypeOK
<1>4. EncoderIdleWhenOff
  BY <1>2 DEF Init, EncoderIdleWhenOff
<1>5. LevelInv
  BY <1>2 DEF Init, LevelInv, Level
<1>6. GateInv
  BY <1>2 DEF GateInv
<1> QED
  BY <1>3, <1>4, <1>5, <1>6 DEF IInv

(* Every step keeps the types.                                                  *)
LEMMA NextTypeOK == TypeOK /\ EncoderIdleWhenOff /\ [Next]_vars => TypeOK'
<1> SUFFICES ASSUME TypeOK, EncoderIdleWhenOff, [Next]_vars PROVE TypeOK'
  OBVIOUS
<1> USE PipelineAssumption
<1>1. CASE Control
  <2>1. CASE Play
    BY <2>1 DEF TypeOK, Play
  <2>2. ASSUME NEW b \in Branches, NEW drop \in BOOLEAN, SetDrop(b, drop) PROVE TypeOK'
    <3>1. encoded' \in [Branches -> 0..1] /\ closed' \subseteq conf.valves
      BY <2>2 DEF TypeOK, SetDrop
    <3> QED
      BY <2>2, <3>1 DEF TypeOK, SetDrop
  <2> QED
    BY <1>1, <2>1, <2>2 DEF Control
<1>2. CASE Commit
  BY <1>2 DEF TypeOK, Commit
<1>3. CASE Produce
  <2>1. NextBranch(0) \in {0} \cup conf.branches
    BY NextBranchIsNearest
  <2> QED
    BY <1>3, <2>1 DEF TypeOK, Produce
<1>4. ASSUME NEW b \in Branches, Push(b) PROVE TypeOK'
  <2>1. NextBranch(b) \in {0} \cup conf.branches
    BY NextBranchIsNearest
  <2>2. queue' \in [Branches -> 0..Capacity]
    BY <1>4 DEF TypeOK, Push
  <2> QED
    BY <1>4, <2>1, <2>2 DEF TypeOK, Push
<1>5. ASSUME NEW b \in Branches, Take(b) PROVE TypeOK'
  <2>1. queue' \in [Branches -> 0..Capacity]
    BY <1>5 DEF TypeOK, Take
  <2>2. starved' \in BOOLEAN
    BY <1>5 DEF TypeOK, Take
  <2> QED
    BY <1>5, <2>1, <2>2 DEF TypeOK, Take
<1>6. ASSUME NEW b \in Branches, Encode(b) PROVE TypeOK'
  <2>1. b \in closed => encoded[b] = 0
    BY <1>6 DEF TypeOK, EncoderIdleWhenOff, Encode
  <2>2. encoded' \in [Branches -> 0..1]
    BY <1>6, <2>1 DEF TypeOK, Encode
  <2> QED
    BY <1>6, <2>2 DEF TypeOK, Encode
<1>7. ASSUME NEW b \in Branches, Render(b) PROVE TypeOK'
  <2>1. stage' \in [Branches -> {"idle", "encoding", "waiting"}]
    BY <1>7 DEF TypeOK, Render
  <2> QED
    BY <1>7, <2>1 DEF TypeOK, Render
<1>8. CASE UNCHANGED vars
  BY <1>8 DEF TypeOK, vars
<1> QED
  BY <1>1, <1>2, <1>3, <1>4, <1>5, <1>6, <1>7, <1>8 DEF Next, Branch

(* A branch that is off has encoded at most what it had in hand.                *)
LEMMA NextEncoder == TypeOK /\ EncoderIdleWhenOff /\ [Next]_vars => EncoderIdleWhenOff'
<1> SUFFICES ASSUME TypeOK, EncoderIdleWhenOff, [Next]_vars,
                    NEW a \in closed'
             PROVE  (encoded[a] + (IF stage[a] = "encoding" THEN 1 ELSE 0) <= 1)'
  BY DEF EncoderIdleWhenOff
<1>0. closed \subseteq Branches /\ (a \in closed => encoded[a] + (IF stage[a] = "encoding" THEN 1 ELSE 0) <= 1)
  BY DEF TypeOK, EncoderIdleWhenOff
<1>1. CASE Play \/ Commit \/ Produce \/ UNCHANGED vars
  BY <1>0, <1>1 DEF Play, Commit, Produce, vars
<1>2. ASSUME NEW b \in Branches, NEW drop \in BOOLEAN, SetDrop(b, drop)
      PROVE  (encoded[a] + (IF stage[a] = "encoding" THEN 1 ELSE 0) <= 1)'
  BY <1>0, <1>2 DEF TypeOK, SetDrop
<1>3. ASSUME NEW b \in Branches, Branch(b)
      PROVE  (encoded[a] + (IF stage[a] = "encoding" THEN 1 ELSE 0) <= 1)'
  BY <1>0, <1>3 DEF TypeOK, Branch, Push, Take, Encode, Render
<1> QED
  BY <1>1, <1>2, <1>3 DEF Next, Control

(* Until a valve has swallowed a buffer the branches that gate the preroll keep *)
(* the same number of them.                                                    *)
LEMMA NextLevel == IInv /\ TypeOK' /\ [Next]_vars => LevelInv'
<1> SUFFICES ASSUME IInv, TypeOK', [Next]_vars, ~playing', ~starved',
                    NEW a \in conf'.async, NEW c \in conf'.async
             PROVE  Level(a)' = Level(c)'
  BY DEF LevelInv
<1> USE PipelineAssumption
<1>0. /\ TypeOK /\ conf' = conf /\ ~playing /\ ~starved
      /\ a \in conf.async /\ c \in conf.async
      /\ a \in conf.branches /\ c \in conf.branches
      /\ a \in Branches /\ c \in Branches /\ conf.async \subseteq Branches
  <2>1. conf' = conf
    BY DEF Next, Control, Play, SetDrop, Commit, Produce, Branch, Push, Take, Encode, Render, vars
  <2>2. ~playing
    BY DEF Next, Control, Play, SetDrop, Commit, Produce, Branch, Push, Take, Encode, Render, vars
  <2>3. ~starved
    <3>1. ASSUME NEW b \in Branches, Take(b) PROVE ~starved
      BY <3>1, Zenon DEF Take
    <3>2. ASSUME NEW b \in Branches, Push(b) \/ Encode(b) \/ Render(b) PROVE ~starved
      BY <3>2 DEF Push, Encode, Render
    <3> QED
      BY <3>1, <3>2 DEF Next, Control, Play, SetDrop, Commit, Produce, Branch, vars
  <2>4. TypeOK /\ a \in conf.async /\ c \in conf.async
    BY <2>1 DEF IInv
  <2> QED
    BY <2>1, <2>2, <2>3, <2>4 DEF TypeOK
<1>1. Level(a) = Level(c)
  BY <1>0 DEF IInv, LevelInv
<1>2. /\ queue \in [Branches -> 0..Capacity] /\ at \in {0} \cup Branches /\ Branches \subseteq Nat \ {0}
      /\ stage \in [Branches -> {"idle", "encoding", "waiting"}]
  BY <1>0 DEF TypeOK, Branches
<1>3. CASE Control \/ Commit \/ UNCHANGED vars
  <2>1. UNCHANGED <<queue, stage, at>>
    BY <1>3 DEF Control, Play, SetDrop, Commit, vars
  <2> QED
    BY <1>1, <2>1 DEF Level
<1>4. CASE Produce
  <2>1. NextBranch(0) # 0 => NextBranch(0) <= a /\ NextBranch(0) <= c
    BY <1>0, <1>2, NextBranchIsNearest
  <2>2. NextBranch(0) \in Nat
    <3>1. NextBranch(0) \in {0} \cup conf.branches
      BY <1>0, NextBranchIsNearest
    <3>2. \A x \in conf.branches : x \in Nat
      BY <1>0, <1>2 DEF TypeOK
    <3> QED
      BY <3>1, <3>2
  <2> QED
    BY <1>0, <1>1, <1>2, <1>4, <2>1, <2>2 DEF Level, Produce
<1>5. ASSUME NEW b \in Branches, Push(b) PROVE Level(a)' = Level(c)'
  <2>1. NextBranch(b) \in Nat
    <3>1. NextBranch(b) \in {0} \cup conf.branches
      BY <1>0, NextBranchIsNearest
    <3>2. \A x \in conf.branches : x \in Nat
      BY <1>0, <1>2 DEF TypeOK
    <3> QED
      BY <3>1, <3>2
  <2>2. ASSUME NEW x \in conf.branches, x \in Branches
        PROVE  Level(x)' = Level(x) + (IF NextBranch(b) = 0 THEN 1 ELSE 0)
    <3>1. /\ NextBranch(b) = 0 => x <= b
          /\ NextBranch(b) # 0 => NextBranch(b) > b /\ (x > b => NextBranch(b) <= x)
      BY <1>0, <2>2, NextBranchIsNearest
    <3>2. queue'[x] = queue[x] + (IF x = b THEN 1 ELSE 0)
      BY <1>2, <1>5, <2>2 DEF Push
    <3>3. stage' = stage /\ at = b /\ at' = NextBranch(b)
      BY <1>5 DEF Push
    <3>4. queue[x] \in Nat /\ x \in Nat /\ b \in Nat \ {0}
      BY <1>2, <1>5, <2>2
    <3> QED
      BY <2>1, <3>1, <3>2, <3>3, <3>4 DEF Level
  <2> QED
    BY <1>0, <1>1, <2>2
<1>6. ASSUME NEW b \in Branches, Take(b) \/ Encode(b) \/ Render(b) PROVE Level(a)' = Level(c)'
  <2>1. ASSUME NEW x \in conf.async, x \in Branches PROVE Level(x)' = Level(x)
    <3>1. CASE Take(b)
      <4>1. x = b => b \notin closed
        BY <1>0, <2>1, <3>1 DEF Take
      <4>2. queue'[x] = queue[x] - (IF x = b THEN 1 ELSE 0)
        BY <1>2, <2>1, <3>1 DEF Take
      <4>3. /\ x = b => stage[x] = "idle" /\ stage'[x] = "encoding"
            /\ x # b => stage'[x] = stage[x]
        BY <1>2, <2>1, <3>1, <4>1 DEF Take
      <4>4. queue[x] \in Nat /\ at' = at
        BY <1>2, <2>1, <3>1 DEF Take
      <4> QED
        BY <1>2, <4>2, <4>3, <4>4 DEF Level
    <3>2. CASE Encode(b)
      BY <1>2, <2>1, <3>2 DEF Encode, Level
    <3>3. CASE Render(b)
      <4>1. x # b
        BY <1>0, <2>1, <3>3 DEF Render, Renders
      <4> QED
        BY <1>2, <2>1, <3>3, <4>1 DEF Render, Level
    <3> QED
      BY <1>6, <3>1, <3>2, <3>3
  <2> QED
    BY <1>0, <1>1, <2>1
<1> QED
  BY <1>3, <1>4, <1>5, <1>6 DEF Next, Branch

(* A pipeline keeps the configuration it was built with.                        *)
LEMMA NextGate == GateInv /\ [Next]_vars => conf' = conf /\ GateInv'
<1> SUFFICES ASSUME GateInv, [Next]_vars PROVE conf' = conf
  BY DEF GateInv
<1> QED
  BY DEF Next, Control, Play, SetDrop, Commit, Produce, Branch, Push, Take, Encode, Render, vars

-----------------------------------------------------------------------------
(* The inductive invariant holds in every pipeline of the list.                 *)
THEOREM Invariance == Spec => []IInv
<1>1. IInv /\ [Next]_vars => IInv'
  BY NextTypeOK, NextEncoder, NextLevel, NextGate DEF IInv
<1> QED
  BY <1>1, InitIInv, PTL DEF Spec

(* Every variable of the dataflow keeps its type.                              *)
THEOREM TypeCorrect == Spec => []TypeOK
<1>1. IInv => TypeOK
  BY DEF IInv
<1> QED
  BY <1>1, Invariance, PTL

(* A profile that is switched off costs at most the buffer its encoder had.     *)
THEOREM OffIsCheap == Spec => []EncoderIdleWhenOff
<1>1. IInv => EncoderIdleWhenOff
  BY DEF IInv
<1> QED
  BY <1>1, Invariance, PTL

(* The circular wait needs a valve that swallowed a buffer of the preroll: with *)
(* the same number of buffers in every gating branch none is full beside one    *)
(* that is empty.                                                              *)
LEMMA WedgedIsStarved == IInv /\ Wedged => starved
<1> SUFFICES ASSUME IInv, Wedged, ~starved PROVE FALSE
  OBVIOUS
<1>1. PICK b \in conf.async : queue[b] = 0 /\ stage[b] = "idle"
  BY DEF Wedged
<1>2. at \in conf.async /\ queue[at] = Capacity /\ stage[at] = "waiting" /\ ~playing
  BY DEF Wedged
<1>3. at \in Nat /\ b \in Nat /\ Capacity \in Nat \ {0}
  BY <1>1, <1>2, PipelineAssumption DEF IInv, TypeOK, Branches
<1>4. Level(at) = Level(b)
  BY <1>1, <1>2 DEF IInv, LevelInv
<1>5. Level(at) = Capacity + 1
  BY <1>2, <1>3 DEF Level
<1>6. Level(b) <= 0
  BY <1>1, <1>3 DEF Level
<1> QED
  BY <1>3, <1>4, <1>5, <1>6

(* When no thread can go on, the tee is blocked at a full queue whose sink      *)
(* waits for PLAYING, and PLAYING waits for a sink without a first buffer.      *)
LEMMA StoppedIsWedged == IInv /\ played /\ ~Flowing => Wedged
<1> SUFFICES ASSUME IInv, played, ~Flowing PROVE Wedged
  OBVIOUS
<1>0. /\ at \in {0} \cup conf.branches /\ conf.branches \subseteq Branches
      /\ conf.async \subseteq conf.branches
      /\ queue \in [Branches -> 0..Capacity] /\ Capacity \in Nat \ {0}
      /\ stage \in [Branches -> {"idle", "encoding", "waiting"}]
  BY PipelineAssumption DEF IInv, TypeOK
<1>1. ASSUME NEW b \in Branches
      PROVE  /\ at = b => queue[b] = Capacity
             /\ stage[b] = "idle" => queue[b] = 0
             /\ stage[b] \in {"idle", "waiting"}
             /\ stage[b] = "waiting" => ~Renders(b)
  <2>1. /\ ~(at = b /\ queue[b] < Capacity)
        /\ ~(stage[b] = "idle" /\ queue[b] > 0)
        /\ stage[b] # "encoding"
        /\ ~(stage[b] = "waiting" /\ Renders(b))
    BY <1>1 DEF Flowing
  <2>2. queue[b] \in 0..Capacity /\ stage[b] \in {"idle", "encoding", "waiting"}
    BY <1>0, <1>1
  <2> QED
    BY <1>0, <2>1, <2>2
<1>2. at \in conf.branches /\ at \in Branches
  BY <1>0 DEF Flowing
<1>3. queue[at] = Capacity /\ stage[at] = "waiting" /\ ~Renders(at)
  BY <1>0, <1>1, <1>2
<1>4. ~playing /\ at \in conf.async
  BY <1>2, <1>3 DEF Renders, IInv, GateInv
<1>5. PICK b \in conf.async : stage[b] # "waiting"
  BY <1>4 DEF Flowing, Pending
<1>6. stage[b] = "idle" /\ queue[b] = 0
  BY <1>0, <1>1, <1>5
<1> QED
  BY <1>3, <1>4, <1>5, <1>6 DEF Wedged

(* No pipeline wedges unless a valve swallowed a buffer of the preroll, and     *)
(* nothing else stops one.                                                     *)
THEOREM WedgeNeedsValve == Spec => []StallNeedsEarlyOff
<1>1. IInv => StallNeedsEarlyOff
  BY WedgedIsStarved, StoppedIsWedged DEF StallNeedsEarlyOff
<1> QED
  BY <1>1, Invariance, PTL

(* A pipeline that has wedged stays so, whatever is switched.                   *)
THEOREM WedgeStays == Spec => StallIsPermanent
<1>1. ASSUME IInv, Wedged, [Next]_vars PROVE Wedged'
  <2>1. PICK b \in conf.async : queue[b] = 0 /\ stage[b] = "idle"
    BY <1>1 DEF Wedged
  <2>2. /\ ~playing /\ at \in conf.async /\ queue[at] = Capacity /\ stage[at] = "waiting"
        /\ at # 0 /\ at \in Branches /\ b \in Branches /\ Capacity \in Nat \ {0}
        /\ stage \in [Branches -> {"idle", "encoding", "waiting"}]
        /\ queue \in [Branches -> 0..Capacity]
    BY <1>1, <2>1, PipelineAssumption DEF Wedged, IInv, TypeOK, Branches
  <2>3. CASE Control \/ UNCHANGED vars
    BY <1>1, <2>3 DEF Control, Play, SetDrop, vars, Wedged
  <2>4. ~Commit
    BY <2>1 DEF Commit
  <2>5. ~Produce
    BY <2>2 DEF Produce
  <2>6. ASSUME NEW x \in Branches, Branch(x) PROVE Wedged'
    <3>1. ~Push(x)
      BY <2>2 DEF Push
    <3>2. CASE Take(x)
      <4>1. x # b /\ x # at
        BY <2>1, <2>2, <3>2 DEF Take
      <4> QED
        BY <2>1, <2>2, <3>2, <4>1 DEF Take, Wedged
    <3>3. CASE Encode(x)
      <4>1. x # b /\ x # at
        BY <2>1, <2>2, <3>3 DEF Encode
      <4> QED
        BY <2>1, <2>2, <3>3, <4>1 DEF Encode, Wedged
    <3>4. CASE Render(x)
      <4>1. x # b /\ x # at
        BY <2>1, <2>2, <3>4 DEF Render, Renders
      <4> QED
        BY <2>1, <2>2, <3>4, <4>1 DEF Render, Wedged
    <3> QED
      BY <2>6, <3>1, <3>2, <3>3, <3>4 DEF Branch
  <2> QED
    BY <1>1, <2>3, <2>4, <2>5, <2>6 DEF Next
<1>2. IInv /\ [Next]_vars => [Wedged => Wedged']_vars
  BY <1>1
<1> QED
  BY <1>2, Invariance, PTL DEF Spec, StallIsPermanent

-----------------------------------------------------------------------------
(* The rule of NOTES.md:42 is enough: while no valve is closed in front of a    *)
(* gating sink before PLAYING commits, the dataflow never stops, whatever is    *)
(* switched afterwards and however long it runs.                               *)
THEOREM LateSwitchNeverStalls ==
    Spec /\ []SwitchedLate => [](~starved /\ ~Wedged /\ (played => Flowing))
<1>1. Init => ~starved
  BY DEF Init
<1>2. ASSUME TypeOK, SwitchedLate, ~starved, [Next]_vars PROVE ~starved'
  <2>1. ASSUME NEW b \in Branches, Take(b) PROVE ~starved'
    <3>1. ~(~playing /\ b \in closed /\ b \in conf.async)
      BY <1>2 DEF SwitchedLate
    <3> QED
      BY <1>2, <2>1, <3>1, Zenon DEF Take
  <2>2. ASSUME NEW b \in Branches, Push(b) \/ Encode(b) \/ Render(b) PROVE ~starved'
    BY <1>2, <2>2 DEF Push, Encode, Render
  <2>3. CASE Control \/ Commit \/ Produce \/ UNCHANGED vars
    BY <1>2, <2>3 DEF Control, Play, SetDrop, Commit, Produce, vars
  <2> QED
    BY <1>2, <2>1, <2>2, <2>3 DEF Next, Branch
<1>3. IInv => TypeOK
  BY DEF IInv
<1>4. IInv /\ ~starved => ~Wedged /\ (played => Flowing)
  BY WedgedIsStarved, StoppedIsWedged
<1> QED
  BY <1>1, <1>2, <1>3, <1>4, Invariance, PTL DEF Spec

(* The server's pipelines start with every valve open, so it is enough that     *)
(* setProfileEnabled() waits for the commit of PLAYING, which the server does   *)
(* not make it do (docs/ARCHITECTURE-SERVER-CLIENT.md:113-114).                 *)
THEOREM ServerThatWaitsNeverStalls ==
    /\ Spec
    /\ conf \in ServerPipelines
    /\ [][closed' # closed => playing]_vars
    => [](~Wedged /\ (played => Flowing))
<1> DEFINE AllOpen == ~playing => closed = {}
<1>1. Init /\ conf \in ServerPipelines => AllOpen
  BY DEF Init, ServerPipelines, Pipeline
<1>2. AllOpen /\ [Next]_vars /\ [closed' # closed => playing]_vars => AllOpen'
  <2> SUFFICES ASSUME AllOpen, [Next]_vars, [closed' # closed => playing]_vars, ~playing'
               PROVE  closed' = {}
    OBVIOUS
  <2>1. ~playing
    BY DEF Next, Control, Play, SetDrop, Commit, Produce, Branch, Push, Take, Encode, Render, vars
  <2>2. closed' = closed
    BY <2>1 DEF vars
  <2> QED
    BY <2>1, <2>2
<1>3. AllOpen => SwitchedLate
  BY DEF SwitchedLate
<1> HIDE DEF AllOpen
<1> QED
  BY <1>1, <1>2, <1>3, LateSwitchNeverStalls, PTL DEF Spec

=============================================================================
