--------------------------- MODULE ProfileHostProofs ---------------------------
(* Proofs about ProfileHost, for a catalogue of any length and any number of    *)
(* setups: the types, the ownership of every GStreamer object, and that a setup *)
(* leaves all of the pipeline or none of it.                                    *)
EXTENDS ProfileHost, TLAPS

(* A host that was just constructed owns nothing.                               *)
LEMMA InitIInv == Init => IInv
<1> SUFFICES ASSUME Init PROVE IInv
  OBVIOUS
<1>1. TypeOK
  <2>1. closed \in [Profiles -> BOOLEAN]
    BY Zenon DEF Init
  <2>2. attempts \in 0..MaxAttempts
    BY HostAssumption DEF Init
  <2>3. refs \in [Elements -> -1..1] /\ binRefs \in [Profiles -> 0..2]
    BY DEF Init
  <2> QED
    BY <2>1, <2>2, <2>3 DEF Init, TypeOK, Faults
<1>2. HeldByOwners /\ SetupAllOrNothing /\ LifeInv /\ LossInv
  BY DEF Init, HeldByOwners, SetupAllOrNothing, LifeInv, LossInv, LossNeedsRetry, Count,
     Elements
<1> QED
  BY <1>1, <1>2 DEF IInv

(* Nothing gets out of reach in a first setup, unless a factory is missing.     *)
LEMMA NextLoss == IInv /\ [Next]_vars => LossInv'
<1> SUFFICES ASSUME IInv, [Next]_vars PROVE LossInv'
  OBVIOUS
<1>0. attempts \in Nat /\ LossInv
  BY HostAssumption DEF IInv, TypeOK
<1>1. CASE CreateFails \/ LinkFails
  <2>1. attempts' = attempts + 1 /\ lost' = lost /\ fault' # "bin"
    BY <1>1 DEF CreateFails, LinkFails, Attempt
  <2>2. attempts = 0 \/ attempts' > 1
    BY <1>0, <2>1
  <2> QED
    BY <1>0, <2>1, <2>2 DEF LossInv, LossNeedsRetry
<1>2. CASE BinFails
  <2>1. attempts' = attempts + 1 /\ fault' = "bin"
    BY <1>2 DEF BinFails, Attempt
  <2> QED
    BY <1>0, <2>1 DEF LossInv, LossNeedsRetry
<1>3. CASE PadFails \/ Succeeds
  <2>1. attempts' = attempts + 1 /\ lost' \subseteq lost \cup bin
    BY <1>3 DEF PadFails, Succeeds, Attempt
  <2>2. attempts = 0 => lost' = {}
    BY <1>0, <2>1 DEF LossInv
  <2>3. attempts = 0 \/ attempts' > 1
    BY <1>0, <2>1
  <2> QED
    BY <1>0, <2>1, <2>2, <2>3 DEF LossInv, LossNeedsRetry
<1>4. ASSUME NEW p \in Profiles, NEW enabled \in BOOLEAN, SetProfileEnabled(p, enabled)
      PROVE  LossInv'
  BY <1>0, <1>4 DEF SetProfileEnabled, LossInv, LossNeedsRetry, owned
<1>5. CASE \/ SetVideoSource \/ Play \/ Stop \/ AttachBusWatch \/ DetachBusWatch
           \/ UNCHANGED vars
  BY <1>0, <1>5
  DEF SetVideoSource, Play, Stop, SetPipelineState, AttachBusWatch, DetachBusWatch,
      vars, LossInv, LossNeedsRetry, owned
<1>6. CASE Destroy
  BY <1>0, <1>6 DEF Destroy, KeptDropped, LossInv, LossNeedsRetry
<1> QED
  BY <1>1, <1>2, <1>3, <1>4, <1>5, <1>6 DEF Next, SetupPipeline

(* Each operation of the host, failing or not, preserves the invariant.         *)
LEMMA NextIInv == IInv /\ [Next]_vars => IInv'
<1> SUFFICES ASSUME IInv, [Next]_vars PROVE IInv'
  OBVIOUS
<1> USE HostAssumption
<1>0. LossInv'
  BY NextLoss
<1>1. CASE SetVideoSource
  <2>1. TypeOK'
    BY <1>1 DEF IInv, TypeOK, SetVideoSource, owned
  <2>2. HeldByOwners'
    BY <1>1 DEF IInv, HeldByOwners, SetVideoSource, owned
  <2>3. SetupAllOrNothing'
    BY <1>1 DEF IInv, SetupAllOrNothing, SetVideoSource, owned
  <2>4. LifeInv'
    BY <1>1 DEF IInv, LifeInv, SetVideoSource, owned
  <2> QED
    BY <1>0, <2>1, <2>2, <2>3, <2>4 DEF IInv
<1>2. CASE CreateFails
  <2>1. TypeOK'
    <3>1. refs' \in [Elements -> -1..1]
      BY <1>2 DEF CreateFails, Cleanup, Count
    <3>2. binRefs' \in [Profiles -> 0..2]
      BY <1>2 DEF IInv, TypeOK, CreateFails, Cleanup, Count
    <3>3. closed' \in [Profiles -> BOOLEAN]
      BY <1>2, Zenon DEF IInv, TypeOK, CreateFails
    <3>4. bin' \subseteq Profiles /\ inside' \subseteq Profiles /\ lost' \subseteq Profiles
      BY <1>2 DEF IInv, TypeOK, CreateFails, Cleanup
    <3>5. attempts' \in 0..MaxAttempts
      BY <1>2 DEF IInv, TypeOK, CreateFails, Attempt, CanSetup
    <3>6. fault' \in Faults /\ UNCHANGED <<alive, source, state, watch>>
      BY <1>2 DEF CreateFails, Attempt, Faults
    <3>7. set' = {} /\ filled' = FALSE /\ linked' = FALSE /\ gst' \in {gst, "NULL"}
      BY <1>2 DEF CreateFails, Cleanup
    <3> QED
      BY <3>1, <3>2, <3>3, <3>4, <3>5, <3>6, <3>7 DEF IInv, TypeOK
  <2>2. HeldByOwners'
    BY <1>2
    DEF IInv, HeldByOwners, SetupAllOrNothing, LifeInv, CreateFails,
        Attempt, CanSetup, Cleanup, Count, Elements, Chain
  <2>3. SetupAllOrNothing'
    BY <1>2 DEF SetupAllOrNothing, CreateFails, Cleanup
  <2>4. LifeInv'
    BY <1>2
    DEF IInv, SetupAllOrNothing, LifeInv, CreateFails, Attempt, CanSetup,
        Cleanup, Count, Elements, Chain
  <2> QED
    BY <1>0, <2>1, <2>2, <2>3, <2>4 DEF IInv
<1>3. CASE LinkFails
  <2>1. TypeOK'
    BY <1>3 DEF IInv, TypeOK, LinkFails, Attempt, CanSetup, Faults
  <2>2. HeldByOwners'
    BY <1>3 DEF IInv, HeldByOwners, LinkFails, Count
  <2>3. SetupAllOrNothing'
    BY <1>3 DEF IInv, SetupAllOrNothing, LinkFails, Attempt
  <2>4. LifeInv'
    BY <1>3
    DEF IInv, SetupAllOrNothing, LifeInv, LinkFails, Attempt, CanSetup, Count,
        Elements
  <2> QED
    BY <1>0, <2>1, <2>2, <2>3, <2>4 DEF IInv
<1>4. CASE BinFails
  <2>1. TypeOK'
    <3>1. refs' \in [Elements -> -1..1]
      BY <1>4 DEF BinFails, Cleanup, Count
    <3>2. binRefs' \in [Profiles -> 0..2]
      BY <1>4
      DEF IInv, TypeOK, HeldByOwners, BinFails, Cleanup, BinCounts, Count
    <3>3. closed' \in [Profiles -> BOOLEAN]
      BY <1>4, Zenon DEF IInv, TypeOK, BinFails
    <3>4. bin' \subseteq Profiles /\ inside' \subseteq Profiles /\ lost' \subseteq Profiles
      BY <1>4 DEF IInv, TypeOK, BinFails, Cleanup, Profiles
    <3>5. attempts' \in 0..MaxAttempts
      BY <1>4 DEF IInv, TypeOK, BinFails, Attempt, CanSetup
    <3>6. fault' \in Faults /\ UNCHANGED <<alive, source, state, watch>>
      BY <1>4 DEF BinFails, Attempt, Faults
    <3>7. set' = {} /\ filled' = FALSE /\ linked' = FALSE /\ gst' \in {gst, "NULL"}
      BY <1>4 DEF BinFails, Cleanup
    <3> QED
      BY <3>1, <3>2, <3>3, <3>4, <3>5, <3>6, <3>7 DEF IInv, TypeOK
  <2>2. HeldByOwners'
    BY <1>4
    DEF IInv, TypeOK, HeldByOwners, SetupAllOrNothing, LifeInv,
        BinFails, Attempt, CanSetup, Cleanup, BinCounts, Count, Elements, Chain,
        Profiles
  <2>3. SetupAllOrNothing'
    BY <1>4 DEF SetupAllOrNothing, BinFails, Cleanup
  <2>4. LifeInv'
    BY <1>4
    DEF IInv, SetupAllOrNothing, LifeInv, BinFails, Attempt, CanSetup, Cleanup,
        Count, Elements, Chain
  <2> QED
    BY <1>0, <2>1, <2>2, <2>3, <2>4 DEF IInv
<1>5. CASE PadFails
  <2>1. TypeOK'
    <3>1. refs' \in [Elements -> -1..1]
      BY <1>5 DEF PadFails, Cleanup, Count
    <3>2. binRefs' \in [Profiles -> 0..2]
      BY <1>5 DEF IInv, TypeOK, PadFails, Cleanup, BinCounts, Count
    <3>3. closed' \in [Profiles -> BOOLEAN]
      BY <1>5, Zenon DEF IInv, TypeOK, PadFails, CreateBins
    <3>4. bin' \subseteq Profiles /\ inside' \subseteq Profiles /\ lost' \subseteq Profiles
      BY <1>5 DEF IInv, TypeOK, PadFails, Cleanup, CreateBins, Profiles
    <3>5. attempts' \in 0..MaxAttempts
      BY <1>5 DEF IInv, TypeOK, PadFails, Attempt, CanSetup
    <3>6. fault' \in Faults /\ UNCHANGED <<alive, source, state, watch>>
      BY <1>5 DEF PadFails, Attempt, Faults
    <3>7. set' = {} /\ filled' = FALSE /\ linked' = FALSE /\ gst' \in {gst, "NULL"}
      BY <1>5 DEF PadFails, Cleanup
    <3> QED
      BY <3>1, <3>2, <3>3, <3>4, <3>5, <3>6, <3>7 DEF IInv, TypeOK
  <2>2. HeldByOwners'
    BY <1>5
    DEF IInv, HeldByOwners, SetupAllOrNothing, LifeInv, PadFails,
        Attempt, CanSetup, Cleanup, BinCounts, CreateBins, Count, Elements, Chain,
        Profiles
  <2>3. SetupAllOrNothing'
    BY <1>5 DEF SetupAllOrNothing, PadFails, Cleanup
  <2>4. LifeInv'
    BY <1>5
    DEF IInv, SetupAllOrNothing, LifeInv, PadFails, Attempt, CanSetup, Cleanup,
        Count, Elements, Chain
  <2> QED
    BY <1>0, <2>1, <2>2, <2>3, <2>4 DEF IInv
<1>6. CASE Succeeds
  <2>1. TypeOK'
    BY <1>6
    DEF IInv, TypeOK, Succeeds, Attempt, CanSetup, BinCounts, CreateBins, Count,
        Faults, Profiles
  <2>2. HeldByOwners'
    BY <1>6
    DEF HeldByOwners, Succeeds, BinCounts, CreateBins, Count, Profiles
  <2>3. SetupAllOrNothing'
    BY <1>6 DEF IInv, TypeOK, SetupAllOrNothing, Succeeds, CreateBins, Profiles
  <2>4. LifeInv'
    BY <1>6
    DEF LifeInv, Succeeds, Attempt, CanSetup, CreateBins, Count, Elements,
        Profiles
  <2> QED
    BY <1>0, <2>1, <2>2, <2>3, <2>4 DEF IInv
<1>7. CASE Play
  <2>1. TypeOK'
    BY <1>7 DEF IInv, TypeOK, Play, SetPipelineState, owned
  <2>2. HeldByOwners'
    BY <1>7 DEF IInv, HeldByOwners, Play, SetPipelineState, owned
  <2>3. SetupAllOrNothing'
    BY <1>7 DEF IInv, SetupAllOrNothing, Play, SetPipelineState, owned
  <2>4. LifeInv'
    BY <1>7 DEF IInv, LifeInv, Play, SetPipelineState, owned
  <2> QED
    BY <1>0, <2>1, <2>2, <2>3, <2>4 DEF IInv
<1>8. CASE Stop
  <2>1. TypeOK'
    BY <1>8 DEF IInv, TypeOK, Stop, SetPipelineState, owned
  <2>2. HeldByOwners'
    BY <1>8 DEF IInv, HeldByOwners, Stop, SetPipelineState, owned
  <2>3. SetupAllOrNothing'
    BY <1>8 DEF IInv, SetupAllOrNothing, Stop, SetPipelineState, owned
  <2>4. LifeInv'
    BY <1>8 DEF IInv, LifeInv, Stop, SetPipelineState, owned
  <2> QED
    BY <1>0, <2>1, <2>2, <2>3, <2>4 DEF IInv
<1>9. ASSUME NEW p \in Profiles, NEW enabled \in BOOLEAN, SetProfileEnabled(p, enabled)
      PROVE  IInv'
  <2>1. TypeOK'
    BY <1>9 DEF IInv, TypeOK, SetProfileEnabled, StateFor, owned
  <2>2. HeldByOwners'
    BY <1>9 DEF IInv, HeldByOwners, SetProfileEnabled, owned
  <2>3. SetupAllOrNothing'
    BY <1>9 DEF IInv, SetupAllOrNothing, SetProfileEnabled, owned
  <2>4. LifeInv'
    BY <1>9 DEF IInv, LifeInv, SetProfileEnabled, owned
  <2> QED
    BY <1>0, <2>1, <2>2, <2>3, <2>4 DEF IInv
<1>10. CASE AttachBusWatch
  <2>1. TypeOK'
    BY <1>10 DEF IInv, TypeOK, AttachBusWatch, owned
  <2>2. HeldByOwners'
    BY <1>10 DEF IInv, HeldByOwners, AttachBusWatch, owned
  <2>3. SetupAllOrNothing'
    BY <1>10 DEF IInv, SetupAllOrNothing, AttachBusWatch, owned
  <2>4. LifeInv'
    BY <1>10 DEF IInv, LifeInv, AttachBusWatch, owned
  <2> QED
    BY <1>0, <2>1, <2>2, <2>3, <2>4 DEF IInv
<1>11. CASE DetachBusWatch
  <2>1. TypeOK'
    BY <1>11 DEF IInv, TypeOK, DetachBusWatch, owned
  <2>2. HeldByOwners'
    BY <1>11 DEF IInv, HeldByOwners, DetachBusWatch, owned
  <2>3. SetupAllOrNothing'
    BY <1>11 DEF IInv, SetupAllOrNothing, DetachBusWatch, owned
  <2>4. LifeInv'
    BY <1>11 DEF IInv, LifeInv, DetachBusWatch, owned
  <2> QED
    BY <1>0, <2>1, <2>2, <2>3, <2>4 DEF IInv
<1>12. CASE Destroy
  <2>1. TypeOK'
    <3>1. refs' \in [Elements -> -1..1]
      BY <1>12
      DEF IInv, HeldByOwners, LifeInv, Destroy, KeptDropped, Cleanup, Count, Chain
    <3>2. binRefs' \in [Profiles -> 0..2]
      BY <1>12 DEF IInv, HeldByOwners, Destroy, KeptDropped, Cleanup, Count
    <3> QED
      BY <1>12, <3>1, <3>2 DEF IInv, TypeOK, Destroy, KeptDropped, Cleanup, Faults, Profiles, Elements, Chain
  <2>2. HeldByOwners'
    BY <1>12
    DEF IInv, HeldByOwners, SetupAllOrNothing, Destroy, KeptDropped, Cleanup, Count,
        Elements, Chain
  <2>3. SetupAllOrNothing'
    BY <1>12 DEF SetupAllOrNothing, Destroy, KeptDropped, Cleanup
  <2>4. LifeInv'
    BY <1>12 DEF IInv, LifeInv, Destroy, KeptDropped, Cleanup, Count, Elements, Chain
  <2> QED
    BY <1>0, <2>1, <2>2, <2>3, <2>4 DEF IInv
<1>13. CASE UNCHANGED vars
  BY <1>13
  DEF IInv, TypeOK, HeldByOwners, SetupAllOrNothing, LifeInv, LossInv,
      LossNeedsRetry, vars, owned
<1> QED
  BY <1>1, <1>2, <1>3, <1>4, <1>5, <1>6, <1>7, <1>8, <1>9, <1>10, <1>11, <1>12,
     <1>13
  DEF Next, SetupPipeline

(* The inductive invariant holds of every behaviour.                            *)
THEOREM Invariance == Spec => []IInv
<1> QED
  BY InitIInv, NextIInv, PTL DEF Spec

(* Every reference to a GStreamer object is that of a pointer or of a parent,   *)
(* through any sequence of failing and succeeding setups and the destructor;    *)
(* and only a retry or a missing factory puts one out of reach.                 *)
THEOREM Ownership == Spec => []ReferencesMatchOwners
<1>1. IInv => ReferencesMatchOwners
  BY DEF IInv, LossInv, ReferencesMatchOwners
<1> QED
  BY <1>1, Invariance, PTL

(* The failed link of the chain is the only thing that frees an element twice,  *)
(* and it always does: the destructor of such a host unrefs the freed chain.    *)
THEOREM DoubleUnrefIsTheFailedLink ==
    Spec => [](NoUnrefOfFreed <=> alive \/ fault # "link")
<1>1. IInv => (NoUnrefOfFreed <=> alive \/ fault # "link")
  <2> SUFFICES ASSUME IInv PROVE NoUnrefOfFreed <=> alive \/ fault # "link"
    OBVIOUS
  <2>1. CASE fault # "link"
    BY <2>1 DEF IInv, HeldByOwners, NoUnrefOfFreed, Count
  <2>2. CASE fault = "link" /\ alive
    BY <2>2 DEF IInv, LifeInv, NoUnrefOfFreed
  <2>3. CASE fault = "link" /\ ~alive
    <3>1. "tee" \in Elements /\ refs["tee"] = -1
      BY <2>3 DEF IInv, LifeInv, Elements, Chain
    <3> QED
      BY <2>3, <3>1 DEF NoUnrefOfFreed
  <2> QED
    BY <2>1, <2>2, <2>3
<1> QED
  BY <1>1, Invariance, PTL

(* A setup builds the whole pipeline or leaves nothing of it.                   *)
THEOREM AllOrNothing == Spec => []SetupAllOrNothing
<1>1. IInv => SetupAllOrNothing
  BY DEF IInv
<1> QED
  BY <1>1, Invariance, PTL

(* Every variable keeps its type.                                               *)
THEOREM TypeCorrect == Spec => []TypeOK
<1>1. IInv => TypeOK
  BY DEF IInv
<1> QED
  BY <1>1, Invariance, PTL

(* No pipeline is freed in PAUSED or PLAYING.                                   *)
THEOREM Teardown == Spec => []DisposedInNull
<1>1. IInv => DisposedInNull
  <2> SUFFICES ASSUME IInv PROVE DisposedInNull
    OBVIOUS
  <2>1. linked => refs["pipeline"] = 1
    BY DEF IInv, SetupAllOrNothing, LifeInv, Elements, Count
  <2> QED
    BY <2>1 DEF IInv, LifeInv, DisposedInNull
<1> QED
  BY <1>1, Invariance, PTL

(* No watch outlives the pipeline whose bus it watches.                         *)
THEOREM WatchIsInside == Spec => []WatchWithinPipeline
<1>1. IInv => WatchWithinPipeline
  <2> SUFFICES ASSUME IInv PROVE WatchWithinPipeline
    OBVIOUS
  <2>1. linked => refs["pipeline"] = 1
    BY DEF IInv, SetupAllOrNothing, LifeInv, Elements, Count
  <2> QED
    BY <2>1 DEF IInv, LifeInv, WatchWithinPipeline
<1> QED
  BY <1>1, Invariance, PTL

(* Only a setup parts the reported state of a profile from its valve.           *)
THEOREM ValveFollowsState == Spec => OnlySetupPartsValveFromState
<1> DEFINE Parts == \A p \in bin \cap bin' : Agree(p) => Agree(p)' \/ attempts' # attempts
<1>1. IInv /\ [Next]_vars => [Parts]_vars
  <2> SUFFICES ASSUME IInv, Next,
                      NEW p \in bin, p \in bin', Agree(p), attempts' = attempts
               PROVE  Agree(p)'
    OBVIOUS
  <2>1. CASE SetupPipeline
    <3>1. attempts' = attempts + 1
      BY <2>1 DEF SetupPipeline, CreateFails, LinkFails, BinFails, PadFails, Succeeds, Attempt
    <3> QED
      BY <3>1, HostAssumption DEF IInv, TypeOK
  <2>2. ASSUME NEW q \in Profiles, NEW enabled \in BOOLEAN, SetProfileEnabled(q, enabled)
        PROVE  Agree(p)'
    <3>1. CASE q = p
      <4>1. closed'[p] = ~enabled /\ state'[p] = StateFor(enabled)
        BY <2>2, <3>1 DEF SetProfileEnabled, IInv, TypeOK
      <4> QED
        BY <4>1 DEF Agree, StateFor
    <3>2. CASE q # p
      <4>1. closed'[p] = closed[p] /\ state'[p] = state[p]
        BY <2>2, <3>2 DEF SetProfileEnabled, IInv, TypeOK
      <4> QED
        BY <4>1 DEF Agree
    <3> QED
      BY <3>1, <3>2
  <2>3. CASE SetVideoSource \/ Play \/ Stop \/ AttachBusWatch \/ DetachBusWatch \/ Destroy
    BY <2>3
    DEF SetVideoSource, Play, Stop, SetPipelineState, AttachBusWatch,
        DetachBusWatch, Destroy, KeptDropped, Agree
  <2> QED
    BY <2>1, <2>2, <2>3 DEF Next
<1> QED
  BY <1>1, Invariance, PTL DEF Spec, OnlySetupPartsValveFromState


-----------------------------------------------------------------------------
(* What PipelineLife sees of the pipeline: nothing of it, the whole of it, or   *)
(* what a failed link has left.                                                 *)
LEMMA PipeIsLinked ==
    IInv => Pipe = IF linked THEN "whole" ELSE IF fault = "link" /\ alive THEN "remnant" ELSE "none"
<1> SUFFICES ASSUME IInv
             PROVE  Pipe = IF linked THEN "whole"
                           ELSE IF fault = "link" /\ alive THEN "remnant" ELSE "none"
  OBVIOUS
<1>0. "pipeline" \in Elements
  BY DEF Elements
<1>1. CASE linked
  <2>1. inside = Profiles /\ \A e \in Elements : refs[e] = 1
    BY <1>1 DEF IInv, SetupAllOrNothing, LifeInv, HeldByOwners, Count
  <2> QED
    BY <1>0, <1>1, <2>1 DEF Pipe
<1>2. CASE ~linked /\ fault = "link" /\ alive
  <2>1. \A e \in Elements : refs[e] = 1
    BY <1>2 DEF IInv, LifeInv
  <2> QED
    BY <1>0, <1>2, <2>1 DEF Pipe
<1>3. CASE ~linked /\ ~(fault = "link" /\ alive)
  <2>1. inside = {} /\ \A e \in Elements : refs[e] <= 0
    <3>1. CASE fault # "link"
      BY <1>3, <3>1 DEF IInv, SetupAllOrNothing, HeldByOwners, Count
    <3>2. CASE fault = "link"
      <4>1. set = {} /\ inside = {}
        BY <1>3, <3>2 DEF IInv, LifeInv
      <4>2. \A e \in Chain : refs[e] = -1
        BY <1>3, <3>2 DEF IInv, LifeInv
      <4>3. refs["pipeline"] = 0
        BY <4>1 DEF IInv, LifeInv, Count
      <4> QED
        BY <4>1, <4>2, <4>3 DEF Elements
    <3> QED
      BY <3>1, <3>2
  <2> QED
    BY <1>3, <2>1 DEF Pipe
<1> QED
  BY <1>1, <1>2, <1>3

(* The host keeps the contract PipelineLife: every operation on it, whichever   *)
(* step of whichever setup fails, is a step of the contract or none.            *)
THEOREM PipelineIsKept == Spec => KeepsPipelineLife
<1>1. Init => Life!Init
  BY DEF Init, Life!Init, Pipe
<1>2. IInv /\ IInv' /\ [Next]_vars => [Life!Next]_(Life!vars)
  <2> SUFFICES ASSUME IInv, IInv', [Next]_vars PROVE [Life!Next]_(Life!vars)
    OBVIOUS
  <2>0. /\ Pipe = IF linked THEN "whole"
                  ELSE IF fault = "link" /\ alive THEN "remnant" ELSE "none"
        /\ Pipe' = IF linked' THEN "whole"
                   ELSE IF fault' = "link" /\ alive' THEN "remnant" ELSE "none"
    <3>1. Pipe = IF linked THEN "whole"
                 ELSE IF fault = "link" /\ alive THEN "remnant" ELSE "none"
      BY PipeIsLinked
    <3>2. (Pipe = IF linked THEN "whole"
                  ELSE IF fault = "link" /\ alive THEN "remnant" ELSE "none")'
      BY PipeIsLinked, PTL
    <3> QED
      BY <3>1, <3>2
  <2>1. CASE UNCHANGED <<alive, linked, fault, gst, watch>>
    BY <2>0, <2>1 DEF Life!vars
  <2>2. CASE SetupPipeline
    <3>1. alive /\ "pipeline" \notin set /\ UNCHANGED <<alive, watch>>
      BY <2>2 DEF SetupPipeline, CreateFails, LinkFails, BinFails, PadFails, Succeeds,
         Attempt, CanSetup
    <3>2. ~linked /\ fault # "link" /\ gst = "NULL"
      BY <3>1 DEF IInv, SetupAllOrNothing, LifeInv, Elements
    <3>3. CASE CreateFails \/ BinFails \/ PadFails
      <4>1. linked' = FALSE /\ gst' = "NULL" /\ fault' # "link"
        BY <3>2, <3>3 DEF CreateFails, BinFails, PadFails, Attempt, Cleanup
      <4> QED
        BY <2>0, <3>1, <3>2, <4>1 DEF Life!vars
    <3>4. CASE LinkFails \/ Succeeds
      <4>1. gst' = gst /\ (linked' \/ fault' = "link")
        BY <3>4 DEF LinkFails, Succeeds, Attempt
      <4> QED
        BY <2>0, <3>1, <3>2, <4>1 DEF Life!Next, Life!Setup
    <3> QED
      BY <2>2, <3>3, <3>4 DEF SetupPipeline
  <2>3. CASE Play \/ Stop
    <3>1. alive /\ linked /\ UNCHANGED <<alive, linked, watch>>
      BY <2>3 DEF Play, Stop, SetPipelineState
    <3>2. gst' \in {"NULL", "READY", "PAUSED", "PLAYING"}
      BY DEF IInv, TypeOK
    <3> QED
      BY <2>0, <3>1, <3>2 DEF Life!Next, Life!ChangeState
  <2>4. CASE AttachBusWatch \/ DetachBusWatch
    <3>1. alive /\ watch' \in BOOLEAN /\ UNCHANGED <<alive, linked, fault, gst>>
      BY <2>4 DEF AttachBusWatch, DetachBusWatch
    <3>2. CASE linked
      BY <2>0, <3>1, <3>2 DEF Life!Next, Life!Watch
    <3>3. CASE ~linked
      <4>1. watch = FALSE
        BY <3>3 DEF IInv, LifeInv, TypeOK
      <4>2. watch' = watch
        BY <2>4, <3>3, <4>1 DEF AttachBusWatch, DetachBusWatch
      <4> QED
        BY <2>1, <3>1, <4>2
    <3> QED
      BY <3>2, <3>3
  <2>5. CASE Destroy
    <3>1. alive /\ alive' = FALSE /\ watch' = FALSE /\ linked' = FALSE
      BY <2>5 DEF Destroy, KeptDropped, Cleanup
    <3>2. gst' = "NULL"
      BY <2>5 DEF Destroy, KeptDropped, Cleanup, IInv, LifeInv
    <3> QED
      BY <2>0, <3>1, <3>2 DEF Life!Next, Life!Free
  <2>6. CASE SetVideoSource \/ \E p \in Profiles, enabled \in BOOLEAN : SetProfileEnabled(p, enabled)
    BY <2>1, <2>6 DEF SetVideoSource, SetProfileEnabled
  <2>7. CASE UNCHANGED vars
    BY <2>1, <2>7 DEF vars
  <2> QED
    BY <2>2, <2>3, <2>4, <2>5, <2>6, <2>7 DEF Next
<1> QED
  BY <1>1, <1>2, Invariance, PTL DEF Spec, KeepsPipelineLife, Life!Spec
==============================================================================
