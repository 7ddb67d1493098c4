-------------------------- MODULE VideoPipelineProofs --------------------------
(* Proofs about VideoPipeline, for any set of caps: the types, the pointers, the *)
(* watch, and that state changes neither overlap nor follow a failed one.       *)
EXTENDS VideoPipeline, TLAPS

(* What an object without a pipeline is like: nothing runs, nothing waits.      *)
EmptyInv == set = {} =>
    /\ "pipeline" \notin live
    /\ current = "NULL" /\ pending = "none" /\ ~failed
    /\ ~linked /\ ~watch /\ call = "none"

(* A change that failed is over; a destroyed object has no pipeline.            *)
ChangeInv ==
    /\ failed => pending = "none"
    /\ ~alive => set = {}

IInv ==
    /\ TypeOK
    /\ NoDanglingPointer
    /\ SetupAllOrNothing
    /\ watches = Count(watch)
    /\ CapsAreCurrent
    /\ EmptyInv
    /\ ChangeInv

(* A new object has no pipeline.                                                *)
LEMMA InitIInv == Init => IInv
<1> SUFFICES ASSUME Init PROVE IInv
  OBVIOUS
<1>1. watches \in 0..1 /\ watches = Count(watch)
  BY DEF Init, Count
<1>2. TypeOK
  BY <1>1, CapsAssumption DEF Init, TypeOK, States
<1> QED
  BY <1>1, <1>2
  DEF Init, IInv, NoDanglingPointer, SetupAllOrNothing, CapsAreCurrent,
      EmptyInv, ChangeInv, Elements

(* stop() leaves an object without a pipeline, whatever it was called on.       *)
LEMMA TearDownEmpties ==
    ASSUME IInv, NEW s, NEW objects \in SUBSET Elements, NEW kids, TearDown(s, objects, kids),
           "pipeline" \in objects => "pipeline" \in s,
           UNCHANGED <<source, caps, call>>, call = "none", alive' \in BOOLEAN
    PROVE  IInv'
<1>1. set' = {} /\ live' \subseteq Elements /\ "pipeline" \notin live'
  BY DEF TearDown
<1>2. /\ watch' = FALSE /\ watches' \in 0..1
      /\ watches' = Count(watch)'
  BY DEF TearDown, DetachBusWatch, IInv, TypeOK, Count
<1>3. TypeOK'
  BY <1>1, <1>2 DEF TearDown, IInv, TypeOK, States
<1>4. NoDanglingPointer' /\ SetupAllOrNothing' /\ CapsAreCurrent'
  BY <1>1 DEF NoDanglingPointer, SetupAllOrNothing, CapsAreCurrent, Elements
<1>5. EmptyInv' /\ ChangeInv'
  BY <1>1, <1>2 DEF TearDown, EmptyInv, ChangeInv
<1> QED
  BY <1>2, <1>3, <1>4, <1>5 DEF IInv

(* Each call and each step of GStreamer's threads preserves the invariant.      *)
LEMMA NextIInv == IInv /\ [Next]_vars => IInv'
<1> SUFFICES ASSUME IInv, [Next]_vars PROVE IInv'
  OBVIOUS
<1> USE DEF IInv, TypeOK, NoDanglingPointer, SetupAllOrNothing, CapsAreCurrent,
        EmptyInv, ChangeInv
<1>1. CASE SetVideoSource
  BY <1>1 DEF SetVideoSource, built, media
<1>2. ASSUME NEW c \in CapsValues, SetCaps(c) PROVE IInv'
  BY <1>2 DEF SetCaps, media, Elements
<1>3. CASE CreateFails
  <2>1. PICK made \in SUBSET Elements : TearDown(made, made, {})
    BY <1>3 DEF CreateFails
  <2> QED
    BY <1>3, <2>1, TearDownEmpties DEF CreateFails, CanSetup, Idle
<1>4. CASE LinkFails
  <2>1. "pipeline" \in Elements
    BY DEF Elements
  <2> QED
    BY <1>4, <2>1, TearDownEmpties DEF LinkFails, CanSetup, Idle
<1>5. CASE Succeeds
  BY <1>5 DEF Succeeds, CanSetup, Idle, media, Elements
<1>6. CASE Stop \/ Destroy
  <2>1. "pipeline" \in live => "pipeline" \in set
    BY DEF Elements
  <2> QED
    BY <1>6, <2>1, TearDownEmpties DEF Stop, Destroy, Idle
<1>7. CASE AttachBusWatch
  BY <1>7 DEF AttachBusWatch, Idle, Count, built, media, Elements
<1>8. CASE Detach
  <2>1. watch' = FALSE /\ watches' \in 0..1 /\ watches' = Count(watch)'
    BY <1>8 DEF Detach, DetachBusWatch, Count
  <2> QED
    BY <1>8, <2>1 DEF Detach, built, media
<1>9. ASSUME NEW op \in Operations, Call(op) PROVE IInv'
  <2>1. set # {} /\ UNCHANGED <<alive, source, caps, built, media, watch, watches>>
    BY <1>9 DEF Call, Elements
  <2>2. call' \in Operations /\ watches' = Count(watch)'
    BY <1>9, <2>1 DEF Call, Count
  <2> QED
    BY <2>1, <2>2 DEF built, media
<1>10. CASE Refuse \/ Query
  <2>1. set # {} /\ call' = "none"
    BY <1>10 DEF Refuse, Query, Answered, Return
  <2>2. UNCHANGED <<alive, source, caps, built, media, watch, watches>>
    BY <1>10 DEF Refuse, Query, Return
  <2>3. watches' = Count(watch)'
    BY <2>2 DEF Count
  <2> QED
    BY <2>1, <2>2, <2>3 DEF built, media
<1>11. CASE SetState
  <2>1. Target \in {"PAUSED", "PLAYING"}
    BY DEF Target
  <2>2. Reached[current] \subseteq States
    BY DEF Reached, States
  <2> QED
    BY <1>11, <2>1, <2>2 DEF SetState, Answered, Return, built, States
<1>12. CASE Seek
  BY <1>12 DEF Seek, Answered, Return, built, media, States
<1>13. CASE ChangeCompletes \/ ChangeFails
  BY <1>13 DEF ChangeCompletes, ChangeFails, built
<1>14. CASE UNCHANGED vars
  BY <1>14 DEF vars, built, media, Count
<1> QED
  BY <1>1, <1>2, <1>3, <1>4, <1>5, <1>6, <1>7, <1>8, <1>9, <1>10, <1>11, <1>12, <1>13, <1>14
  DEF Next, SetupPipeline

(* The inductive invariant of the pipeline, for any caps.                       *)
THEOREM Invariance == Spec => []IInv
  BY InitIInv, NextIInv, PTL DEF Spec

(* Every variable keeps its type.                                               *)
THEOREM TypeCorrect == Spec => []TypeOK
<1>1. IInv => TypeOK
  BY DEF IInv
<1> QED
  BY <1>1, Invariance, PTL

(* No pointer dangles, whatever part of a setup failed.                         *)
THEOREM PointersAreAlive == Spec => []NoDanglingPointer
<1>1. IInv => NoDanglingPointer
  BY DEF IInv
<1> QED
  BY <1>1, Invariance, PTL

(* A pipeline that counts as set up is whole and linked, and it is freed in     *)
(* NULL.                                                                        *)
THEOREM PipelineIsWhole == Spec => [](SetupAllOrNothing /\ DisposedInNull)
<1>1. IInv => SetupAllOrNothing /\ DisposedInNull
  BY DEF IInv, TypeOK, NoDanglingPointer, SetupAllOrNothing, DisposedInNull,
         EmptyInv, ChangeInv, Elements
<1> QED
  BY <1>1, Invariance, PTL

(* One watch at most hangs on the context, and only while its pipeline lives.   *)
THEOREM WatchIsInside == Spec => []WatchWithinPipeline
<1>1. IInv => WatchWithinPipeline
  BY DEF IInv, TypeOK, NoDanglingPointer, SetupAllOrNothing, WatchWithinPipeline,
         EmptyInv, ChangeInv, Elements
<1> QED
  BY <1>1, Invariance, PTL

(* A pipeline has the caps that were set last, before it was built or after.    *)
THEOREM CapsStay == Spec => []CapsAreCurrent
<1>1. IInv => CapsAreCurrent
  BY DEF IInv
<1> QED
  BY <1>1, Invariance, PTL

(* No state change is asked for while another is in progress.                   *)
THEOREM ChangesDoNotOverlap == Spec => NoOverlappingChanges
<1>1. IInv /\ [Next]_vars => [pending # "none" => pending' \in {pending, "none"}]_vars
  <2> SUFFICES ASSUME IInv, Next, pending # "none" PROVE pending' \in {pending, "none"}
    BY DEF vars
  <2>1. CASE SetupPipeline \/ Stop \/ Destroy
    BY <2>1 DEF SetupPipeline, CreateFails, LinkFails, Succeeds, Stop, Destroy, TearDown, media
  <2>2. CASE Refuse \/ SetState \/ Seek \/ Query
    BY <2>2 DEF Refuse, SetState, Seek, Query, Answered
  <2>3. CASE ChangeCompletes \/ ChangeFails
    BY <2>3 DEF ChangeCompletes, ChangeFails
  <2> QED
    BY <2>1, <2>2, <2>3
    DEF Next, SetVideoSource, SetCaps, AttachBusWatch, Detach, Call, media
<1> QED
  BY <1>1, Invariance, PTL DEF Spec, NoOverlappingChanges

(* After a failed state change nothing but a teardown changes the state.        *)
THEOREM FailureIsFinal == Spec => FailureNeedsRebuild
<1>1. IInv /\ [Next]_vars => [failed => (failed' /\ current' = current) \/ set' = {}]_vars
  <2> SUFFICES ASSUME IInv, Next, failed
               PROVE  (failed' /\ current' = current) \/ set' = {}
    BY DEF vars
  <2>1. CASE SetupPipeline \/ Stop \/ Destroy
    BY <2>1 DEF SetupPipeline, CreateFails, LinkFails, Succeeds, Stop, Destroy, TearDown, media
  <2>2. CASE Refuse \/ SetState \/ Seek \/ Query
    BY <2>2 DEF Refuse, SetState, Seek, Query, Answered, media
  <2>3. CASE ChangeCompletes \/ ChangeFails
    BY <2>3 DEF ChangeCompletes, ChangeFails, IInv, ChangeInv
  <2> QED
    BY <2>1, <2>2, <2>3
    DEF Next, SetVideoSource, SetCaps, AttachBusWatch, Detach, Call, media
<1> QED
  BY <1>1, Invariance, PTL DEF Spec, FailureNeedsRebuild

-----------------------------------------------------------------------------
(* What PipelineLife sees of the pipeline is what isPipelineSetup() answers.    *)
LEMMA PipeIsSet == IInv => Pipe = IF set = {} THEN "none" ELSE "whole"
  BY DEF IInv, TypeOK, NoDanglingPointer, SetupAllOrNothing, EmptyInv, Pipe, Elements

(* A teardown, from wherever it is called, is Free.                             *)
LEMMA TearDownFrees ==
    ASSUME IInv', alive, NEW s, NEW objects, NEW kids, TearDown(s, objects, kids)
    PROVE  Life!Free
<1>1. set' = {} /\ current' = "NULL" /\ watch' = FALSE /\ alive' \in BOOLEAN
  BY DEF TearDown, DetachBusWatch, IInv, TypeOK
<1>2. EmptyInv'
  BY DEF IInv
<1>3. Pipe' = "none"
  BY <1>1, <1>2 DEF EmptyInv, Pipe
<1> QED
  BY <1>1, <1>3 DEF Life!Free

(* The phase 1 pipeline keeps the contract PipelineLife: a call is a step of it *)
(* or none, and so is every step of GStreamer's threads.                        *)
THEOREM PipelineIsKept == Spec => KeepsPipelineLife
<1>1. Init => Life!Init
  BY DEF Init, Life!Init, Pipe
<1>2. IInv /\ IInv' /\ [Next]_vars => [Life!Next]_(Life!vars)
  <2> SUFFICES ASSUME IInv, IInv', [Next]_vars PROVE [Life!Next]_(Life!vars)
    OBVIOUS
  <2>0. /\ Pipe = IF set = {} THEN "none" ELSE "whole"
        /\ Pipe' = IF set' = {} THEN "none" ELSE "whole"
    <3>1. Pipe = IF set = {} THEN "none" ELSE "whole"
      BY PipeIsSet
    <3>2. (Pipe = IF set = {} THEN "none" ELSE "whole")'
      BY PipeIsSet, PTL
    <3> QED
      BY <3>1, <3>2
  <2>1. CASE UNCHANGED <<alive, set, current, watch>>
    BY <2>0, <2>1 DEF Life!vars
  <2>2. CASE CreateFails \/ LinkFails \/ Stop \/ Destroy
    <3>1. alive
      BY <2>2 DEF CreateFails, LinkFails, Stop, Destroy, CanSetup, Idle
    <3>2. \E s, objects, kids : TearDown(s, objects, kids)
      BY <2>2 DEF CreateFails, LinkFails, Stop, Destroy
    <3> QED
      BY <3>1, <3>2, TearDownFrees DEF Life!Next
  <2>3. CASE Succeeds
    <3>1. set = {} /\ set' # {}
      BY <2>3 DEF Succeeds, CanSetup, IInv, SetupAllOrNothing, Elements
    <3> QED
      BY <2>0, <2>3, <3>1 DEF Succeeds, CanSetup, Idle, media, Life!Next, Life!Setup
  <2>4. CASE AttachBusWatch \/ Detach
    <3>1. watch' \in BOOLEAN /\ UNCHANGED <<alive, set, current>> /\ alive
      BY <2>4 DEF AttachBusWatch, Detach, DetachBusWatch, Idle, built, media
    <3>2. CASE set = {}
      <4>1. watch' = watch
        <5>1. watch = FALSE
          BY <3>2 DEF IInv, EmptyInv, TypeOK
        <5> QED
          BY <2>4, <3>2, <5>1 DEF AttachBusWatch, Detach, DetachBusWatch, Elements
      <4> QED
        BY <2>1, <3>1, <4>1
    <3>3. CASE set # {}
      BY <2>0, <3>1, <3>3 DEF Life!Next, Life!Watch
    <3> QED
      BY <3>2, <3>3
  <2>5. CASE SetState \/ Seek \/ ChangeCompletes \/ ChangeFails
    <3>1. UNCHANGED <<alive, set, watch>>
      BY <2>5 DEF SetState, Seek, ChangeCompletes, ChangeFails, Return, built
    <3>2. set # {}
      BY <2>5 DEF SetState, Seek, ChangeCompletes, ChangeFails, Answered, IInv, EmptyInv
    <3>3. alive /\ current' \in {"NULL", "READY", "PAUSED", "PLAYING"}
      BY <3>2 DEF IInv, ChangeInv, TypeOK, States
    <3> QED
      BY <2>0, <3>1, <3>2, <3>3 DEF Life!Next, Life!ChangeState
  <2>6. CASE SetVideoSource \/ (\E c \in CapsValues : SetCaps(c))
             \/ (\E op \in Operations : Call(op)) \/ Refuse \/ Query
    BY <2>1, <2>6 DEF SetVideoSource, SetCaps, Call, Refuse, Query, Return, built, media
  <2>7. CASE UNCHANGED vars
    BY <2>1, <2>7 DEF vars, built, media
  <2> QED
    BY <2>2, <2>3, <2>4, <2>5, <2>6, <2>7 DEF Next, SetupPipeline
<1> QED
  BY <1>1, <1>2, Invariance, PTL DEF Spec, KeepsPipelineLife, Life!Spec
=============================================================================
