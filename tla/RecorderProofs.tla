---------------------------- MODULE RecorderProofs ----------------------------
(* Proofs about Recorder, for any timing of the script and any patience of a    *)
(* drain: without an overlap the one `rec` and the one flag are enough.         *)
EXTENDS Recorder, TLAPS

(* At first there is no recording.                                              *)
LEMMA InitIInv == Init => IInv
<1> SUFFICES ASSUME Init PROVE IInv
  OBVIOUS
<1>1. TypeOK
  <2>1. clock \in 0..Last
    BY TimesAssumption DEF Init, Last
  <2>2. branch \in [Recordings -> Places]
    BY DEF Init, Places
  <2>3. crossed \in BOOLEAN /\ misused \in BOOLEAN /\ eosSeen \in BOOLEAN
    BY Zenon DEF Init
  <2>4. bus \in Seq(Posters) /\ posted \in [Posters -> Nat]
    BY DEF Init
  <2> QED
    BY <2>1, <2>2, <2>3, <2>4 DEF Init, TypeOK
<1>2. OverlapIsTheOnlyDanger /\ ScriptInv /\ FlagInv
  BY DEF Init, OverlapIsTheOnlyDanger, ScriptInv, FlagInv, Recordings
<1> QED
  BY <1>1, <1>2 DEF IInv

(* An event of the script runs at its place in it.                              *)
LEMMA Places3 ==
    ASSUME TypeOK, NEW name, Event(name)
    PROVE  /\ step \in 0..4 /\ step' = step + 1 /\ clock' = clock
           /\ name = "start" => step \in {0, 2, 4}
           /\ name = "stop" => step \in {1, 3}
<1>1. step \in {0, 1, 2, 3, 4} /\ step' = step + 1 /\ clock' = clock /\ Script[step + 1] = name
  BY DEF TypeOK, Event, Due
<1>2. /\ Script[1] = "start" /\ Script[2] = "stop" /\ Script[3] = "start"
      /\ Script[4] = "stop" /\ Script[5] = "start"
  BY DEF Script
<1> QED
  BY <1>1, <1>2

(* A recording that starts.                                                     *)
LEMMA StartIInv == IInv /\ RecStart => IInv'
<1> SUFFICES ASSUME IInv, RecStart PROVE IInv'
  OBVIOUS
<1>1. /\ step \in {0, 2, 4} /\ step' = step + 1 /\ clock' = clock
  BY Places3 DEF IInv, RecStart, Attach
<1>2. /\ TypeOK /\ bin \in 0..2 /\ bin' = bin + 1 /\ bin' \in Recordings
  BY <1>1 DEF IInv, ScriptInv, RecStart, Attach, Recordings
<1>3. /\ branch' = [branch EXCEPT ![bin + 1] = "linked"] /\ eosSeen' = FALSE
      /\ crossed' = (crossed \/ polls > 0)
      /\ UNCHANGED <<deadline, polls, bus, posted, ended, misused>>
  BY DEF RecStart, Attach
<1>4. TypeOK'
  <2>1. branch' \in [Recordings -> Places]
    BY <1>2, <1>3 DEF TypeOK, Places
  <2>2. crossed' \in BOOLEAN
    BY <1>3
  <2>3. step' \in 0..5 /\ bin' \in 0..3
    BY <1>1, <1>2
  <2>4. eosSeen' \in BOOLEAN /\ misused' \in BOOLEAN
    BY <1>2, <1>3, Zenon DEF TypeOK
  <2> QED
    BY <1>1, <1>2, <1>3, <2>1, <2>2, <2>3, <2>4 DEF TypeOK
<1>5. branch'[bin'] = "linked" /\ \A r \in Recordings \ {bin'} : branch'[r] = branch[r]
  BY <1>2, <1>3 DEF TypeOK
<1>6. ScriptInv' /\ FlagInv'
  <2>1. bin' = IF step' = 0 THEN 0 ELSE IF step' <= 2 THEN 1 ELSE IF step' <= 4 THEN 2 ELSE 3
    BY <1>1, <1>2 DEF IInv, ScriptInv
  <2>2. step' \in {1, 3, 5}
    BY <1>1
  <2> QED
    BY <1>3, <1>5, <2>1, <2>2 DEF ScriptInv, FlagInv
<1>7. OverlapIsTheOnlyDanger'
  <2> SUFFICES ASSUME ~crossed'
               PROVE  /\ ~misused' /\ polls' = 0
                      /\ \A r \in Recordings \ {bin'} : branch'[r] = (IF r < bin' THEN "gone" ELSE "none")
    BY <1>2, <1>5 DEF OverlapIsTheOnlyDanger
  <2>1. ~crossed /\ polls = 0
    <3>1. ~(crossed \/ polls > 0)
      BY <1>3, Zenon
    <3> QED
      BY <1>2, <3>1 DEF TypeOK
  <2>2. bin = 0 \/ branch[bin] = "gone"
    BY <1>1, <1>2, <2>1 DEF IInv, OverlapIsTheOnlyDanger, ScriptInv
  <2>3. ~misused /\ \A r \in Recordings \ {bin} : branch[r] = (IF r < bin THEN "gone" ELSE "none")
    BY <2>1 DEF IInv, OverlapIsTheOnlyDanger
  <2> QED
    BY <1>2, <1>3, <1>5, <2>1, <2>2, <2>3 DEF Recordings
<1> QED
  BY <1>4, <1>6, <1>7 DEF IInv

(* A recording that is stopped.                                                 *)
LEMMA StopIInv == IInv /\ RecStop => IInv'
<1> SUFFICES ASSUME IInv, RecStop PROVE IInv'
  OBVIOUS
<1>1. step \in {1, 3} /\ step' = step + 1 /\ clock' = clock /\ TypeOK
  BY Places3 DEF IInv, RecStop
<1>2. bin' = bin /\ bin \in Recordings
  BY <1>1 DEF IInv, ScriptInv, RecStop, Recordings
<1>3. /\ misused' = (misused \/ branch[bin] # "linked")
      /\ branch' = IF branch[bin] = "linked" THEN [branch EXCEPT ![bin] = "draining"] ELSE branch
      /\ deadline' = clock + Patience /\ polls' = polls + 1
      /\ UNCHANGED <<eosSeen, bus, posted, ended, crossed>>
  BY DEF RecStop
<1>4. TypeOK'
  <2>1. branch' \in [Recordings -> Places] /\ deadline' \in Nat /\ polls' \in Nat
    BY <1>1, <1>2, <1>3, TimesAssumption DEF TypeOK, Places, Last
  <2>2. misused' \in BOOLEAN /\ step' \in 0..5
    BY <1>1, <1>3
  <2> QED
    BY <1>1, <1>2, <1>3, <2>1, <2>2 DEF TypeOK
<1>5. ~crossed => branch[bin] = "linked" /\ ~eosSeen
  BY <1>1, <1>2 DEF IInv, ScriptInv, FlagInv, Recordings
<1>6. ~crossed => branch'[bin] = "draining" /\ \A r \in Recordings \ {bin} : branch'[r] = branch[r]
  BY <1>1, <1>2, <1>3, <1>5 DEF TypeOK
<1>7. ScriptInv' /\ FlagInv'
  <2>1. bin' = IF step' = 0 THEN 0 ELSE IF step' <= 2 THEN 1 ELSE IF step' <= 4 THEN 2 ELSE 3
    BY <1>1, <1>2 DEF IInv, ScriptInv
  <2>2. step' \in {2, 4} /\ crossed' = crossed /\ eosSeen' = eosSeen
    BY <1>1, <1>3
  <2>3. ~crossed' => branch'[bin'] = "draining" /\ ~eosSeen'
    BY <1>2, <1>5, <1>6, <2>2, Zenon
  <2> QED
    BY <2>1, <2>2, <2>3 DEF ScriptInv, FlagInv
<1>8. OverlapIsTheOnlyDanger'
  <2> SUFFICES ASSUME ~crossed'
               PROVE  /\ ~misused' /\ polls' = 1 /\ bin' \in Recordings /\ branch'[bin'] = "draining"
                      /\ \A r \in Recordings \ {bin'} : branch'[r] = (IF r < bin' THEN "gone" ELSE "none")
    BY DEF OverlapIsTheOnlyDanger, Recordings
  <2>1. ~crossed /\ branch[bin] = "linked"
    BY <1>3, <1>5
  <2>2. ~misused /\ polls = 0 /\ \A r \in Recordings \ {bin} : branch[r] = (IF r < bin THEN "gone" ELSE "none")
    BY <2>1 DEF IInv, OverlapIsTheOnlyDanger
  <2>3. ~misused'
    <3>1. ~(branch[bin] # "linked")
      BY <2>1
    <3> QED
      BY <1>3, <2>2, <3>1, Zenon
  <2>4. polls' = 1
    BY <1>3, <2>2
  <2> QED
    BY <1>2, <1>6, <2>1, <2>2, <2>3, <2>4
<1> QED
  BY <1>4, <1>7, <1>8 DEF IInv

(* A poll that ends a drain.                                                    *)
LEMMA PollIInv == IInv /\ PollFinish => IInv'
<1> SUFFICES ASSUME IInv, PollFinish PROVE IInv'
  OBVIOUS
<1>1. /\ TypeOK /\ polls \in Nat \ {0} /\ polls' = polls - 1 /\ bin' = bin
      /\ branch' = [branch EXCEPT ![bin] = "gone"]
      /\ UNCHANGED <<clock, step, eosSeen, deadline, posted, ended, crossed>>
  BY DEF IInv, TypeOK, PollFinish, Teardown, script
<1>2. misused' = (misused \/ branch[bin] = "gone")
  BY DEF PollFinish, Teardown
<1>3. bus' \in Seq(Posters)
  BY <1>1 DEF PollFinish, OnError, TypeOK
<1>4. TypeOK'
  <2>1. branch' \in [Recordings -> Places]
    BY <1>1 DEF TypeOK, Places
  <2>2. misused' \in BOOLEAN
    BY <1>2
  <2> QED
    BY <1>1, <1>3, <2>1, <2>2 DEF TypeOK
<1>5. ~crossed => /\ polls = 1 /\ bin \in Recordings /\ branch[bin] \in {"draining", "complete"}
                  /\ step \notin {1, 3, 5} /\ ~misused
  BY <1>1 DEF IInv, OverlapIsTheOnlyDanger, ScriptInv, TypeOK, Recordings
<1>6. bin \in Recordings =>
        branch'[bin] = "gone" /\ \A r \in Recordings \ {bin} : branch'[r] = branch[r]
  BY <1>1 DEF TypeOK
<1>7. ~crossed => ~misused' /\ polls' = 0
  <2>1. ~crossed => ~misused'
    <3>1. ~crossed => ~misused /\ ~(branch[bin] = "gone")
      BY <1>5
    <3> QED
      BY <1>2, <3>1, Zenon
  <2>2. ~crossed => polls' = 0
    BY <1>1, <1>5
  <2> QED
    BY <2>1, <2>2
<1>8. ScriptInv' /\ FlagInv'
  BY <1>1, <1>5, <1>6 DEF IInv, ScriptInv, FlagInv
<1>9. OverlapIsTheOnlyDanger'
  BY <1>1, <1>5, <1>6, <1>7 DEF IInv, OverlapIsTheOnlyDanger
<1> QED
  BY <1>4, <1>8, <1>9 DEF IInv

(* An end of stream that comes to its file.                                     *)
LEMMA EosIInv == ASSUME IInv, NEW r \in Recordings, OnBranchEvent(r) PROVE IInv'
<1>1. /\ TypeOK /\ branch[r] = "draining" /\ branch' = [branch EXCEPT ![r] = "complete"]
      /\ eosSeen' = TRUE /\ ended' = ended \cup {r}
      /\ UNCHANGED <<clock, step, bin, deadline, polls, bus, posted, crossed, misused>>
  BY DEF IInv, OnBranchEvent, script
<1>2. TypeOK'
  <2>1. branch' \in [Recordings -> Places]
    BY <1>1 DEF TypeOK, Places
  <2> QED
    BY <1>1, <2>1 DEF TypeOK
<1>3. ~crossed => r = bin
  BY <1>1 DEF IInv, OverlapIsTheOnlyDanger
<1>4. branch'[r] = "complete" /\ \A q \in Recordings \ {r} : branch'[q] = branch[q]
  BY <1>1 DEF TypeOK
<1>5. ScriptInv' /\ FlagInv'
  BY <1>1, <1>3, <1>4 DEF IInv, ScriptInv, FlagInv, Recordings
<1>6. OverlapIsTheOnlyDanger'
  BY <1>1, <1>3, <1>4 DEF IInv, OverlapIsTheOnlyDanger
<1> QED
  BY <1>2, <1>5, <1>6 DEF IInv

(* An error is the trunk's or that of a branch.                                 *)
LEMMA ErrorsOfPosters ==
    /\ TrunkError => Trunk \in Posters /\ PostError(Trunk)
    /\ \A r \in Recordings : BranchError(r) => r \in Posters /\ PostError(r)
BY DEF TrunkError, BranchError, Posters

(* Every step keeps the invariant.                                              *)
LEMMA NextIInv == IInv /\ [Next]_vars => IInv'
<1> SUFFICES ASSUME IInv, [Next]_vars PROVE IInv'
  OBVIOUS
<1>1. CASE Tick
  <2>1. /\ TypeOK /\ clock' = clock + 1 /\ clock < Last
        /\ UNCHANGED <<step, bin, branch, eosSeen, deadline, polls, bus, posted, ended, crossed, misused>>
    BY <1>1 DEF IInv, Tick, history
  <2>2. clock' \in 0..Last
    BY <2>1, TimesAssumption DEF TypeOK, Last
  <2> QED
    BY <2>1, <2>2 DEF IInv, TypeOK, OverlapIsTheOnlyDanger, ScriptInv, FlagInv
<1>2. ASSUME NEW q \in Posters, PostError(q) PROVE IInv'
  <2>1. /\ TypeOK /\ posted' \in [Posters -> Nat] /\ bus' \in Seq(Posters)
        /\ UNCHANGED <<clock, step, bin, branch, eosSeen, deadline, polls, ended, crossed, misused>>
    BY <1>2 DEF IInv, TypeOK, PostError, script, history
  <2> QED
    BY <2>1 DEF IInv, TypeOK, OverlapIsTheOnlyDanger, ScriptInv, FlagInv
<1>3. CASE UNCHANGED vars
  BY <1>3 DEF IInv, TypeOK, OverlapIsTheOnlyDanger, ScriptInv, FlagInv, vars, history
<1> QED
  BY <1>1, <1>2, <1>3, ErrorsOfPosters, StartIInv, StopIInv, PollIInv, EosIInv DEF Next

-----------------------------------------------------------------------------
(* The invariant of the recorder, whatever the script's period and a drain's    *)
(* patience.                                                                   *)
THEOREM Invariance == Spec => []IInv
BY InitIInv, NextIInv, PTL DEF Spec

(* Without an overlap there is one draining branch at most, it is the one `rec` *)
(* points to, and no bin is used after it left the pipeline.                    *)
THEOREM OneRecIsEnough == Spec => []OverlapIsTheOnlyDanger
<1>1. IInv => OverlapIsTheOnlyDanger
  BY DEF IInv
<1> QED
  BY <1>1, Invariance, PTL

-----------------------------------------------------------------------------
(* The steps of the loop and of the branches, as the bus sees them.             *)
LEMMA NextBus == IInv /\ BusInv /\ [Next]_vars => BusInv'
<1> SUFFICES ASSUME IInv, BusInv, [Next]_vars PROVE BusInv'
  OBVIOUS
<1>0. /\ TypeOK /\ bus \in Seq(Posters) /\ bin \in 0..3 /\ Len(bus) \in Nat
      /\ \A i \in 1..Len(bus) : bus[i] \in Posters /\ bus[i] \in 0..3 /\ posted[bus[i]] \in Nat
      /\ Trunk = 0 /\ Trunk \in Posters /\ \A q \in Posters : posted[q] \in Nat
  BY DEF IInv, TypeOK, Posters, Trunk, Recordings
<1>1. CASE RecStart
  <2>1. /\ bin' = bin + 1 /\ branch' = [branch EXCEPT ![bin + 1] = "linked"]
        /\ crossed' = (crossed \/ polls > 0) /\ UNCHANGED <<bus, posted, ended>>
    BY <1>1 DEF RecStart, Attach
  <2>2. ASSUME ~crossed', NEW i \in 1..Len(bus)
        PROVE  bus[i] <= bin' /\ (bus[i] # Trunk /\ bus[i] < Awaited' => LeftBehind(Awaited)')
    <3>1. ~crossed /\ bin \in 0..2 /\ step \in {0, 2, 4}
      <4>1. ~crossed
        BY <2>1, <2>2, Zenon
      <4>2. step \in {0, 2, 4}
        BY <1>1, Places3 DEF IInv, RecStart, Attach
      <4> QED
        BY <4>1, <4>2 DEF IInv, ScriptInv
    <3>2. bus[i] <= bin /\ bus[i] \in 0..3
      BY <1>0, <2>2, <3>1 DEF BusInv
    <3>3. ASSUME bus[i] # Trunk PROVE bin \in Recordings /\ branch[bin] = "gone"
      <4>1. bin \in Recordings
        BY <1>0, <3>1, <3>2, <3>3 DEF Recordings
      <4>2. ~(polls > 0)
        BY <2>1, <2>2, Zenon
      <4> QED
        BY <1>0, <3>1, <4>1, <4>2 DEF IInv, TypeOK, OverlapIsTheOnlyDanger, ScriptInv, Recordings
    <3>4. Awaited' = bin + 1 /\ (bus[i] # Trunk => Awaited = bin + 1)
      BY <1>0, <2>1, <3>1, <3>3 DEF Awaited, Recordings, TypeOK
    <3>5. bus[i] # Trunk => LeftBehind(bin + 1)
      BY <2>2, <3>1, <3>2, <3>4 DEF BusInv
    <3> QED
      BY <2>1, <3>1, <3>2, <3>4, <3>5 DEF LeftBehind
  <2> QED
    BY <2>1, <2>2 DEF BusInv
<1>2. CASE RecStop
  <2>1. /\ UNCHANGED <<bin, bus, posted, ended, crossed>>
        /\ branch' = IF branch[bin] = "linked" THEN [branch EXCEPT ![bin] = "draining"] ELSE branch
    BY <1>2 DEF RecStop
  <2>2. Awaited' = Awaited
    BY <1>0, <2>1 DEF Awaited, TypeOK, Recordings
  <2> QED
    BY <2>1, <2>2 DEF BusInv, LeftBehind
<1>3. CASE PollFinish
  <2>1. /\ UNCHANGED <<bin, posted, ended, crossed>> /\ branch' = [branch EXCEPT ![bin] = "gone"]
        /\ eosSeen \/ OnError \/ OutOfTime
        /\ bus' = IF OnError THEN Tail(bus) ELSE bus
    BY <1>3 DEF PollFinish, Teardown
  <2>2. ASSUME ~crossed
        PROVE  /\ bin \in Recordings /\ branch[bin] \in {"draining", "complete"}
               /\ Awaited = bin /\ Awaited' = bin + 1
    BY <1>0, <1>3, <2>1, <2>2
    DEF IInv, OverlapIsTheOnlyDanger, PollFinish, Recordings, Awaited, TypeOK
  <2>3. ASSUME ~crossed, LeftBehind(bin) PROVE LeftBehind(bin + 1)
    BY <1>0, <2>2, <2>3 DEF LeftBehind, Recordings
  <2>4. CASE OnError
    <3>1. /\ Len(bus) \in Nat \ {0} /\ bus' = Tail(bus) /\ Len(bus') = Len(bus) - 1
          /\ \A i \in 1..Len(bus') : i + 1 \in 1..Len(bus) /\ bus'[i] = bus[i + 1]
      BY <1>0, <2>1, <2>4 DEF OnError
    <3>2. /\ \A i \in 1..Len(bus') : posted'[bus'[i]] >= 1
          /\ \A i, j \in 1..Len(bus') : i # j /\ bus'[i] = bus'[j] => posted'[bus'[i]] >= 2
      BY <2>1, <3>1 DEF BusInv
    <3>3. ASSUME ~crossed, NEW i \in 1..Len(bus')
          PROVE  bus'[i] <= bin /\ (bus'[i] # Trunk => LeftBehind(bin + 1))
      <4>1. 1 \in 1..Len(bus) /\ i + 1 \in 1..Len(bus) /\ i + 1 # 1 /\ bus'[i] = bus[i + 1]
        BY <3>1, <3>3
      <4>2. bus[1] <= bin /\ bus[i + 1] <= bin
        BY <3>3, <4>1 DEF BusInv
      <4>3. CASE bus[1] # Trunk /\ bus[1] < bin
        BY <2>2, <2>3, <3>3, <4>1, <4>2, <4>3 DEF BusInv
      <4>4. CASE bus[i + 1] < bin
        BY <2>2, <2>3, <3>3, <4>1, <4>2, <4>4 DEF BusInv
      <4>5. CASE bus[i + 1] = bin /\ bus[1] \in {Trunk, bin}
        <5>1. posted[bin] >= 1 /\ (bus[1] = Trunk => posted[Trunk] >= 1) /\ (bus[1] = bin => posted[bin] >= 2)
          BY <4>1, <4>5 DEF BusInv
        <5>2. bin \in Recordings /\ posted[bin] \in Nat /\ posted[Trunk] \in Nat
          BY <1>0, <2>2, <3>3 DEF Posters
        <5>3. posted[bin] > 0 /\ posted[bin] + posted[Trunk] > 1 /\ bin < bin + 1
          BY <1>0, <4>5, <5>1, <5>2
        <5> QED
          BY <4>1, <4>2, <5>2, <5>3 DEF LeftBehind
      <4> QED
        BY <1>0, <2>2, <3>3, <4>1, <4>2, <4>3, <4>4, <4>5
    <3>4. ASSUME ~crossed', NEW i \in 1..Len(bus')
          PROVE  bus'[i] <= bin' /\ (bus'[i] # Trunk => LeftBehind(Awaited)')
      <4>1. ~crossed /\ bin' = bin /\ posted' = posted /\ ended' = ended
        BY <2>1, <3>4
      <4> QED
        BY <2>2, <3>3, <3>4, <4>1 DEF LeftBehind
    <3> QED
      BY <3>2, <3>4 DEF BusInv
  <2>5. CASE ~OnError
    <3>1. bus' = bus
      BY <2>1, <2>5
    <3>2. ASSUME ~crossed', NEW i \in 1..Len(bus)
          PROVE  bus[i] <= bin' /\ (bus[i] # Trunk => LeftBehind(Awaited)')
      <4>1. ~crossed /\ bin' = bin /\ posted' = posted /\ ended' = ended /\ eosSeen
        BY <2>1, <2>5, <3>2 DEF OnError
      <4>2. bin \in ended /\ bus[i] <= bin
        BY <3>2, <4>1 DEF IInv, FlagInv, BusInv
      <4>3. bus[i] # Trunk => LeftBehind(bin + 1)
        <5>1. CASE bus[i] # Trunk /\ bus[i] < bin
          BY <2>2, <2>3, <3>2, <4>1, <5>1 DEF BusInv
        <5>2. CASE bus[i] = bin
          <6>1. posted[bin] >= 1 /\ bin < bin + 1 /\ bin \in Recordings /\ posted[bin] \in Nat
            BY <1>0, <2>2, <3>2, <4>1, <5>2 DEF BusInv
          <6> QED
            BY <4>2, <6>1 DEF LeftBehind
        <5> QED
          BY <1>0, <3>2, <4>2, <5>1, <5>2
      <4> QED
        BY <2>2, <4>1, <4>2, <4>3 DEF LeftBehind
    <3> QED
      BY <2>1, <3>1, <3>2 DEF BusInv
  <2> QED
    BY <2>4, <2>5
<1>4. ASSUME NEW r \in Recordings, OnBranchEvent(r) PROVE BusInv'
  <2>1. /\ UNCHANGED <<bin, bus, posted, crossed>> /\ ended' = ended \cup {r}
        /\ branch[r] = "draining" /\ branch' = [branch EXCEPT ![r] = "complete"]
    BY <1>4 DEF OnBranchEvent
  <2>2. Awaited' = Awaited
    BY <1>0, <2>1 DEF Awaited, TypeOK, Recordings
  <2> QED
    BY <2>1, <2>2 DEF BusInv, LeftBehind
<1>5. ASSUME NEW q \in Posters, PostError(q), ~crossed => q = Trunk \/ (q = bin /\ Awaited = bin)
      PROVE  BusInv'
  <2>1. /\ UNCHANGED <<bin, branch, ended, crossed>> /\ posted' = [posted EXCEPT ![q] = @ + 1]
        /\ bus' = Append(bus, q)
    BY <1>5 DEF PostError, history
  <2>2. /\ Len(bus') = Len(bus) + 1 /\ bus'[Len(bus) + 1] = q
        /\ \A i \in 1..Len(bus) : bus'[i] = bus[i]
    BY <1>0, <2>1
  <2>3. /\ \A p \in Posters : posted'[p] \in Nat /\ posted[p] <= posted'[p]
        /\ posted'[q] = posted[q] + 1
    BY <1>0, <2>1 DEF IInv, TypeOK
  <2>4. Awaited' = Awaited /\ Awaited \in 0..4
    BY <1>0, <2>1 DEF Awaited
  <2>5. \A i \in 1..Len(bus') : posted'[bus'[i]] >= 1
    <3>1. ASSUME NEW i \in 1..Len(bus) PROVE posted'[bus'[i]] >= 1
      <4>1. bus'[i] = bus[i] /\ bus[i] \in Posters /\ posted[bus[i]] >= 1
        BY <1>0, <2>2 DEF BusInv
      <4> QED
        BY <1>0, <2>3, <4>1
    <3> QED
      BY <1>0, <2>2, <2>3, <3>1
  <2>6. ASSUME NEW i \in 1..Len(bus'), NEW j \in 1..Len(bus'), i # j, bus'[i] = bus'[j]
        PROVE  posted'[bus'[i]] >= 2
    <3>1. CASE i \in 1..Len(bus) /\ j \in 1..Len(bus)
      <4>1. bus'[i] = bus[i] /\ bus[i] = bus[j] /\ bus[i] \in Posters
        BY <1>0, <2>2, <2>6, <3>1
      <4>2. i \in 1..Len(bus) /\ j \in 1..Len(bus) /\ i # j
        BY <2>6, <3>1
      <4>3. \A m, n \in 1..Len(bus) : m # n /\ bus[m] = bus[n] => posted[bus[m]] >= 2
        BY DEF BusInv
      <4>4. posted[bus[i]] >= 2
        BY <4>1, <4>2, <4>3, Zenon
      <4>5. posted[bus[i]] \in Nat /\ posted'[bus[i]] \in Nat /\ posted[bus[i]] <= posted'[bus[i]]
        BY <1>0, <2>3, <4>1
      <4> QED
        BY <4>1, <4>4, <4>5
    <3>2. CASE i = Len(bus) + 1 \/ j = Len(bus) + 1
      <4>1. PICK n \in 1..Len(bus) : bus[n] = q /\ bus'[i] = q
        BY <1>0, <2>2, <2>6, <3>2
      <4>2. posted[q] >= 1
        BY <4>1 DEF BusInv
      <4> QED
        BY <1>0, <2>3, <4>1, <4>2
    <3> QED
      BY <1>0, <2>2, <3>1, <3>2
  <2>7. ASSUME ~crossed', NEW i \in 1..Len(bus')
        PROVE  bus'[i] <= bin' /\ (bus'[i] # Trunk /\ bus'[i] < Awaited' => LeftBehind(Awaited)')
    <3>1. CASE i = Len(bus) + 1
      BY <1>0, <1>5, <2>1, <2>2, <2>4, <2>7, <3>1
    <3>2. CASE i \in 1..Len(bus)
      <4>1. bus'[i] <= bin /\ (bus'[i] # Trunk /\ bus'[i] < Awaited => LeftBehind(Awaited))
        BY <2>1, <2>2, <2>7, <3>2 DEF BusInv
      <4>2. ASSUME bus'[i] # Trunk, bus'[i] < Awaited PROVE LeftBehind(Awaited)'
        <5>1. Awaited \in 1..4 /\ LeftBehind(Awaited)
          BY <1>0, <2>2, <2>4, <3>2, <4>1, <4>2
        <5>2. \E p \in Recordings : /\ p < Awaited /\ posted[p] > 0
                                    /\ p \in ended \/ posted[p] + posted[Trunk] > 1
          BY <5>1 DEF LeftBehind
        <5>3. \A p \in Recordings : p \in Posters /\ posted[p] \in Nat /\ posted'[p] \in Nat
                                    /\ posted[p] <= posted'[p] /\ posted[Trunk] \in Nat
                                    /\ posted'[Trunk] \in Nat /\ posted[Trunk] <= posted'[Trunk]
          BY <1>0, <2>3 DEF Posters
        <5> QED
          BY <2>1, <2>4, <5>2, <5>3 DEF LeftBehind
      <4> QED
        BY <2>1, <2>4, <4>1, <4>2
    <3> QED
      BY <1>0, <2>2, <2>7, <3>1, <3>2
  <2> QED
    BY <2>5, <2>6, <2>7 DEF BusInv
<1>6. ASSUME NEW r \in Recordings, BranchError(r) PROVE BusInv'
  <2>1. r \in Posters /\ PostError(r) /\ branch[r] \in {"linked", "draining", "complete"}
    BY <1>6, ErrorsOfPosters DEF BranchError
  <2>2. ~crossed => r = bin /\ Awaited = bin
    BY <1>0, <1>6, <2>1 DEF IInv, OverlapIsTheOnlyDanger, Awaited, Recordings
  <2> QED
    BY <1>5, <2>1, <2>2
<1>7. CASE TrunkError
  BY <1>5, <1>7, ErrorsOfPosters
<1>8. CASE Tick \/ UNCHANGED vars
  <2>1. UNCHANGED <<bin, branch, bus, posted, ended, crossed>>
    BY <1>8 DEF Tick, vars, history
  <2> QED
    BY <2>1 DEF BusInv, Awaited, LeftBehind
<1> QED
  BY <1>1, <1>2, <1>3, <1>4, <1>6, <1>7, <1>8 DEF Next

(* The clock waits for the script, so a stop finds it at its time.              *)
LEMMA NextDrain == IInv /\ DrainInv /\ [Next]_vars => DrainInv'
<1> SUFFICES ASSUME IInv, DrainInv, [Next]_vars PROVE DrainInv'
  OBVIOUS
<1>0. /\ clock \in Int /\ deadline \in Int /\ polls \in Int /\ Period \in Int /\ Patience \in Int
      /\ Period > 0 /\ Patience >= 0 /\ step \in 0..5 /\ polls >= 0
  BY TimesAssumption DEF IInv, TypeOK, Last
<1>1. CASE Tick
  <2>1. /\ clock' = clock + 1 /\ UNCHANGED <<step, deadline, polls>>
        /\ step < 5 => clock # Period * (step + 1)
    BY <1>1 DEF Tick, Due, history
  <2>2. ASSUME NEW n \in 0..4, step = n PROVE clock + 1 <= Period * (n + 1)
    <3>1. clock <= Period * (n + 1) /\ clock # Period * (n + 1) /\ Period * (n + 1) \in Int
      BY <1>0, <2>1, <2>2 DEF DrainInv
    <3> QED
      BY <1>0, <3>1
  <2> QED
    BY <1>0, <2>1, <2>2 DEF DrainInv
<1>2. CASE RecStart
  <2>1. /\ step \in {0, 2, 4} /\ clock = Period * (step + 1) /\ step' = step + 1
        /\ UNCHANGED <<clock, deadline, polls>>
    BY <1>2, Places3 DEF IInv, RecStart, Attach, Event, Due
  <2>2. \A n \in 0..4 : step' = n => clock' <= Period * (n + 1)
    BY <1>0, <2>1
  <2> QED
    BY <1>0, <2>1, <2>2 DEF DrainInv
<1>3. CASE RecStop
  <2>1. /\ step \in {1, 3} /\ clock = Period * (step + 1) /\ step' = step + 1
        /\ clock' = clock /\ deadline' = clock + Patience /\ polls' = polls + 1
    BY <1>3, Places3 DEF IInv, RecStop, Event, Due
  <2>2. \A n \in 0..4 : step' = n => clock' <= Period * (n + 1)
    BY <1>0, <2>1
  <2>3. clock <= 4 * Period
    BY <1>0, <2>1
  <2> QED
    BY <1>0, <2>1, <2>2, <2>3 DEF DrainInv
<1>4. CASE PollFinish
  <2>1. UNCHANGED <<clock, step, deadline>> /\ polls' = polls - 1
    BY <1>4 DEF PollFinish, script
  <2> QED
    BY <1>0, <2>1 DEF DrainInv
<1>5. CASE UNCHANGED vars \/ TrunkError \/ \E r \in Recordings : OnBranchEvent(r) \/ BranchError(r)
  <2>1. UNCHANGED <<clock, step, deadline, polls>>
    BY <1>5 DEF vars, OnBranchEvent, BranchError, TrunkError, PostError, script
  <2> QED
    BY <2>1 DEF DrainInv
<1> QED
  BY <1>1, <1>2, <1>3, <1>4, <1>5 DEF Next

(* A stop sets the deadline, a start that finds a drain is an overlap, and a    *)
(* poll that ends one leaves none.                                             *)
LEMMA NextStop == IInv /\ StopInv /\ [Next]_vars => StopInv'
<1> SUFFICES ASSUME IInv, StopInv, [Next]_vars, polls' > 0, ~crossed'
             PROVE  deadline' = Period * step' + Patience
  BY DEF StopInv
<1>0. TypeOK /\ polls \in Nat /\ step \in 0..5 /\ Period \in Nat /\ Patience \in Nat
  BY TimesAssumption DEF IInv, TypeOK
<1>1. CASE RecStart
  <2>1. crossed' = (crossed \/ polls > 0) /\ polls' = polls
    BY <1>1 DEF RecStart, Attach
  <2>2. ~(polls > 0)
    BY <2>1, Zenon
  <2> QED
    BY <2>1, <2>2
<1>2. CASE RecStop
  <2>1. step' = step + 1 /\ clock = Period * (step + 1) /\ deadline' = clock + Patience
    BY <1>2 DEF RecStop, Event, Due
  <2> QED
    BY <1>0, <2>1
<1>3. CASE PollFinish
  <2>1. polls' = polls - 1 /\ crossed' = crossed
    BY <1>3 DEF PollFinish
  <2>2. polls <= 1
    BY <2>1 DEF IInv, OverlapIsTheOnlyDanger
  <2> QED
    BY <1>0, <2>1, <2>2
<1>4. CASE Tick \/ TrunkError \/ UNCHANGED vars \/ \E r \in Recordings : OnBranchEvent(r) \/ BranchError(r)
  <2>1. UNCHANGED <<polls, crossed, deadline, step>>
    BY <1>4 DEF Tick, TrunkError, OnBranchEvent, BranchError, PostError, vars, script, history
  <2> QED
    BY <2>1 DEF StopInv
<1> QED
  BY <1>1, <1>2, <1>3, <1>4 DEF Next

(* So without an overlap a drain can only get past its deadline where that comes *)
(* before the next start.                                                      *)
LEMMA DeadlineBeforeStart ==
    ASSUME IInv, DrainInv, StopInv, polls > 0, OutOfTime, ~crossed
    PROVE  Patience < Period
<1>1. polls \in Nat /\ clock \in Int /\ Period \in Nat \ {0} /\ Patience \in Nat /\ bin # 0
  BY TimesAssumption DEF IInv, TypeOK, OverlapIsTheOnlyDanger, Last
<1>2. branch[bin] \in {"draining", "complete"}
  BY <1>1 DEF IInv, OverlapIsTheOnlyDanger
<1>3. step \in {2, 4}
  BY <1>1, <1>2 DEF IInv, TypeOK, ScriptInv
<1>4. clock > Period * step + Patience
  BY DEF StopInv, OutOfTime
<1>5. \A n \in 0..4 : step = n => clock <= Period * (n + 1)
  BY DEF DrainInv
<1> QED
  BY <1>1, <1>3, <1>4, <1>5

-----------------------------------------------------------------------------
(* Without an overlap a branch is only cut off before its end because of an     *)
(* error of its own or of the trunk, of one that an earlier recording left      *)
(* behind, or of a deadline that comes before the next start; never by a flag   *)
(* that is not its own.                                                        *)
THEOREM FilesAreWhole == Spec => FileIsWholeOrGivenUp
<1> DEFINE Whole == \A r \in Recordings : branch[r] \in {"linked", "draining"} /\ branch'[r] = "gone"
                        => \/ crossed
                           \/ OutOfTime /\ Patience < Period
                           \/ OnError /\ (Head(bus) \in {r, Trunk} \/ LeftBehind(r))
<1>1. ASSUME IInv, BusInv, DrainInv, StopInv, [Next]_vars, NEW r \in Recordings,
             branch[r] \in {"linked", "draining"}, branch'[r] = "gone", ~crossed
      PROVE  (OutOfTime /\ Patience < Period) \/ (OnError /\ (Head(bus) \in {r, Trunk} \/ LeftBehind(r)))
  <2>0. TypeOK
    BY <1>1 DEF IInv
  <2>1. ~RecStart
    BY <1>1, <2>0 DEF RecStart, Attach, TypeOK
  <2>2. ~RecStop
    BY <1>1, <2>0 DEF RecStop, TypeOK
  <2>3. ASSUME NEW q \in Recordings, OnBranchEvent(q) PROVE FALSE
    BY <1>1, <2>0, <2>3 DEF OnBranchEvent, TypeOK
  <2>4. PollFinish
    BY <1>1, <2>1, <2>2, <2>3 DEF Next, Tick, BranchError, TrunkError, PostError, vars
  <2>5. r = bin
    BY <1>1, <2>0, <2>4 DEF PollFinish, Teardown, TypeOK
  <2>6. ~eosSeen
    BY <1>1, <2>5 DEF IInv, FlagInv
  <2>7. ASSUME OnError PROVE Head(bus) \in {r, Trunk} \/ LeftBehind(r)
    <3>1. Head(bus) = bus[1] /\ 1 \in 1..Len(bus) /\ bus[1] \in Posters
      BY <2>0, <2>7 DEF OnError, TypeOK
    <3>2. Awaited = bin
      BY <1>1, <2>5 DEF Awaited
    <3>3. bus[1] <= bin /\ (bus[1] # Trunk /\ bus[1] < bin => LeftBehind(bin))
      BY <1>1, <3>1, <3>2 DEF BusInv
    <3> QED
      BY <2>5, <3>1, <3>3 DEF Recordings, Posters, Trunk
  <2>8. ASSUME OutOfTime PROVE Patience < Period
    <3>1. polls > 0
      BY <2>4 DEF PollFinish
    <3> QED
      BY <1>1, <2>8, <3>1, DeadlineBeforeStart
  <2> QED
    BY <2>4, <2>6, <2>7, <2>8 DEF PollFinish
<1>2. IInv /\ BusInv /\ DrainInv /\ StopInv /\ [Next]_vars => [Whole]_vars
  BY <1>1
<1>3. Init => BusInv /\ DrainInv /\ StopInv
  BY TimesAssumption DEF Init, BusInv, DrainInv, StopInv
<1> QED
  BY <1>2, <1>3, NextBus, NextDrain, NextStop, Invariance, PTL DEF Spec, FileIsWholeOrGivenUp

-----------------------------------------------------------------------------
(* No poll waits longer than a patience after the last stop, overlapping        *)
(* recordings included, and the model's clock goes on for that long: DrainEnds  *)
(* does not hold or fail by its bound.                                          *)
THEOREM DrainsHaveAnEnd == Spec => []DrainIsBounded
<1>1. Init => DrainInv
  BY TimesAssumption DEF Init, DrainInv
<1>2. IInv /\ DrainInv => DrainIsBounded
  BY TimesAssumption DEF IInv, TypeOK, DrainInv, DrainIsBounded, Last
<1> QED
  BY <1>1, <1>2, NextDrain, Invariance, PTL DEF Spec

=============================================================================
