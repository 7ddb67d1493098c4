---------------------------- MODULE RecoveryProofs ----------------------------
(* Proofs about Recovery, for a watchdog of any limit: the types, and that no   *)
(* generation is reported dead before it has had the whole limit.               *)
EXTENDS Recovery, TLAPS

(* Before the first generation nothing runs and nothing is known.               *)
LEMMA InitIInv == Init => IInv
<1> SUFFICES ASSUME Init PROVE IInv
  OBVIOUS
<1>1. silence \in Silences /\ age \in Silences /\ silence <= age /\ look.silence <= age
  BY LimitAssumption DEF Init, Silences, Idle
<1>2. /\ gen = 0 /\ last \in 0..gen /\ alive \subseteq Generations \cap 1..gen
      /\ alarms \in [Generations -> Nat] /\ GenInv
  BY DEF Init, GenInv
<1>3. step \in 0..5 /\ gen \in 0..3
  BY DEF Init
<1>4. look \in {Idle}
  BY DEF Init
<1>5. eos \in BOOLEAN /\ dead \in BOOLEAN /\ wired \in BOOLEAN /\ ended \in BOOLEAN /\ lost \in BOOLEAN
  BY Zenon DEF Init
<1> QED
  BY <1>1, <1>2, <1>3, <1>4, <1>5 DEF IInv, TypeOK

(* A period lengthens a silence, up to the bound, and keeps two in order.       *)
LEMMA LongerKeepsOrder ==
    ASSUME NEW x \in Silences, NEW y \in Silences, x <= y
    PROVE  Longer(x) \in Silences /\ Longer(y) \in Silences /\ Longer(x) <= Longer(y) /\ y <= Longer(y)
BY LimitAssumption DEF Longer, Silences

(* A generation is started at its place in the script, after those before it.   *)
LEMMA StartsNext ==
    ASSUME IInv, NEW g \in Generations, ProduceStart(g)
    PROVE  /\ gen < g /\ gen \in 0..3 /\ gen' = g
           /\ (step = 0 /\ g = 1) \/ (step = 1 /\ g = 2) \/ (step = 3 /\ g = 3)
<1>1. step \in {0, 1, 2, 3, 4} /\ Script[step + 1] = Starts(g) /\ gen' = g /\ g \in {1, 2, 3}
  BY DEF ProduceStart, Launch, Event, Up, IInv, TypeOK, Generations
<1>2. /\ Script[1] = "gen1" /\ Script[2] = "gen2" /\ Script[3] = "crash"
      /\ Script[4] = "gen3" /\ Script[5] = "quit"
  BY DEF Script
<1>3. Starts(1) = "gen1" /\ Starts(2) = "gen2" /\ Starts(3) = "gen3"
  BY DEF Starts
<1>4. (step = 0 /\ g = 1) \/ (step = 1 /\ g = 2) \/ (step = 3 /\ g = 3)
  BY <1>1, <1>2, <1>3
<1> QED
  BY <1>1, <1>4 DEF IInv, GenInv, TypeOK

(* Every step of the main loop and of the other threads keeps the invariant.    *)
LEMMA NextIInv == IInv /\ [Next]_vars => IInv'
<1> SUFFICES ASSUME IInv, [Next]_vars PROVE IInv'
  OBVIOUS
<1> USE LimitAssumption
<1>0. /\ TypeOK /\ GenInv /\ look.silence <= age
      /\ 0 \in Silences /\ \A t \in Silences : t \in Int /\ (t # -1 => 0 <= t)
  BY DEF IInv, Silences
<1>1. ASSUME NEW g \in Generations, ProduceStart(g) PROVE IInv'
  <2>1. step \in 0..4 /\ look = Idle /\ Script[step + 1] = Starts(g) /\ step' = step + 1 /\ gen' = g
    BY <1>0, <1>1 DEF TypeOK, ProduceStart, Launch, Event, Up
  <2>2. gen <= g /\ GenInv'
    <3>1. (step = 0 /\ g = 1) \/ (step = 1 /\ g = 2) \/ (step = 3 /\ g = 3)
      BY <1>1, StartsNext
    <3>2. age' = 0
      BY <1>1 DEF ProduceStart, Launch
    <3> QED
      BY <1>0, <2>1, <3>1, <3>2 DEF GenInv
  <2>3. alive' \subseteq Generations \cap 1..gen' /\ last' \in 0..gen' /\ alarms' \in [Generations -> Nat]
    BY <1>0, <1>1, <2>1, <2>2 DEF TypeOK, ProduceStart, Launch, bridge, Generations
  <2>4. silence' = 0 /\ age' = 0 /\ look' = Idle /\ look'.silence <= age'
    BY <1>1, <2>1 DEF ProduceStart, Launch, Idle
  <2>5. /\ eos' = FALSE /\ dead' = FALSE /\ wired' = wired /\ ended' = ended
        /\ lost' = (lost \/ alive # {})
    BY <1>1 DEF ProduceStart, Launch, bridge
  <2>6. step' \in 0..5 /\ gen' \in 0..3
    BY <2>1 DEF Generations
  <2>7. eos' \in BOOLEAN /\ dead' \in BOOLEAN /\ wired' \in BOOLEAN /\ ended' \in BOOLEAN /\ lost' \in BOOLEAN
    BY <1>0, <2>5, Zenon DEF TypeOK
  <2>8. silence' \in Silences /\ age' \in Silences /\ silence' <= age' /\ look' \in {Idle}
    BY <1>0, <2>4
  <2> QED
    BY <2>2, <2>3, <2>4, <2>6, <2>7, <2>8 DEF IInv, TypeOK
<1>2. CASE ProducerCrash \/ Quit
  <2>1. step' \in 0..5 /\ GenInv' /\ gen' = gen /\ alive' \subseteq alive
    BY <1>0, <1>2 DEF TypeOK, GenInv, ProducerCrash, Quit, Event, Up, Script, history
  <2> QED
    BY <1>0, <1>2, <2>1 DEF IInv, TypeOK, ProducerCrash, Quit, bridge, history
<1>3. ASSUME NEW g \in Generations, OnProducerSample(g) PROVE IInv'
  <2>1. g \in 1..gen /\ last' \in 0..gen /\ age # -1
    <3>1. g \in Generations \cap 1..gen /\ last' = g /\ gen \in 0..3
      BY <1>0, <1>3 DEF TypeOK, OnProducerSample, history
    <3> QED
      BY <1>0, <3>1 DEF GenInv
  <2> QED
    BY <1>0, <1>3, <2>1 DEF IInv, TypeOK, GenInv, OnProducerSample, producer, history
<1>4. ASSUME NEW g \in Generations, OnProducerEos(g) PROVE IInv'
  BY <1>0, <1>4 DEF IInv, TypeOK, GenInv, OnProducerEos, history
<1>5. CASE OnMediaConfigure \/ OnMediaUnprepared
  BY <1>0, <1>5 DEF IInv, TypeOK, GenInv, OnMediaConfigure, OnMediaUnprepared, producer, history
<1>6. CASE WatchdogReads
  <2>1. look'.silence = silence /\ look' \in [wired : BOOLEAN, eos : BOOLEAN, dead : BOOLEAN, silence : Silences]
    BY <1>0, <1>6 DEF TypeOK, WatchdogReads, history
  <2> QED
    BY <1>0, <1>6, <2>1 DEF IInv, TypeOK, GenInv, WatchdogReads, producer, bridge, history
<1>7. CASE WatchdogDecides
  <2>1. CASE look.silence > Limit
    <3>1. look # Idle
      BY <2>1 DEF Idle
    <3>2. look.silence \in Silences /\ age \in Silences
      BY <1>0, <3>1 DEF TypeOK
    <3>3. age # -1
      BY <1>0, <2>1, <3>2 DEF Silences
    <3>4. gen \in Generations \cap 1..gen
      BY <1>0, <3>3 DEF GenInv, TypeOK, Generations
    <3>5. alarms' \in [Generations -> Nat] /\ UNCHANGED <<producer, eos, silence, bridge, age, lost>>
      BY <1>0, <1>7, <3>4 DEF TypeOK, WatchdogDecides, producer, history
    <3>6. dead' \in BOOLEAN /\ look' \in {Idle}
      BY <1>0, <1>7 DEF TypeOK, WatchdogDecides, history
    <3>7. look'.silence <= age'
      BY <1>0, <3>2, <3>5, <3>6 DEF Idle, Silences
    <3> QED
      BY <1>0, <3>5, <3>6, <3>7 DEF IInv, TypeOK, GenInv, producer, bridge, history
  <2>2. CASE ~(look.silence > Limit)
    BY <1>0, <1>7, <2>2 DEF IInv, TypeOK, GenInv, WatchdogDecides, producer, bridge, Idle, Silences, history
  <2> QED
    BY <2>1, <2>2
<1>8. CASE Tick
  <2>1. /\ silence' \in Silences /\ age' \in Silences /\ silence' <= age'
        /\ age <= age' /\ look' = look
    BY <1>0, <1>8, LongerKeepsOrder DEF TypeOK, Tick, history
  <2>2. look'.silence <= age'
    BY <1>0, <2>1 DEF TypeOK, Idle, history
  <2>3. age' = -1 <=> age = -1
    BY <1>0, <1>8 DEF Tick, Longer, TypeOK, Silences
  <2> QED
    BY <1>0, <1>8, <2>1, <2>2, <2>3 DEF IInv, TypeOK, GenInv, Tick, producer, bridge, history
<1>9. CASE UNCHANGED vars
  BY <1>0, <1>9 DEF IInv, TypeOK, GenInv, vars, history
<1> QED
  BY <1>1, <1>2, <1>3, <1>4, <1>5, <1>6, <1>7, <1>8, <1>9 DEF Next

-----------------------------------------------------------------------------
(* The invariant holds whatever the limit of the watchdog is.                   *)
THEOREM Invariance == Spec => []IInv
BY InitIInv, NextIInv, PTL DEF Spec

(* Every variable keeps its type, and nothing is known of a generation that has *)
(* not started.                                                                *)
THEOREM TypeCorrect == Spec => []TypeOK
<1>1. IInv => TypeOK
  BY DEF IInv
<1> QED
  BY <1>1, Invariance, PTL

-----------------------------------------------------------------------------
(* The flag follows the generation.                                             *)
LEMMA NextLatch == IInv /\ LatchInv /\ [Next]_vars => LatchInv'
<1> SUFFICES ASSUME IInv, LatchInv, [Next]_vars PROVE LatchInv'
  OBVIOUS
<1>0. alarms \in [Generations -> Nat] /\ gen \in 0..3
  BY DEF IInv, TypeOK
<1>1. ASSUME NEW g \in Generations, ProduceStart(g) PROVE LatchInv'
  <2>1. look' = Idle /\ dead' = FALSE /\ alarms' = alarms
    BY <1>1 DEF ProduceStart, Launch, Event
  <2>2. gen < g /\ gen' = g /\ alarms[g] = 0
    BY <1>1, StartsNext DEF LatchInv
  <2>3. \A h \in Generations : h > g => alarms[h] = 0
    BY <1>0, <2>2 DEF LatchInv, Generations
  <2> QED
    BY <2>1, <2>2, <2>3 DEF LatchInv, Reported
<1>2. CASE WatchdogDecides
  <2>1. /\ look # Idle /\ look' = Idle /\ gen' = gen
        /\ \/ ~look.dead /\ look.silence > Limit /\ dead' = TRUE
              /\ alarms' = [alarms EXCEPT ![gen] = @ + 1]
           \/ UNCHANGED <<dead, alarms>>
    BY <1>2 DEF WatchdogDecides, producer
  <2>2. CASE UNCHANGED <<dead, alarms>>
    BY <2>1, <2>2 DEF LatchInv, Reported
  <2>3. CASE ~look.dead /\ look.silence > Limit /\ dead' = TRUE /\ alarms' = [alarms EXCEPT ![gen] = @ + 1]
    <3>1. gen # 0
      BY <2>1, <2>3, LimitAssumption DEF IInv, TypeOK, GenInv, Silences
    <3>2. gen \in Generations /\ alarms[gen] = 0
      BY <1>0, <2>1, <2>3, <3>1 DEF LatchInv, Reported, Generations
    <3>3. alarms'[gen] = 1 /\ \A g \in Generations \ {gen} : alarms'[g] = alarms[g]
      BY <1>0, <2>3, <3>2
    <3>4. dead' /\ Reported' /\ look' = Idle
      BY <2>1, <2>3, <3>1, <3>3 DEF Reported
    <3>5. \A g \in Generations : alarms'[g] <= 1 /\ (g > gen => alarms'[g] = 0)
      BY <1>0, <3>3 DEF LatchInv, Generations
    <3> QED
      BY <2>1, <3>4, <3>5 DEF LatchInv
  <2> QED
    BY <2>1, <2>2, <2>3
<1>3. CASE WatchdogReads
  BY <1>3 DEF WatchdogReads, LatchInv, Reported, producer, history
<1>4. CASE ~WatchdogReads /\ ~WatchdogDecides /\ ~\E g \in Generations : ProduceStart(g)
  <2>1. UNCHANGED <<gen, dead, alarms, look>>
    BY <1>4 DEF Next, OnProducerSample, OnProducerEos, ProducerCrash, Quit, OnMediaConfigure,
                OnMediaUnprepared, Tick, producer, history, vars
  <2> QED
    BY <2>1 DEF LatchInv, Reported
<1> QED
  BY <1>1, <1>2, <1>3, <1>4

(* A generation is reported at most once, while it is current and after it was  *)
(* given the whole limit, by the watchdog that found its flag down.             *)
THEOREM OneReportPerGeneration == Spec => []LatchInv /\ AlarmsAreDue
<1>1. Init => LatchInv
  BY DEF Init, LatchInv, Reported, Idle
<1>2. ASSUME IInv, LatchInv, [Next]_vars, NEW g \in Generations, alarms'[g] # alarms[g]
      PROVE  g = gen /\ age > Limit /\ alarms[g] = 0 /\ alarms'[g] = 1
  <2>0. alarms \in [Generations -> Nat] /\ gen \in 0..3
    BY <1>2 DEF IInv, TypeOK
  <2>1. WatchdogDecides
    BY <1>2 DEF Next, ProduceStart, Launch, OnProducerSample, OnProducerEos, ProducerCrash, Quit,
       OnMediaConfigure, OnMediaUnprepared, WatchdogReads, Tick, history, vars
  <2>2. /\ look.silence > Limit /\ look # Idle /\ ~look.dead
        /\ alarms' = [alarms EXCEPT ![gen] = @ + 1]
    BY <1>2, <2>1 DEF WatchdogDecides
  <2>3. look.silence \in Int /\ age \in Int /\ look.silence <= age
    BY <1>2, <2>2, LimitAssumption DEF IInv, TypeOK, Silences
  <2>4. age > Limit /\ g = gen
    BY <1>2, <2>0, <2>2, <2>3, LimitAssumption
  <2>5. alarms[g] = 0
    BY <1>2, <2>0, <2>2, <2>4 DEF LatchInv, Reported, Generations
  <2> QED
    BY <2>0, <2>2, <2>4, <2>5
<1>3. IInv /\ LatchInv /\ [Next]_vars =>
        [\A g \in Generations : alarms'[g] # alarms[g] =>
             g = gen /\ age > Limit /\ alarms[g] = 0 /\ alarms'[g] = 1]_vars
  BY <1>2
<1> QED
  BY <1>1, <1>3, NextLatch, Invariance, PTL DEF Spec, AlarmsAreDue

-----------------------------------------------------------------------------
(* While no pipeline was lost, the one that runs is the current one, and no end *)
(* of stream but its own can come.                                              *)
LEMMA NextOneRuns == IInv /\ OneRuns /\ EndIsOfTheCurrent /\ [Next]_vars
                        => OneRuns' /\ EndIsOfTheCurrent'
<1> SUFFICES ASSUME IInv, OneRuns, EndIsOfTheCurrent, [Next]_vars
             PROVE  OneRuns' /\ EndIsOfTheCurrent'
  OBVIOUS
<1> USE DEF OneRuns, EndIsOfTheCurrent
<1>1. ASSUME NEW g \in Generations, ProduceStart(g) PROVE OneRuns' /\ EndIsOfTheCurrent'
  <2>1. gen' = g /\ alive' = alive \cup {g} /\ eos' = FALSE /\ lost' = (lost \/ alive # {})
    BY <1>1 DEF ProduceStart, Launch
  <2>2. ~lost' => alive = {}
    BY <2>1
  <2> QED
    BY <2>1, <2>2
<1>2. ASSUME NEW g \in Generations, OnProducerEos(g) PROVE OneRuns' /\ EndIsOfTheCurrent'
  <2>1. g \in alive /\ alive' = alive \ {g} /\ gen' = gen /\ lost' = lost
    BY <1>2 DEF OnProducerEos, history
  <2> QED
    BY <2>1
<1>3. CASE ProducerCrash \/ Quit
  <2>1. alive' \subseteq alive /\ UNCHANGED <<gen, eos, lost>>
    BY <1>3 DEF ProducerCrash, Quit, history
  <2> QED
    BY <2>1
<1>4. CASE /\ ~ProducerCrash /\ ~Quit
           /\ ~\E g \in Generations : ProduceStart(g) \/ OnProducerEos(g)
  <2>1. UNCHANGED <<alive, gen, eos, lost>>
    BY <1>4 DEF Next, OnProducerSample, OnMediaConfigure, OnMediaUnprepared, WatchdogReads,
                WatchdogDecides, Tick, producer, history, vars
  <2> QED
    BY <2>1
<1> QED
  BY <1>1, <1>2, <1>3, <1>4

(* The flag producer_eos is one for all generations, but as long as none was    *)
(* replaced while it ran, it only ever tells the end of the current one.        *)
THEOREM EndsAreTold == Spec => []EndIsOfTheCurrent
<1>1. Init => OneRuns /\ EndIsOfTheCurrent
  BY DEF Init, OneRuns, EndIsOfTheCurrent
<1> QED
  BY <1>1, NextOneRuns, Invariance, PTL DEF Spec

-----------------------------------------------------------------------------
(* A start, and every frame after it, sets the time of the last sample.         *)
LEMMA NextSilence == IInv /\ SilenceInv /\ [Next]_vars => SilenceInv'
<1> SUFFICES ASSUME IInv, SilenceInv, [Next]_vars PROVE SilenceInv'
  OBVIOUS
<1>1. CASE \E g \in Generations : ProduceStart(g) \/ OnProducerSample(g)
  BY <1>1 DEF ProduceStart, OnProducerSample, SilenceInv
<1>2. CASE Tick
  BY <1>2, LimitAssumption DEF Tick, Longer, producer, SilenceInv, IInv, TypeOK, Silences
<1>3. CASE ~Tick /\ ~\E g \in Generations : ProduceStart(g) \/ OnProducerSample(g)
  <2>1. UNCHANGED <<gen, silence>>
    BY <1>3 DEF Next, OnProducerEos, ProducerCrash, Quit, OnMediaConfigure, OnMediaUnprepared,
                WatchdogReads, WatchdogDecides, producer, vars
  <2> QED
    BY <2>1 DEF SilenceInv
<1> QED
  BY <1>1, <1>2, <1>3

(* A frozen picture is noticed: the silence grows, the watchdog's copies stay    *)
(* true of the generation they were taken of, and its decision is about that.   *)
THEOREM SilenceTells == Spec => FreezeIsNoticed
<1> DEFINE Noticed ==
      Frozen => /\ Tick => silence' > silence \/ silence > Limit
                /\ WatchdogReads /\ silence > Limit => Condemned'
                /\ WatchdogDecides /\ Condemned => gen' = gen /\ Reported'
                /\ Frozen' => silence' >= silence /\ (Condemned => Condemned')
<1>1. Init => LatchInv /\ SilenceInv
  BY DEF Init, LatchInv, SilenceInv, Reported, Idle
<1>2. ASSUME IInv, LatchInv, SilenceInv, Next, Frozen PROVE Noticed
  <2>0. silence \in 0..(Limit + 1) /\ Limit \in Nat /\ ~dead /\ alive = {}
    BY <1>2, LimitAssumption DEF IInv, TypeOK, Silences, SilenceInv, Frozen, LatchInv
  <2>1. Tick => silence' > silence \/ silence > Limit
    BY <2>0 DEF Tick, Longer
  <2>2. WatchdogReads /\ silence > Limit => Condemned'
    BY <1>2, <2>0 DEF WatchdogReads, Condemned, Frozen
  <2>3. WatchdogDecides /\ Condemned => gen' = gen /\ Reported'
    <3>1. gen \in Generations /\ alarms \in [Generations -> Nat]
      BY <1>2 DEF IInv, TypeOK, Frozen, Generations
    <3> QED
      BY <1>2, <3>1 DEF WatchdogDecides, Condemned, Reported, Frozen, producer
  <2>4. ASSUME Frozen' PROVE silence' >= silence /\ (Condemned => Condemned')
    <3>1. ~\E g \in Generations : ProduceStart(g)
      BY <2>4 DEF ProduceStart, Launch, Frozen
    <3>2. ~\E g \in Generations : OnProducerSample(g) \/ OnProducerEos(g)
      BY <2>0 DEF OnProducerSample, OnProducerEos
    <3>3. CASE Tick
      BY <2>0, <3>3 DEF Tick, Longer, Condemned
    <3>4. CASE WatchdogReads
      BY <2>0, <3>4 DEF WatchdogReads, Condemned, Idle
    <3>5. CASE WatchdogDecides
      <4>1. silence' = silence /\ gen' = gen
        BY <3>5 DEF WatchdogDecides, producer
      <4>2. ~Condemned
        BY <2>3, <2>4, <3>5 DEF Frozen
      <4> QED
        BY <2>0, <4>1, <4>2
    <3>6. CASE ProducerCrash \/ Quit \/ OnMediaConfigure \/ OnMediaUnprepared
      <4>1. UNCHANGED <<silence, look>>
        BY <3>6 DEF ProducerCrash, Quit, OnMediaConfigure, OnMediaUnprepared
      <4> QED
        BY <2>0, <4>1 DEF Condemned
    <3> QED
      BY <1>2, <3>1, <3>2, <3>3, <3>4, <3>5, <3>6 DEF Next
  <2> QED
    BY <2>1, <2>2, <2>3, <2>4
<1>3. IInv /\ LatchInv /\ SilenceInv /\ [Next]_vars => [Noticed]_vars
  BY <1>2
<1> QED
  BY <1>1, <1>3, NextLatch, NextSilence, Invariance, PTL DEF Spec, FreezeIsNoticed

=============================================================================
