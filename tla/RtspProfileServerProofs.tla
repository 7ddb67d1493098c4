------------------------ MODULE RtspProfileServerProofs ------------------------
(* Proofs about the bridge, for any mounts, any number of media one after the   *)
(* other and any number of viewers.                                             *)
EXTENDS RtspProfileServer, TLAPS

(* At first no media is there and nobody is in a callback.                      *)
LEMMA InitIInv == Init => IInv
<1> SUFFICES ASSUME Init PROVE IInv
  OBVIOUS
<1>1. TypeOK
  <2>1. /\ alive \in BOOLEAN /\ attached \in BOOLEAN
        /\ connected \in BOOLEAN /\ playing \in BOOLEAN
    BY Zenon DEF Init
  <2>2. open \in [Mounts -> BOOLEAN]
    BY DEF Init
  <2>3. phase \in [Mounts -> [Media -> Phases]] /\ viewers \in [Mounts -> [Media -> 0..MaxViewers]]
    BY ServerAssumption DEF Init, Phases
  <2> QED
    BY <2>1, <2>2, <2>3 DEF Init, TypeOK, None, Free
<1>2. BridgeFeedsTheMedia /\ OneReferenceHeld /\ MediaInv
  BY DEF Init, BridgeFeedsTheMedia, OneReferenceHeld, MediaInv, Media, None, InUse
<1>3. PushTargetIsThere /\ MutexInv /\ DeliveryInv
  BY ServerAssumption DEF Init, PushTargetIsThere, MutexInv, DeliveryInv, Media, Free, Streaming
<1> QED
  BY <1>1, <1>2, <1>3 DEF IInv

-----------------------------------------------------------------------------
(* A step that leaves the bridge and the deliveries alone keeps what concerns   *)
(* them.                                                                        *)
LEMMA BridgeUnchanged ==
    ASSUME IInv, UNCHANGED <<bridge, stream>>
    PROVE  /\ BridgeFeedsTheMedia' /\ OneReferenceHeld' /\ PushTargetIsThere'
           /\ MediaInv' /\ MutexInv'
BY DEF IInv, bridge, BridgeFeedsTheMedia, OneReferenceHeld, PushTargetIsThere, MediaInv, MutexInv

(* The server object and its surroundings.                                      *)
LEMMA SurroundingsIInv ==
    ASSUME IInv,
           \/ Attach \/ Detach \/ Play \/ Pause \/ Destroy \/ Connect
           \/ \E m \in Mounts, enabled \in BOOLEAN : SetProfileEnabled(m, enabled)
    PROVE  IInv'
<1>1. UNCHANGED <<bridge, stream>>
  BY DEF Attach, Detach, Play, Pause, Destroy, Connect, SetProfileEnabled
<1>2. /\ alive' \in BOOLEAN /\ attached' \in BOOLEAN /\ connected' \in BOOLEAN
      /\ playing' \in BOOLEAN
  BY DEF IInv, TypeOK, Attach, Detach, Play, Pause, Destroy, Connect, SetProfileEnabled
<1>3. open' \in [Mounts -> BOOLEAN] /\ state' \in [Mounts -> {"off", "ready"}]
  BY DEF IInv, TypeOK, Attach, Detach, Play, Pause, Destroy, Connect, SetProfileEnabled, StateFor
<1>4. TypeOK'
  BY <1>1, <1>2, <1>3 DEF IInv, TypeOK, bridge
<1>5. DeliveryInv'
  <2>1. /\ ~alive => ~playing
        /\ \A m \in Mounts : stream[m] \notin {"idle", "dead"} => playing
    BY DEF IInv, DeliveryInv
  <2>2. stream' = stream
    BY <1>1
  <2>3. CASE Pause
    BY <2>2, <2>3 DEF Pause, DeliveryInv
  <2>4. CASE Destroy
    BY <2>1, <2>2, <2>4 DEF Destroy, DeliveryInv
  <2>5. CASE Play
    BY <2>2, <2>5 DEF Play, DeliveryInv
  <2>6. CASE \/ Attach \/ Detach \/ Connect
             \/ \E m \in Mounts, enabled \in BOOLEAN : SetProfileEnabled(m, enabled)
    <3>1. alive' = alive /\ playing' = playing
      BY <2>6, Zenon DEF Attach, Detach, Connect, SetProfileEnabled
    <3> QED
      BY <2>1, <2>2, <3>1 DEF DeliveryInv
  <2> QED
    BY <2>3, <2>4, <2>5, <2>6
<1> QED
  BY <1>1, <1>4, <1>5, BridgeUnchanged DEF IInv

-----------------------------------------------------------------------------
(* A media that goes from one phase to another, and every other that stays.     *)
LEMMA PhaseMoves ==
    ASSUME TypeOK, NEW m \in Mounts, NEW k \in Media, NEW from, NEW to \in Phases,
           Phase(m, k, from, to)
    PROVE  /\ phase[m][k] \in from /\ phase'[m][k] = to
           /\ \A n \in Mounts, j \in Media : n # m \/ j # k => phase'[n][j] = phase[n][j]
           /\ phase' \in [Mounts -> [Media -> Phases]]
BY DEF TypeOK, Phase

(* What the library does between the callbacks.                                 *)
LEMMA LibraryIInv ==
    ASSUME IInv, NEW m \in Mounts, NEW k \in Media, Library(m, k)
    PROVE  IInv'
<1>1. /\ UNCHANGED <<alive, attached, connected, playing, open, state, stream>>
      /\ UNCHANGED <<mutex, appSrc, held, cached>>
  BY DEF Library, NewMedia, Join, Prepared, PrepareFails, Leave, KeepRest
<1>2. viewers' \in [Mounts -> [Media -> 0..MaxViewers]]
  <2>1. /\ viewers \in [Mounts -> [Media -> 0..MaxViewers]] /\ MaxViewers \in Nat \ {0}
        /\ viewers[m][k] \in 0..MaxViewers
    BY ServerAssumption DEF IInv, TypeOK
  <2>2. CASE NewMedia(m, k)
    BY <2>1, <2>2 DEF NewMedia
  <2>3. CASE Join(m, k)
    BY <2>1, <2>3 DEF Join
  <2>4. CASE Prepared(m, k) \/ PrepareFails(m, k)
    BY <2>1, <2>4 DEF Prepared, PrepareFails
  <2>5. CASE Leave(m, k)
    BY <2>1, <2>5 DEF Leave
  <2> QED
    BY <2>2, <2>3, <2>4, <2>5 DEF Library
<1>3. \/ UNCHANGED phase
      \/ /\ NewMedia(m, k)
         /\ cached[m] = None /\ \A j \in Media : j < k => phase[m][j] \notin {"none", "configuring"}
         /\ Phase(m, k, {"none"}, "configuring")
      \/ Phase(m, k, {"configured"}, "announcing")
      \/ Phase(m, k, {"configured"}, "leaving")
      \/ Phase(m, k, {"serving"}, "leaving")
  BY DEF Library, NewMedia, Join, Prepared, PrepareFails, Leave
<1>4. phase' \in [Mounts -> [Media -> Phases]]
  BY <1>3, PhaseMoves DEF IInv, TypeOK, Phases, Handlers
<1>5. TypeOK'
  BY <1>1, <1>2, <1>4 DEF IInv, TypeOK
<1>6. /\ \A n \in Mounts, j \in Media : n # m \/ j # k => phase'[n][j] = phase[n][j]
      /\ \/ phase'[m][k] = phase[m][k]
         \/ /\ phase[m][k] = "none" /\ phase'[m][k] = "configuring" /\ cached[m] = None
            /\ \A j \in Media : j < k => phase[m][j] \notin {"none", "configuring"}
         \/ /\ phase[m][k] = "configured" /\ phase'[m][k] \in {"announcing", "leaving"}
         \/ /\ phase[m][k] = "serving" /\ phase'[m][k] = "leaving"
  BY <1>3, PhaseMoves DEF IInv, TypeOK, Phases, Handlers
<1>7. \A n \in Mounts, j \in Media : phase'[n][j] \in InUse <=> phase[n][j] \in InUse
  BY <1>6 DEF InUse
<1>8. BridgeFeedsTheMedia' /\ OneReferenceHeld'
  BY <1>1, <1>7 DEF IInv, BridgeFeedsTheMedia, OneReferenceHeld
<1>9. PushTargetIsThere' /\ DeliveryInv'
  BY <1>1 DEF IInv, PushTargetIsThere, DeliveryInv
<1>10. MutexInv'
  BY <1>1, <1>6 DEF IInv, MutexInv, Handlers
<1>11. MediaInv'
  <2> SUFFICES ASSUME NEW n \in Mounts, NEW j \in Media
               PROVE  /\ \A i \in Media : i < j /\ phase'[n][j] # "none"
                            => phase'[n][i] \notin {"none", "configuring"}
                      /\ cached[n] = j <=> phase'[n][j] \in InUse
                      /\ phase'[n][j] = "configuring" => cached[n] = None
    BY <1>1 DEF MediaInv
  <2>1. /\ \A i \in Media : i < j /\ phase[n][j] # "none" => phase[n][i] \notin {"none", "configuring"}
        /\ cached[n] = j <=> phase[n][j] \in InUse
        /\ phase[n][j] = "configuring" => cached[n] = None
    BY DEF IInv, MediaInv
  <2>2. ASSUME NEW i \in Media, i < j, phase'[n][j] # "none"
        PROVE  phase'[n][i] \notin {"none", "configuring"}
    <3>1. i # j /\ i \in Int /\ j \in Int /\ k \in Int
      BY <2>2 DEF Media
    <3>2. CASE n # m
      BY <1>6, <2>1, <2>2, <3>2
    <3>3. CASE n = m /\ j = k
      BY <1>6, <2>1, <2>2, <3>1, <3>3
    <3>4. CASE n = m /\ i = k
      BY <1>6, <2>1, <2>2, <3>1, <3>4
    <3>5. CASE n = m /\ i # k /\ j # k
      BY <1>6, <2>1, <2>2, <3>5
    <3> QED
      BY <3>2, <3>3, <3>4, <3>5
  <2>3. phase'[n][j] = "configuring" => cached[n] = None
    BY <1>6, <2>1
  <2> QED
    BY <1>7, <2>1, <2>2, <2>3
<1> QED
  BY <1>5, <1>8, <1>9, <1>10, <1>11 DEF IInv

-----------------------------------------------------------------------------
(* A callback that gets the mutex.                                              *)
LEMMA EnterIInv ==
    ASSUME IInv, NEW m \in Mounts, NEW k \in Media, EnterHandler(m, k)
    PROVE  IInv'
<1>1. /\ UNCHANGED <<alive, attached, connected, playing, open, state, stream>>
      /\ UNCHANGED <<appSrc, held, phase, cached, viewers>>
      /\ phase[m][k] \in Handlers /\ mutex[m] = Free
      /\ mutex' = [mutex EXCEPT ![m] = k]
  BY DEF EnterHandler, KeepRest
<1>2. /\ mutex' \in [Mounts -> {Free, Streaming} \cup Media]
      /\ mutex'[m] = k /\ \A n \in Mounts : n # m => mutex'[n] = mutex[n]
  BY <1>1 DEF IInv, TypeOK
<1>3. TypeOK'
  BY <1>1, <1>2 DEF IInv, TypeOK
<1>4. BridgeFeedsTheMedia' /\ OneReferenceHeld' /\ MediaInv' /\ DeliveryInv'
  BY <1>1 DEF IInv, BridgeFeedsTheMedia, OneReferenceHeld, MediaInv, DeliveryInv
<1>5. PushTargetIsThere'
  BY <1>1, <1>2 DEF IInv, PushTargetIsThere, Free, Streaming
<1>6. MutexInv'
  BY <1>1, <1>2, ServerAssumption DEF IInv, MutexInv, Media, Streaming
<1> QED
  BY <1>3, <1>4, <1>5, <1>6 DEF IInv

(* A handler that is done: its media was the one it may be about, the others    *)
(* stay where they are, and no delivery was under way.                          *)
LEMMA HandlerDone ==
    ASSUME IInv, NEW m \in Mounts, NEW k \in Media, Callback(m, k)
    PROVE  /\ UNCHANGED <<alive, attached, connected, playing, open, state, stream, viewers>>
           /\ mutex[m] = k /\ mutex' = [mutex EXCEPT ![m] = Free]
           /\ stream[m] \notin {"pull", "check", "push", "unlock"}
           /\ phase' \in [Mounts -> [Media -> Phases]]
           /\ \A n \in Mounts, j \in Media : n # m \/ j # k => phase'[n][j] = phase[n][j]
           /\ \/ /\ OnMediaConfigure(m, k)
                 /\ phase[m][k] = "configuring" /\ phase'[m][k] = "configured"
              \/ /\ OnMediaPrepared(m, k)
                 /\ phase[m][k] = "announcing" /\ phase'[m][k] = "serving"
              \/ /\ OnMediaUnprepared(m, k)
                 /\ phase[m][k] = "leaving" /\ phase'[m][k] = "gone"
<1>1. mutex[m] = k /\ mutex' = [mutex EXCEPT ![m] = Free]
  BY DEF Callback, OnMediaConfigure, OnMediaPrepared, OnMediaUnprepared, LeaveHandler
<1>2. UNCHANGED <<alive, attached, connected, playing, open, state, stream, viewers>>
  BY DEF Callback, OnMediaConfigure, OnMediaPrepared, OnMediaUnprepared, KeepRest
<1>3. stream[m] \notin {"pull", "check", "push", "unlock"}
  BY <1>1, ServerAssumption DEF IInv, PushTargetIsThere, Media, Streaming
<1>4. TypeOK /\ {"configured", "serving", "gone"} \subseteq Phases
  BY DEF IInv, Phases
<1>5. CASE OnMediaConfigure(m, k)
  <2>1. Phase(m, k, {"configuring"}, "configured")
    BY <1>5 DEF OnMediaConfigure
  <2> QED
    BY <1>1, <1>2, <1>3, <1>4, <1>5, <2>1, PhaseMoves
<1>6. CASE OnMediaPrepared(m, k)
  <2>1. Phase(m, k, {"announcing"}, "serving")
    BY <1>6 DEF OnMediaPrepared
  <2> QED
    BY <1>1, <1>2, <1>3, <1>4, <1>6, <2>1, PhaseMoves
<1>7. CASE OnMediaUnprepared(m, k)
  <2>1. Phase(m, k, {"leaving"}, "gone")
    BY <1>7 DEF OnMediaUnprepared
  <2> QED
    BY <1>1, <1>2, <1>3, <1>4, <1>7, <2>1, PhaseMoves
<1> QED
  BY <1>5, <1>6, <1>7 DEF Callback

(* What the three handlers do to the mount: the appsrc, the references, the     *)
(* cache. An "unprepared" finds the appsrc of its own media.                    *)
LEMMA HandlerEffect ==
    ASSUME IInv, NEW m \in Mounts, NEW k \in Media, Callback(m, k)
    PROVE  /\ appSrc' \in [Mounts -> Media \cup {None}]
           /\ held' \in [Mounts -> [Media -> Int]]
           /\ cached' \in [Mounts -> Media \cup {None}]
           /\ \A n \in Mounts : n # m =>
                appSrc'[n] = appSrc[n] /\ held'[n] = held[n] /\ cached'[n] = cached[n]
           /\ appSrc'[m] = (IF phase'[m][k] = "gone" THEN None ELSE k)
           /\ cached'[m] = (IF phase'[m][k] = "gone" THEN None ELSE k)
           /\ \A j \in Media : held'[m][j] = (IF appSrc'[m] = j THEN 1 ELSE 0)
<1>1. TypeOK /\ k # None /\ None \notin Media
  BY ServerAssumption DEF IInv, Media, None
<1>2. /\ appSrc[m] = k <=> phase[m][k] \in InUse
      /\ cached[m] = k <=> phase[m][k] \in InUse
      /\ phase[m][k] = "configuring" => cached[m] = None
      /\ \A j \in Media : held[m][j] = IF appSrc[m] = j THEN 1 ELSE 0
  BY DEF IInv, BridgeFeedsTheMedia, MediaInv, OneReferenceHeld
<1>3. phase[m][k] = "configuring" => appSrc[m] = None
  <2> SUFFICES ASSUME phase[m][k] = "configuring", appSrc[m] # None PROVE FALSE
    OBVIOUS
  <2>1. appSrc[m] \in Media
    BY <1>1 DEF TypeOK
  <2>2. phase[m][appSrc[m]] \in InUse
    BY <2>1 DEF IInv, BridgeFeedsTheMedia
  <2>3. cached[m] = appSrc[m]
    BY <2>1, <2>2 DEF IInv, MediaInv
  <2> QED
    BY <1>2, <2>3
<1>4. CASE OnMediaConfigure(m, k)
  <2>1. /\ appSrc' = [appSrc EXCEPT ![m] = k] /\ held' = [held EXCEPT ![m][k] = @ + 1]
        /\ cached' = [cached EXCEPT ![m] = k]
        /\ phase[m][k] = "configuring" /\ phase'[m][k] = "configured"
    BY <1>1, <1>4, PhaseMoves DEF OnMediaConfigure, Shared, Phases
  <2>2. \A j \in Media : held[m][j] = 0
    BY <1>1, <1>2, <1>3, <2>1
  <2> QED
    BY <1>1, <2>1, <2>2 DEF TypeOK
<1>5. CASE OnMediaPrepared(m, k)
  <2>1. UNCHANGED <<appSrc, held, cached>> /\ phase[m][k] = "announcing" /\ phase'[m][k] = "serving"
    BY <1>1, <1>5, PhaseMoves DEF OnMediaPrepared, Phases
  <2> QED
    BY <1>1, <1>2, <2>1 DEF TypeOK, InUse
<1>6. CASE OnMediaUnprepared(m, k)
  <2>1. /\ phase[m][k] = "leaving" /\ phase'[m][k] = "gone"
    BY <1>1, <1>6, PhaseMoves DEF OnMediaUnprepared, Phases
  <2>2. appSrc[m] = k /\ cached[m] = k
    BY <1>2, <2>1 DEF InUse
  <2>3. /\ appSrc' = [appSrc EXCEPT ![m] = None] /\ cached' = [cached EXCEPT ![m] = None]
        /\ held' = [held EXCEPT ![m] = [j \in Media |-> IF j = k THEN held[m][j] - 1 ELSE held[m][j]]]
    BY <1>1, <1>6, <2>2 DEF OnMediaUnprepared, TypeOK
  <2>4. \A j \in Media : held'[m][j] = 0
    BY <1>1, <1>2, <2>2, <2>3 DEF TypeOK
  <2>5. held' \in [Mounts -> [Media -> Int]] /\ \A n \in Mounts : n # m => held'[n] = held[n]
    BY <1>1, <2>3 DEF TypeOK
  <2> QED
    BY <1>1, <2>1, <2>3, <2>4, <2>5 DEF TypeOK
<1> QED
  BY <1>4, <1>5, <1>6 DEF Callback

(* A callback that returns.                                                     *)
LEMMA CallbackIInv ==
    ASSUME IInv, NEW m \in Mounts, NEW k \in Media, Callback(m, k)
    PROVE  IInv'
<1>1. /\ TypeOK /\ k # None /\ None \notin Media /\ Free \notin Media
      /\ UNCHANGED <<alive, attached, connected, playing, open, state, stream, viewers>>
      /\ mutex[m] = k /\ mutex' = [mutex EXCEPT ![m] = Free]
      /\ phase' \in [Mounts -> [Media -> Phases]]
      /\ stream[m] \notin {"pull", "check", "push", "unlock"}
  BY HandlerDone, ServerAssumption DEF IInv, Media, None, Free
<1>2. \A n \in Mounts, j \in Media : n # m \/ j # k => phase'[n][j] = phase[n][j]
  BY HandlerDone
<1>3. \/ phase[m][k] = "configuring" /\ phase'[m][k] = "configured"
      \/ phase[m][k] = "announcing" /\ phase'[m][k] = "serving"
      \/ phase[m][k] = "leaving" /\ phase'[m][k] = "gone"
  BY HandlerDone
<1>4. /\ \A n \in Mounts : n # m =>
           appSrc'[n] = appSrc[n] /\ held'[n] = held[n] /\ cached'[n] = cached[n]
      /\ appSrc'[m] = (IF phase'[m][k] = "gone" THEN None ELSE k)
      /\ cached'[m] = (IF phase'[m][k] = "gone" THEN None ELSE k)
      /\ \A j \in Media : held'[m][j] = (IF appSrc'[m] = j THEN 1 ELSE 0)
  BY HandlerEffect
<1>5. TypeOK'
  <2>1. mutex' \in [Mounts -> {Free, Streaming} \cup Media]
    BY <1>1 DEF TypeOK
  <2>2. /\ appSrc' \in [Mounts -> Media \cup {None}] /\ held' \in [Mounts -> [Media -> Int]]
        /\ cached' \in [Mounts -> Media \cup {None}]
    BY HandlerEffect
  <2> QED
    BY <1>1, <2>1, <2>2 DEF TypeOK
<1>6. \A j \in Media : j # k => phase[m][j] \notin InUse
  <2> SUFFICES ASSUME NEW j \in Media, j # k, phase[m][j] \in InUse PROVE FALSE
    OBVIOUS
  <2>1. cached[m] = j /\ (cached[m] = k <=> phase[m][k] \in InUse)
        /\ (phase[m][k] = "configuring" => cached[m] = None)
    BY DEF IInv, MediaInv
  <2> QED
    BY <1>1, <1>3, <2>1 DEF InUse
<1>7. BridgeFeedsTheMedia'
  <2> SUFFICES ASSUME NEW n \in Mounts, NEW j \in Media
               PROVE  appSrc'[n] = j <=> phase'[n][j] \in InUse
    BY DEF BridgeFeedsTheMedia
  <2>1. CASE n # m
    BY <1>2, <1>4, <2>1 DEF IInv, BridgeFeedsTheMedia
  <2>2. CASE n = m /\ j # k
    BY <1>1, <1>2, <1>4, <1>6, <2>2
  <2>3. CASE n = m /\ j = k
    BY <1>1, <1>3, <1>4, <2>3 DEF InUse
  <2> QED
    BY <2>1, <2>2, <2>3
<1>8. OneReferenceHeld'
  BY <1>4 DEF IInv, OneReferenceHeld
<1>9. MediaInv'
  <2> SUFFICES ASSUME NEW n \in Mounts, NEW j \in Media
               PROVE  /\ \A i \in Media : i < j /\ phase'[n][j] # "none"
                            => phase'[n][i] \notin {"none", "configuring"}
                      /\ cached'[n] = j <=> phase'[n][j] \in InUse
                      /\ phase'[n][j] = "configuring" => cached'[n] = None
    BY DEF MediaInv
  <2>1. /\ \A i \in Media : i < j /\ phase[n][j] # "none" => phase[n][i] \notin {"none", "configuring"}
        /\ cached[n] = j <=> phase[n][j] \in InUse
        /\ phase[n][j] = "configuring" => cached[n] = None
    BY DEF IInv, MediaInv
  <2>2. \A i \in Media : i < j /\ phase'[n][j] # "none" => phase'[n][i] \notin {"none", "configuring"}
    BY <1>2, <1>3, <2>1
  <2>3. cached'[n] = j <=> phase'[n][j] \in InUse
    <3>1. CASE n # m
      BY <1>2, <1>4, <2>1, <3>1
    <3>2. CASE n = m /\ j # k
      BY <1>1, <1>2, <1>4, <1>6, <3>2
    <3>3. CASE n = m /\ j = k
      BY <1>1, <1>3, <1>4, <3>3 DEF InUse
    <3> QED
      BY <3>1, <3>2, <3>3
  <2>4. ASSUME phase'[n][j] = "configuring" PROVE cached'[n] = None
    <3>1. CASE n # m
      BY <1>2, <1>4, <2>1, <2>4, <3>1
    <3>2. CASE n = m /\ j # k
      <4>1. phase[m][j] = "configuring" /\ cached[m] = None
        BY <1>2, <2>1, <2>4, <3>2
      <4>2. phase[m][k] = "configuring"
        BY <1>1, <1>3, <4>1 DEF IInv, MediaInv, InUse
      <4> QED
        BY <3>2, <4>1, <4>2 DEF IInv, MediaInv, Media
    <3>3. CASE n = m /\ j = k
      BY <1>3, <2>4, <3>3
    <3> QED
      BY <3>1, <3>2, <3>3
  <2> QED
    BY <2>2, <2>3, <2>4
<1>10. PushTargetIsThere' /\ MutexInv' /\ DeliveryInv'
  <2>1. mutex'[m] = Free /\ \A n \in Mounts : n # m => mutex'[n] = mutex[n]
    BY <1>1 DEF TypeOK
  <2>2. PushTargetIsThere'
    BY <1>1, <1>4, <2>1 DEF IInv, PushTargetIsThere
  <2>3. MutexInv'
    BY <1>1, <1>2, <2>1 DEF IInv, MutexInv, Free, Streaming
  <2> QED
    BY <1>1, <2>2, <2>3 DEF IInv, DeliveryInv
<1> QED
  BY <1>5, <1>7, <1>8, <1>9, <1>10 DEF IInv

-----------------------------------------------------------------------------
(* A step of a delivery.                                                        *)
LEMMA StreamIInv ==
    ASSUME IInv, NEW m \in Mounts, NewSample(m) \/ LockMount(m) \/ Delivery(m)
    PROVE  IInv'
<1>1. /\ UNCHANGED <<alive, attached, connected, playing, open, state>>
      /\ UNCHANGED <<appSrc, held, phase, cached, viewers>>
  BY DEF NewSample, LockMount, Delivery, PullSample, NoSample, CheckAppSrc, PushBuffer,
         UnlockMount, StreamStep
<1>2. PICK from \in {"idle", "lock", "pull", "check", "push", "unlock"},
           to \in {"idle", "lock", "pull", "check", "push", "unlock", "dead"} :
        /\ stream[m] = from /\ stream' = [stream EXCEPT ![m] = to]
        /\ from = "idle" => to = "lock" /\ playing /\ mutex' = mutex
        /\ from = "lock" => to = "pull" /\ mutex[m] = Free /\ mutex' = [mutex EXCEPT ![m] = Streaming]
        /\ from \in {"pull", "check", "push", "unlock"} =>
             \/ to \in {"check", "push", "unlock"} /\ mutex' = mutex
                /\ (to = "push" => appSrc[m] # None)
             \/ to \in {"idle", "dead"} /\ mutex' = [mutex EXCEPT ![m] = Free]
  BY DEF NewSample, LockMount, Delivery, PullSample, NoSample, CheckAppSrc, PushBuffer,
         UnlockMount, StreamStep
<1>3. /\ stream' \in [Mounts -> {"idle", "lock", "pull", "check", "push", "unlock", "dead"}]
      /\ stream'[m] = to /\ \A n \in Mounts : n # m => stream'[n] = stream[n]
  BY <1>2 DEF IInv, TypeOK
<1>4. /\ mutex' \in [Mounts -> {Free, Streaming} \cup Media]
      /\ \A n \in Mounts : n # m => mutex'[n] = mutex[n]
      /\ mutex'[m] = mutex[m] \/ mutex'[m] \in {Free, Streaming}
  BY <1>2 DEF IInv, TypeOK
<1>5. TypeOK'
  BY <1>1, <1>3, <1>4 DEF IInv, TypeOK
<1>6. BridgeFeedsTheMedia' /\ OneReferenceHeld' /\ MediaInv'
  BY <1>1 DEF IInv, BridgeFeedsTheMedia, OneReferenceHeld, MediaInv
<1>7. to \in {"pull", "check", "push", "unlock"} <=> mutex'[m] = Streaming
  <2>1. Free # Streaming /\ mutex \in [Mounts -> {Free, Streaming} \cup Media]
    BY DEF IInv, TypeOK, Free, Streaming
  <2>2. stream[m] \in {"pull", "check", "push", "unlock"} <=> mutex[m] = Streaming
    BY DEF IInv, PushTargetIsThere, MutexInv
  <2>3. CASE from = "idle"
    BY <1>2, <2>2, <2>3
  <2>4. CASE from = "lock"
    BY <1>2, <2>1, <2>4
  <2>5. CASE from \in {"pull", "check", "push", "unlock"}
    BY <1>2, <2>1, <2>2, <2>5
  <2> QED
    BY <2>3, <2>4, <2>5
<1>8. PushTargetIsThere'
  BY <1>1, <1>2, <1>3, <1>4, <1>7 DEF IInv, PushTargetIsThere
<1>9. MutexInv'
  BY <1>1, <1>3, <1>4, <1>7, ServerAssumption DEF IInv, MutexInv, Free, Streaming, Media
<1>10. DeliveryInv'
  BY <1>1, <1>2, <1>3 DEF IInv, DeliveryInv
<1> QED
  BY <1>5, <1>6, <1>8, <1>9, <1>10 DEF IInv

(* Every step keeps the invariant.                                              *)
LEMMA NextIInv == IInv /\ [Next]_vars => IInv'
<1> SUFFICES ASSUME IInv, [Next]_vars PROVE IInv'
  OBVIOUS
<1>1. CASE UNCHANGED vars
  <2>1. TypeOK' /\ DeliveryInv'
    BY <1>1 DEF vars, bridge, IInv, TypeOK, DeliveryInv
  <2> QED
    BY <1>1, <2>1, BridgeUnchanged DEF vars, IInv
<1> QED
  BY <1>1, SurroundingsIInv, LibraryIInv, EnterIInv, CallbackIInv, StreamIInv DEF Next

-----------------------------------------------------------------------------
(* The inductive invariant of the bridge.                                       *)
THEOREM Invariance == Spec => []IInv
BY InitIInv, NextIInv, PTL DEF Spec

(* Every variable keeps its type.                                               *)
THEOREM TypeCorrect == Spec => []TypeOK
<1>1. IInv => TypeOK
  BY DEF IInv
<1> QED
  BY <1>1, Invariance, PTL

(* A media that is prepared is fed and none is after it has gone, though no     *)
(* handler asks whose appsrc it replaces or clears.                             *)
THEOREM MediaAreFed == Spec => []BridgeFeedsTheMedia
<1>1. IInv => BridgeFeedsTheMedia
  BY DEF IInv
<1> QED
  BY <1>1, Invariance, PTL

(* The mount holds one reference, to the appsrc it points at.                   *)
THEOREM NoReferenceIsLost == Spec => []OneReferenceHeld
<1>1. IInv => OneReferenceHeld
  BY DEF IInv
<1> QED
  BY <1>1, Invariance, PTL

(* Nothing comes between the check of an appsrc and the push into it.           *)
THEOREM PushesAreSafe == Spec => []PushTargetIsThere
<1>1. IInv => PushTargetIsThere
  BY DEF IInv
<1> QED
  BY <1>1, Invariance, PTL

-----------------------------------------------------------------------------
(* No step brings a media without a client, nor lets a deleted server listen.   *)
LEMMA NextClient == IInv /\ ClientInv /\ [Next]_vars => ClientInv'
<1> SUFFICES ASSUME IInv, ClientInv, [Next]_vars PROVE ClientInv'
  OBVIOUS
<1>0. TypeOK
  BY DEF IInv
<1>1. ASSUME NEW m \in Mounts, NEW k \in Media, Library(m, k) \/ EnterHandler(m, k) \/ Callback(m, k)
      PROVE  ClientInv'
  <2>1. UNCHANGED <<alive, attached, connected>>
    BY <1>1 DEF Library, NewMedia, Join, Prepared, PrepareFails, Leave, EnterHandler, Callback,
       OnMediaConfigure, OnMediaPrepared, OnMediaUnprepared, KeepRest
  <2>2. ASSUME ~connected PROVE UNCHANGED phase
    <3>1. phase[m][k] = "none"
      BY <2>2 DEF ClientInv
    <3>2. phase[m][k] \in InUse \cup Handlers \/ UNCHANGED phase
      BY <1>1, <2>2 DEF Library, NewMedia, Join, Prepared, PrepareFails, Leave, EnterHandler, Callback,
         OnMediaConfigure, OnMediaPrepared, OnMediaUnprepared, Phase, InUse, Handlers
    <3> QED
      BY <3>1, <3>2 DEF InUse, Handlers
  <2> QED
    BY <2>1, <2>2 DEF ClientInv
<1>2. ASSUME NEW m \in Mounts,
             NewSample(m) \/ LockMount(m) \/ Delivery(m)
             \/ \E enabled \in BOOLEAN : SetProfileEnabled(m, enabled)
      PROVE  ClientInv'
  <2>1. UNCHANGED <<alive, attached, connected, phase>>
    BY <1>2 DEF NewSample, LockMount, Delivery, PullSample, NoSample, CheckAppSrc, PushBuffer,
       UnlockMount, StreamStep, SetProfileEnabled, bridge
  <2> QED
    BY <2>1 DEF ClientInv
<1>3. CASE Attach \/ Detach \/ Play \/ Pause \/ Destroy \/ Connect
  <2>1. phase' = phase /\ (connected' = connected \/ connected' = TRUE)
    BY <1>3 DEF Attach, Detach, Play, Pause, Destroy, Connect, bridge
  <2>2. ~alive' => ~attached'
    <3>1. CASE Attach \/ Play
      <4>1. alive /\ alive' = alive
        BY <3>1 DEF Attach, Play
      <4> QED
        BY <4>1, Zenon
    <3>2. CASE Detach \/ Destroy
      BY <3>2 DEF Detach, Destroy
    <3>3. CASE Pause \/ Connect
      BY <3>3 DEF Pause, Connect, ClientInv
    <3> QED
      BY <1>3, <3>1, <3>2, <3>3
  <2>3. ~connected' => ~connected
    BY <2>1, Zenon
  <2> QED
    BY <2>1, <2>2, <2>3 DEF ClientInv
<1>4. CASE UNCHANGED vars
  BY <1>4 DEF ClientInv, vars, bridge
<1> QED
  BY <1>1, <1>2, <1>3, <1>4 DEF Next

(* No sample is being delivered when the mounts are freed, or ever after, and   *)
(* who still takes a freed mount's mutex is a media of a client that had        *)
(* connected before (lines 59-63).                                              *)
THEOREM MountsAreUnused == Spec => []FreedMountsAreQuiet
<1>1. Init => ClientInv
  BY DEF Init, ClientInv
<1>2. ASSUME IInv, ClientInv, ~alive, NEW m \in Mounts
      PROVE  /\ stream[m] \in {"idle", "dead"}
             /\ mutex[m] # Free =>
                    connected /\ mutex[m] # Streaming /\ phase[m][mutex[m]] \in Handlers
  <2>1. stream[m] \in {"idle", "dead"} /\ mutex[m] # Streaming
    BY <1>2 DEF IInv, DeliveryInv, MutexInv
  <2>2. ASSUME mutex[m] # Free PROVE mutex[m] \in Media /\ phase[m][mutex[m]] \in Handlers
    BY <1>2, <2>1, <2>2 DEF IInv, TypeOK, MutexInv
  <2>3. ASSUME mutex[m] # Free PROVE connected
    <3>1. phase[m][mutex[m]] # "none" /\ mutex[m] \in Media
      BY <2>2, <2>3 DEF Handlers
    <3> QED
      BY <1>2, <3>1 DEF ClientInv
  <2> QED
    BY <2>1, <2>2, <2>3
<1>3. IInv /\ ClientInv => FreedMountsAreQuiet
  BY <1>2 DEF ClientInv, FreedMountsAreQuiet
<1> QED
  BY <1>1, <1>3, NextClient, Invariance, PTL DEF Spec

-----------------------------------------------------------------------------
(* The mutex is given back: what its holder does on the streaming thread,       *)
LEMMA DeliveryGivesBack ==
    ASSUME IInv, NEW m \in Mounts, mutex[m] # Free, Delivery(m)
    PROVE  mutex'[m] = Free \/ (mutex'[m] = mutex[m] /\ StepsLeft(m)' < StepsLeft(m))
<1>1. mutex[m] = Streaming /\ TypeOK
  BY DEF IInv, PushTargetIsThere, Delivery, PullSample, NoSample, CheckAppSrc, PushBuffer,
         UnlockMount, StreamStep
<1>2. CASE NoSample(m) \/ UnlockMount(m)
  BY <1>1, <1>2 DEF NoSample, UnlockMount, TypeOK
<1>3. CASE PullSample(m)
  <2>1. stream[m] = "pull" /\ stream'[m] = "check" /\ mutex' = mutex
    BY <1>1, <1>3 DEF PullSample, StreamStep, TypeOK
  <2>2. StepsLeft(m) = 4 /\ StepsLeft(m)' = 3
    BY <1>1, <2>1 DEF StepsLeft
  <2> QED
    BY <2>1, <2>2
<1>4. CASE CheckAppSrc(m)
  <2>1. stream[m] = "check" /\ stream'[m] \in {"push", "unlock"} /\ mutex' = mutex
    BY <1>1, <1>4 DEF CheckAppSrc, StreamStep, TypeOK
  <2>2. StepsLeft(m) = 3 /\ StepsLeft(m)' \in {1, 2}
    BY <1>1, <2>1 DEF StepsLeft
  <2> QED
    BY <2>1, <2>2
<1>5. CASE PushBuffer(m)
  <2>1. stream[m] = "push" /\ stream'[m] = "unlock" /\ mutex' = mutex
    BY <1>1, <1>5 DEF PushBuffer, StreamStep, TypeOK
  <2>2. StepsLeft(m) = 2 /\ StepsLeft(m)' = 1
    BY <1>1, <2>1 DEF StepsLeft
  <2> QED
    BY <2>1, <2>2
<1> QED
  BY <1>2, <1>3, <1>4, <1>5 DEF Delivery

(* and that no other step moves a mutex that is held, or its holder.            *)
LEMMA OthersKeepOut ==
    ASSUME IInv, NEW m \in Mounts, mutex[m] # Free, [Next]_vars,
           ~Delivery(m), \A k \in Media : ~Callback(m, k)
    PROVE  mutex'[m] = mutex[m] /\ UNCHANGED StepsLeft(m)
<1>1. SUFFICES mutex'[m] = mutex[m] /\ (mutex[m] = Streaming => stream'[m] = stream[m])
  BY <1>1 DEF StepsLeft
<1>2. TypeOK
  BY DEF IInv
<1>3. CASE \/ UNCHANGED vars \/ Attach \/ Detach \/ Play \/ Pause \/ Destroy \/ Connect
           \/ \E n \in Mounts, enabled \in BOOLEAN : SetProfileEnabled(n, enabled)
  BY <1>3 DEF vars, bridge, Attach, Detach, Play, Pause, Destroy, Connect, SetProfileEnabled
<1>4. ASSUME NEW n \in Mounts, NEW k \in Media, Library(n, k)
      PROVE  UNCHANGED <<mutex, stream>>
  BY <1>4 DEF Library, NewMedia, Join, Prepared, PrepareFails, Leave, KeepRest
<1>5. ASSUME NEW n \in Mounts, NEW k \in Media, EnterHandler(n, k)
      PROVE  mutex'[m] = mutex[m] /\ UNCHANGED stream
  BY <1>2, <1>5 DEF EnterHandler, KeepRest, TypeOK
<1>6. ASSUME NEW n \in Mounts, NEW k \in Media, Callback(n, k)
      PROVE  mutex'[m] = mutex[m] /\ UNCHANGED stream
  <2>1. n # m
    BY <1>6
  <2> QED
    BY <1>2, <1>6, <2>1 DEF Callback, OnMediaConfigure, OnMediaPrepared, OnMediaUnprepared,
                            LeaveHandler, KeepRest, TypeOK
<1>7. ASSUME NEW n \in Mounts, NewSample(n) \/ LockMount(n) \/ Delivery(n)
      PROVE  mutex'[m] = mutex[m] /\ (mutex[m] = Streaming => stream'[m] = stream[m])
  <2>1. CASE n # m
    BY <1>2, <1>7, <2>1 DEF NewSample, LockMount, Delivery, PullSample, NoSample, CheckAppSrc,
                            PushBuffer, UnlockMount, StreamStep, TypeOK
  <2>2. CASE n = m
    <3>1. CASE NewSample(m)
      <4>1. stream[m] = "idle" /\ mutex' = mutex
        BY <3>1 DEF NewSample, StreamStep
      <4> QED
        BY <4>1 DEF IInv, MutexInv
    <3>2. ~LockMount(m)
      BY DEF LockMount
    <3> QED
      BY <1>7, <2>2, <3>1, <3>2
  <2> QED
    BY <2>1, <2>2
<1> QED
  BY <1>3, <1>4, <1>5, <1>6, <1>7 DEF Next

(* Whoever holds a mount's mutex is at most four steps of its own from giving   *)
(* it back, and gets nearer with each: under the scheduling that FairSpec       *)
(* states this is why MountIsReleased holds.                                    *)
THEOREM MutexIsGivenBack == Spec => HolderGivesBack
<1>1. ASSUME IInv, [Next]_vars
      PROVE  [\A m \in Mounts : mutex[m] # Free =>
                IF Delivery(m) \/ (\E k \in Media : Callback(m, k))
                THEN mutex'[m] = Free \/ (mutex'[m] = mutex[m] /\ StepsLeft(m)' < StepsLeft(m))
                ELSE mutex'[m] = mutex[m] /\ UNCHANGED StepsLeft(m)]_vars
  <2>1. ASSUME NEW m \in Mounts, NEW k \in Media, Callback(m, k)
        PROVE  mutex'[m] = Free
    BY <1>1, <2>1, HandlerDone DEF IInv, TypeOK
  <2> QED
    BY <1>1, <2>1, DeliveryGivesBack, OthersKeepOut
<1> QED
  BY <1>1, Invariance, PTL DEF Spec, HolderGivesBack

-----------------------------------------------------------------------------
(* The server object and whoever owns it.  The server's surroundings keep the   *)
(* contract ServerLife: it listens and its capture plays while it is there, and *)
(* it is deleted when the capture does not play.                                *)
THEOREM SurroundingsKeepContract == Spec => Life!Spec
<1>1. Init => Life!Init
  BY DEF Init, Life!Init
<1>2. ASSUME IInv, [Next]_vars PROVE [Life!Next]_(Life!vars)
  <2> SUFFICES Life!Next \/ UNCHANGED Life!vars
    OBVIOUS
  <2>1. UNCHANGED <<alive, attached, playing>> => UNCHANGED Life!vars
    BY DEF Life!vars
  <2>2. CASE UNCHANGED vars
    BY <2>1, <2>2 DEF vars
  <2>3. CASE Attach \/ Detach
    <3>1. /\ alive /\ alive' = alive /\ playing' = playing
          /\ attached' = attached \/ attached' = TRUE \/ attached' = FALSE
      BY <2>3 DEF Attach, Detach
    <3>2. CASE attached' = attached
      BY <2>1, <3>1, <3>2
    <3>3. CASE attached' = TRUE
      <4>1. Life!Listen(TRUE)
        BY <3>1, <3>3 DEF Life!Listen
      <4> QED
        BY <4>1 DEF Life!Next
    <3>4. CASE attached' = FALSE
      <4>1. Life!Listen(FALSE)
        BY <3>1, <3>4 DEF Life!Listen
      <4> QED
        BY <4>1 DEF Life!Next
    <3> QED
      BY <3>1, <3>2, <3>3, <3>4
  <2>4. CASE Play
    BY <2>4 DEF Play, Life!Next, Life!Play
  <2>5. CASE Pause
    BY <2>5 DEF Pause, Life!Next, Life!Pause
  <2>6. CASE Destroy
    BY <2>6 DEF Destroy, Life!Next, Life!Delete
  <2>7. CASE \/ Connect
             \/ \E m \in Mounts :
                 \/ \E enabled \in BOOLEAN : SetProfileEnabled(m, enabled)
                 \/ \E k \in Media : Library(m, k) \/ EnterHandler(m, k) \/ Callback(m, k)
                 \/ NewSample(m) \/ LockMount(m) \/ Delivery(m)
    <3>1. UNCHANGED <<alive, attached, playing>>
      BY <2>7 DEF Connect, SetProfileEnabled, Library, NewMedia, Join, Prepared, PrepareFails, Leave,
                  EnterHandler, Callback, OnMediaConfigure, OnMediaPrepared, OnMediaUnprepared,
                  KeepRest, NewSample, LockMount, Delivery, PullSample, NoSample, CheckAppSrc,
                  PushBuffer, UnlockMount, StreamStep
    <3> QED
      BY <2>1, <3>1
  <2> QED
    BY <1>2, <2>2, <2>3, <2>4, <2>5, <2>6, <2>7 DEF Next
<1> QED
  BY <1>1, <1>2, Invariance, PTL DEF Spec, Life!Spec

(* And they do all that the contract allows: what the owner of a living server  *)
(* may do between two samples is a step of the server's surroundings, so what   *)
(* is proved of the server holds under every owner that keeps ServerLife and is *)
(* never refused.                                                               *)
THEOREM SurroundingsAreTheContract ==
    ASSUME TypeOK, alive, alive' \in BOOLEAN, attached' \in BOOLEAN, playing' \in BOOLEAN,
           Life!Next, \A m \in Mounts : stream[m] \in {"idle", "dead"},
           UNCHANGED <<connected, open, state, stream, bridge>>
    PROVE  Next
<1>1. CASE \E on \in BOOLEAN : Life!Listen(on)
  BY <1>1 DEF Life!Listen, Attach, Detach, Next, TypeOK
<1>2. CASE Life!Play
  BY <1>2 DEF Life!Play, Play, Next, TypeOK
<1>3. CASE Life!Pause
  BY <1>3 DEF Life!Pause, Pause, Next, TypeOK
<1>4. CASE Life!Delete
  BY <1>4 DEF Life!Delete, Destroy, Next, TypeOK
<1>5. CASE Life!Construct
  BY <1>5 DEF Life!Construct
<1> QED
  BY <1>1, <1>2, <1>3, <1>4, <1>5 DEF Life!Next

-----------------------------------------------------------------------------
(* The mounts implement MediaFeed.  The parts that MediaFeed sees of a mount:   *)
Busy == [m \in Mounts |-> stream[m] \notin {"idle", "dead"}]
Pushing == [m \in Mounts |-> IF stream[m] = "push" THEN appSrc[m] ELSE None]
AllServed == [m \in Mounts |-> Served(m)]

(* A step that changes none of them is none of MediaFeed's.                     *)
LEMMA FeedUnchanged ==
    ASSUME UNCHANGED <<alive, appSrc, stream>>,
           \A m \in Mounts, k \in Media :
               phase'[m][k] \in {"none", "configuring"} <=> phase[m][k] \in {"none", "configuring"}
    PROVE  UNCHANGED Feed!vars
<1>1. \A m \in Mounts : Served(m)' = Served(m)
  BY DEF Served
<1> QED
  BY <1>1 DEF Feed!vars

(* While a media is configured nothing is fed, and what was fed is older.       *)
LEMMA NothingFedWhileConfiguring ==
    ASSUME IInv, NEW m \in Mounts, NEW k \in Media, phase[m][k] = "configuring"
    PROVE  appSrc[m] = None /\ \A j \in Served(m) : j < k
<1>1. appSrc[m] = None
  <2> SUFFICES ASSUME appSrc[m] # None PROVE FALSE
    OBVIOUS
  <2>1. appSrc[m] \in Media
    BY DEF IInv, TypeOK
  <2>2. cached[m] = appSrc[m]
    BY <2>1 DEF IInv, BridgeFeedsTheMedia, MediaInv
  <2> QED
    BY <2>2 DEF IInv, MediaInv
<1>2. ASSUME NEW j \in Served(m) PROVE j < k
  <2>1. j \in Media /\ phase[m][j] \notin {"none", "configuring"} /\ j # k
    BY DEF Served
  <2>2. ~(k < j)
    BY <2>1 DEF IInv, MediaInv
  <2> QED
    BY <2>1, <2>2 DEF Media
<1> QED
  BY <1>1, <1>2

(* A media that is configured is the next that is fed.                          *)
LEMMA ConfigureSwitches ==
    ASSUME IInv, NEW m \in Mounts, NEW k \in Media, OnMediaConfigure(m, k)
    PROVE  Feed!Switch(m, k)
<1>1. /\ UNCHANGED <<alive, stream>> /\ stream[m] # "push"
      /\ appSrc' = [appSrc EXCEPT ![m] = k]
      /\ phase[m][k] = "configuring" /\ phase' = [phase EXCEPT ![m][k] = "configured"]
  BY HandlerDone DEF OnMediaConfigure, Phase, Callback
<1>2. appSrc[m] = None /\ \A j \in Served(m) : j < k
  BY <1>1, NothingFedWhileConfiguring
<1>3. AllServed' = [AllServed EXCEPT ![m] = @ \cup {k}]
  <2>1. /\ phase'[m][k] = "configured"
        /\ \A n \in Mounts, j \in Media : n # m \/ j # k => phase'[n][j] = phase[n][j]
    BY <1>1 DEF IInv, TypeOK
  <2>2. \A n \in Mounts : Served(n)' = IF n = m THEN Served(m) \cup {k} ELSE Served(n)
    BY <2>1 DEF Served
  <2> QED
    BY <2>2 DEF AllServed
<1>4. Pushing[m] = None /\ Pushing' = Pushing
  BY <1>1 DEF Pushing, IInv, TypeOK
<1> QED
  BY <1>1, <1>2, <1>3, <1>4 DEF Feed!Switch, AllServed, Pushing

(* One that was fed and is gone is fed no more; the mount points at None.       *)
LEMMA UnpreparedReleases ==
    ASSUME IInv, NEW m \in Mounts, NEW k \in Media, OnMediaUnprepared(m, k)
    PROVE  Feed!Release(m)
<1>1. /\ UNCHANGED <<alive, stream>> /\ stream[m] # "push"
      /\ appSrc' = [appSrc EXCEPT ![m] = None]
      /\ phase[m][k] = "leaving" /\ phase' = [phase EXCEPT ![m][k] = "gone"]
  BY HandlerDone DEF OnMediaUnprepared, Phase, Callback
<1>2. \A n \in Mounts : Served(n)' = Served(n)
  BY <1>1 DEF Served, IInv, TypeOK
<1>3. Pushing[m] = None /\ Pushing' = Pushing
  BY <1>1 DEF Pushing, IInv, TypeOK
<1> QED
  BY <1>1, <1>2, <1>3 DEF Feed!Release, Pushing

(* A delivery is one of MediaFeed, with a push in it or without.                *)
LEMMA DeliverySteps ==
    ASSUME IInv, NEW m \in Mounts, NewSample(m) \/ LockMount(m) \/ Delivery(m)
    PROVE  \/ Feed!Accept(m) \/ Feed!Push(m) \/ Feed!Pushed(m) \/ Feed!Finish(m)
           \/ UNCHANGED Feed!vars
<1>1. UNCHANGED <<alive, playing, appSrc, phase>>
  BY DEF NewSample, LockMount, Delivery, PullSample, NoSample, CheckAppSrc, PushBuffer,
         UnlockMount, StreamStep
<1>2. AllServed' = AllServed
  BY <1>1 DEF AllServed, Served
<1>3. TypeOK
  BY DEF IInv
<1>4. CASE NewSample(m)
  <2>1. playing /\ stream[m] = "idle" /\ stream' = [stream EXCEPT ![m] = "lock"]
    BY <1>4 DEF NewSample, StreamStep
  <2>2. alive
    BY <2>1 DEF IInv, DeliveryInv
  <2>3. ~Busy[m] /\ Busy' = [Busy EXCEPT ![m] = TRUE]
    BY <1>3, <2>1 DEF Busy, TypeOK
  <2>4. Pushing' = Pushing
    BY <1>1, <1>3, <2>1 DEF Pushing, TypeOK
  <2> QED
    BY <1>1, <1>2, <2>2, <2>3, <2>4 DEF Feed!Accept, Busy, Pushing, AllServed
<1>5. CASE LockMount(m) \/ PullSample(m) \/ (CheckAppSrc(m) /\ appSrc[m] = None)
  <2>1. PICK from \in {"lock", "pull", "check"}, to \in {"pull", "check", "unlock"} :
          stream[m] = from /\ stream' = [stream EXCEPT ![m] = to]
    BY <1>5 DEF LockMount, PullSample, CheckAppSrc, StreamStep
  <2>2. Busy' = Busy /\ Pushing' = Pushing
    BY <1>1, <1>3, <2>1 DEF Busy, Pushing, TypeOK
  <2> QED
    BY <1>1, <1>2, <2>2 DEF Feed!vars, Busy, Pushing, AllServed
<1>6. CASE CheckAppSrc(m) /\ appSrc[m] # None
  <2>1. stream[m] = "check" /\ stream' = [stream EXCEPT ![m] = "push"]
    BY <1>6 DEF CheckAppSrc, StreamStep
  <2>2. Busy[m] /\ Busy' = Busy /\ Pushing' = [Pushing EXCEPT ![m] = appSrc[m]]
    BY <1>1, <1>3, <2>1 DEF Busy, Pushing, TypeOK
  <2> QED
    BY <1>1, <1>2, <1>6, <2>2 DEF Feed!Push, Busy, Pushing, AllServed
<1>7. CASE PushBuffer(m)
  <2>1. stream[m] = "push" /\ stream' = [stream EXCEPT ![m] = "unlock"]
    BY <1>7 DEF PushBuffer, StreamStep
  <2>2. appSrc[m] # None
    BY <2>1 DEF IInv, PushTargetIsThere
  <2>3. Pushing[m] # None /\ Busy' = Busy /\ Pushing' = [Pushing EXCEPT ![m] = None]
    BY <1>1, <1>3, <2>1, <2>2 DEF Busy, Pushing, TypeOK
  <2> QED
    BY <1>1, <1>2, <2>3 DEF Feed!Pushed, Busy, Pushing, AllServed
<1>8. CASE NoSample(m) \/ UnlockMount(m)
  <2>1. PICK from \in {"pull", "unlock"}, to \in {"idle", "dead"} :
          stream[m] = from /\ stream' = [stream EXCEPT ![m] = to]
    BY <1>8 DEF NoSample, UnlockMount, StreamStep
  <2>2. Busy[m] /\ Busy' = [Busy EXCEPT ![m] = FALSE]
    BY <1>3, <2>1 DEF Busy, TypeOK
  <2>3. Pushing[m] = None /\ Pushing' = Pushing
    BY <1>1, <1>3, <2>1 DEF Pushing, TypeOK
  <2> QED
    BY <1>1, <1>2, <2>2, <2>3 DEF Feed!Finish, Busy, Pushing, AllServed
<1> QED
  BY <1>4, <1>5, <1>6, <1>7, <1>8 DEF Delivery

(* The mounts feed one media after the other, and every buffer goes whole into  *)
(* the one that is fed: the mutex, the callbacks and the references implement   *)
(* the promise that knows of none of them.                                      *)
THEOREM MountsImplementFeed == Spec => FeedsOneMediaAfterAnother
<1>1. Init => Feed!Init
  <2> SUFFICES ASSUME Init PROVE Feed!Init
    OBVIOUS
  <2>1. AllServed = [m \in Mounts |-> {}]
    BY DEF Init, AllServed, Served
  <2>2. Busy = [m \in Mounts |-> FALSE]
    BY DEF Init, Busy
  <2>3. Pushing = [m \in Mounts |-> None]
    BY DEF Init, Pushing
  <2>4. alive = TRUE /\ appSrc = [m \in Mounts |-> None]
    BY DEF Init
  <2> QED
    BY <2>1, <2>2, <2>3, <2>4 DEF Feed!Init, AllServed, Busy, Pushing
<1>2. ASSUME IInv, [Next]_vars PROVE [Feed!Next]_(Feed!vars)
  <2> SUFFICES Feed!Next \/ UNCHANGED Feed!vars
    OBVIOUS
  <2>1. CASE \/ UNCHANGED vars \/ Attach \/ Detach \/ Play \/ Pause \/ Connect
             \/ \E m \in Mounts, enabled \in BOOLEAN : SetProfileEnabled(m, enabled)
    <3>1. UNCHANGED <<alive, appSrc, stream, phase>>
      BY <2>1 DEF vars, bridge, Attach, Detach, Play, Pause, Connect, SetProfileEnabled
    <3> QED
      BY <3>1, FeedUnchanged
  <2>2. CASE Destroy
    <3>1. alive /\ alive' = FALSE /\ ~playing /\ UNCHANGED <<stream, appSrc, phase>>
      BY <2>2 DEF Destroy, bridge
    <3>2. \A m \in Mounts : ~Busy[m]
      BY <1>2, <3>1 DEF IInv, DeliveryInv, Busy
    <3>3. AllServed' = AllServed /\ Busy' = Busy /\ Pushing' = Pushing
      BY <3>1 DEF AllServed, Served, Busy, Pushing
    <3>4. Feed!Delete
      BY <3>1, <3>2, <3>3 DEF Feed!Delete, AllServed, Busy, Pushing
    <3> QED
      BY <3>4 DEF Feed!Next
  <2>3. ASSUME NEW m \in Mounts, NEW k \in Media, Library(m, k) \/ EnterHandler(m, k)
        PROVE  UNCHANGED Feed!vars
    <3>1. UNCHANGED <<alive, appSrc, stream>>
      BY <2>3 DEF Library, NewMedia, Join, Prepared, PrepareFails, Leave, EnterHandler, KeepRest
    <3>2. \/ phase' = phase
          \/ Phase(m, k, {"none"}, "configuring") \/ Phase(m, k, {"configured"}, "announcing")
          \/ Phase(m, k, {"configured"}, "leaving") \/ Phase(m, k, {"serving"}, "leaving")
      BY <2>3 DEF Library, NewMedia, Join, Prepared, PrepareFails, Leave, EnterHandler
    <3>3. \A n \in Mounts, j \in Media :
             phase'[n][j] \in {"none", "configuring"} <=> phase[n][j] \in {"none", "configuring"}
      BY <1>2, <3>2, PhaseMoves DEF IInv, Phases, Handlers
    <3> QED
      BY <3>1, <3>3, FeedUnchanged
  <2>4. ASSUME NEW m \in Mounts, NEW k \in Media, Callback(m, k)
        PROVE  Feed!Next \/ UNCHANGED Feed!vars
    <3>1. CASE OnMediaConfigure(m, k)
      BY <1>2, <3>1, ConfigureSwitches DEF Feed!Next
    <3>2. CASE OnMediaUnprepared(m, k)
      BY <1>2, <3>2, UnpreparedReleases DEF Feed!Next
    <3>3. CASE OnMediaPrepared(m, k)
      <4>1. UNCHANGED <<alive, appSrc, stream>> /\ Phase(m, k, {"announcing"}, "serving")
        BY <3>3 DEF OnMediaPrepared, KeepRest
      <4>2. \A n \in Mounts, j \in Media :
               phase'[n][j] \in {"none", "configuring"} <=> phase[n][j] \in {"none", "configuring"}
        BY <1>2, <4>1, PhaseMoves DEF IInv, Phases
      <4> QED
        BY <4>1, <4>2, FeedUnchanged
    <3> QED
      BY <2>4, <3>1, <3>2, <3>3 DEF Callback
  <2>5. ASSUME NEW m \in Mounts, NewSample(m) \/ LockMount(m) \/ Delivery(m)
        PROVE  Feed!Next \/ UNCHANGED Feed!vars
    BY <1>2, <2>5, DeliverySteps DEF Feed!Next
  <2> QED
    BY <1>2, <2>1, <2>2, <2>3, <2>4, <2>5 DEF Next
<1> QED
  BY <1>1, <1>2, Invariance, PTL DEF Spec, FeedsOneMediaAfterAnother, Feed!Spec

=============================================================================
