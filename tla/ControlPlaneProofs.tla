--------------------------- MODULE ControlPlaneProofs ---------------------------
(* Proofs about ControlPlane, for any number of threads and any catalogue: the  *)
(* inductive invariant, the agreement of valve and state, and the refinement    *)
(* of Catalog.                                                                  *)
EXTENDS ControlPlane, TLAPS

(* The catalogue is a non-empty vector: its entries are 1 to its length.        *)
LEMMA IndexFacts == Index = 1..Len(Entries) /\ Len(Entries) \in Nat \ {0}
  BY ControlAssumption DEF Index

(* What a call returns to its thread is an answer: a flag and a list of states. *)
LEMMA ReturningTypes ==
    ASSUME answer \in [Threads -> Answers],
           NEW t \in Threads, NEW ok \in BOOLEAN, NEW list \in Seq(States),
           Returning(t, ok, list)
    PROVE  answer' \in [Threads -> Answers]
<1>1. [ok |-> ok, list |-> list] \in Answers
  BY DEF Answers
<1> QED
  BY <1>1 DEF Returning

(* After the constructor and initialize(), no thread is in a call, every profile *)
(* is reported off and every valve is open: the invariant holds.                *)
LEMMA InitIInv == Init => IInv
  BY ControlAssumption
  DEF Init, IInv, TypeOK, LockInv, RequestInv, ListInv, ValveInv, Midway,
      Requests, Answers, States, Critical

(* Each statement of a call preserves the invariant: one step per action.       *)
LEMMA NextIInv == IInv /\ [Next]_vars => IInv'
<1> SUFFICES ASSUME IInv, [Next]_vars PROVE IInv'
  OBVIOUS
<1>0. CASE UNCHANGED vars
  BY <1>0 DEF IInv, vars, TypeOK, LockInv, RequestInv, ListInv, ValveInv, Midway
<1> SUFFICES ASSUME NEW t \in Threads, Call(t) \/ Step(t) PROVE IInv'
  BY <1>0 DEF Next
<1>1. CASE Call(t)
  <2>1. TypeOK'
    BY <1>1 DEF IInv, TypeOK, Call, Goto
  <2>2. LockInv'
    BY <1>1 DEF IInv, LockInv, Critical, Call, Goto
  <2>3. RequestInv'
    BY <1>1 DEF IInv, RequestInv, Call, Goto
  <2>4. ListInv'
    BY <1>1 DEF IInv, ListInv, Call, Goto
  <2>5. ValveInv'
    BY <1>1 DEF IInv, ValveInv, Midway, Call, Goto
  <2> QED
    BY <2>1, <2>2, <2>3, <2>4, <2>5 DEF IInv
<1>2. CASE Lock(t)
  <2>1. TypeOK'
    BY <1>2 DEF IInv, TypeOK, Lock, Goto, Critical
  <2>2. LockInv'
    BY <1>2, ControlAssumption DEF IInv, TypeOK, LockInv, Critical, Lock, Goto
  <2>3. RequestInv'
    BY <1>2 DEF IInv, TypeOK, RequestInv, Lock, Goto, Requests
  <2>4. ListInv'
    BY <1>2, ControlAssumption DEF IInv, TypeOK, ListInv, Lock, Goto
  <2>5. ValveInv'
    BY <1>2, ControlAssumption DEF IInv, ValveInv, Midway, Lock, Goto
  <2> QED
    BY <2>1, <2>2, <2>3, <2>4, <2>5 DEF IInv
<1>3. CASE Find(t)
  <2>1. TypeOK'
    <3>1. answer' \in [Threads -> Answers]
      <4>1. <<>> \in Seq(States) /\ answer \in [Threads -> Answers]
        BY DEF IInv, TypeOK
      <4> QED
        BY <4>1, <1>3, ReturningTypes DEF Find
    <3>2. pc' \in [Threads -> {"idle", "lock"} \cup Critical]
      BY <1>3 DEF IInv, TypeOK, Find, Goto, Critical
    <3>3. found' \in [Threads -> Index \cup {0}]
      BY <1>3 DEF IInv, TypeOK, Find
    <3>4. UNCHANGED <<mutex, request, copied, state, closed>>
      BY <1>3 DEF Find
    <3> QED
      BY <3>1, <3>2, <3>3, <3>4 DEF IInv, TypeOK
  <2>2. LockInv'
    BY <1>3 DEF IInv, TypeOK, LockInv, Critical, Find, Goto, Returning
  <2>3. RequestInv'
    BY <1>3 DEF IInv, TypeOK, RequestInv, Find, Goto, Returning
  <2>4. ListInv'
    BY <1>3 DEF IInv, TypeOK, ListInv, Find, Goto, Returning
  <2>5. ValveInv'
    BY <1>3
    DEF IInv, TypeOK, RequestInv, ValveInv, Midway, Find, Goto, Returning,
        Requests
  <2> QED
    BY <2>1, <2>2, <2>3, <2>4, <2>5 DEF IInv
<1>4. CASE SetDrop(t)
  <2>1. TypeOK'
    BY <1>4 DEF IInv, TypeOK, SetDrop, Goto, Critical
  <2>2. LockInv'
    BY <1>4 DEF IInv, LockInv, Critical, SetDrop, Goto
  <2>3. RequestInv'
    BY <1>4 DEF IInv, RequestInv, SetDrop, Goto
  <2>4. ListInv'
    BY <1>4 DEF IInv, ListInv, SetDrop, Goto
  <2>5. ValveInv'
    BY <1>4 DEF IInv, TypeOK, LockInv, ValveInv, Midway, Critical, SetDrop, Goto
  <2> QED
    BY <2>1, <2>2, <2>3, <2>4, <2>5 DEF IInv
<1>5. CASE SetState(t)
  <2>1. TypeOK'
    <3>1. answer' \in [Threads -> Answers]
      <4>1. <<>> \in Seq(States) /\ answer \in [Threads -> Answers]
        BY DEF IInv, TypeOK
      <4> QED
        BY <4>1, <1>5, ReturningTypes DEF SetState
    <3>2. StateFor(request[t].enabled) \in States
      BY DEF StateFor, States
    <3>3. state' \in [Index -> States]
      BY <1>5, <3>2 DEF IInv, TypeOK, SetState
    <3>4. pc' \in [Threads -> {"idle", "lock"} \cup Critical]
      BY <1>5 DEF IInv, TypeOK, SetState, Goto, Critical
    <3>5. UNCHANGED <<mutex, request, found, copied, closed>>
      BY <1>5 DEF SetState
    <3> QED
      BY <3>1, <3>3, <3>4, <3>5 DEF IInv, TypeOK
  <2>2. LockInv'
    BY <1>5 DEF IInv, LockInv, Critical, SetState, Goto
  <2>3. RequestInv'
    BY <1>5 DEF IInv, RequestInv, SetState, Goto
  <2>4. ListInv'
    BY <1>5 DEF IInv, LockInv, ListInv, Critical, SetState, Goto
  <2>5. ValveInv'
    BY <1>5
    DEF IInv, TypeOK, LockInv, ValveInv, Midway, Critical, StateFor, SetState,
        Goto
  <2> QED
    BY <2>1, <2>2, <2>3, <2>4, <2>5 DEF IInv
<1>6. CASE CopyProfile(t)
  <2> DEFINE more == Append(copied[t], state[Len(copied[t]) + 1])
  <2>0. more \in Seq(States)
    <3>1. pc[t] = "copy" /\ copied[t] \in Seq(States) /\ state \in [Index -> States]
      BY <1>6 DEF CopyProfile, IInv, TypeOK
    <3>2. Len(copied[t]) + 1 \in Index
      BY <3>1, IndexFacts DEF IInv, ListInv
    <3> QED
      BY <3>1, <3>2
  <2>1. TypeOK'
    <3>1. answer' \in [Threads -> Answers]
      <4>1. answer \in [Threads -> Answers]
        BY DEF IInv, TypeOK
      <4> QED
        BY <2>0, <4>1, <1>6, ReturningTypes DEF CopyProfile
    <3> QED
      BY <3>1, <1>6, <2>0 DEF IInv, TypeOK, CopyProfile, Goto, Critical
  <2>2. LockInv'
    BY <1>6 DEF IInv, LockInv, Critical, CopyProfile, Goto
  <2>3. RequestInv'
    BY <1>6 DEF IInv, ListInv, RequestInv, CopyProfile, Goto
  <2>4. ListInv'
    BY <1>6 DEF IInv, TypeOK, ListInv, CopyProfile, Goto
  <2>5. ValveInv'
    BY <1>6 DEF IInv, ValveInv, Midway, CopyProfile, Goto
  <2> QED
    BY <2>1, <2>2, <2>3, <2>4, <2>5 DEF IInv
<1>7. CASE Unlock(t)
  <2>1. TypeOK'
    BY <1>7 DEF IInv, TypeOK, Unlock, Goto
  <2>2. LockInv'
    BY <1>7, ControlAssumption DEF IInv, TypeOK, LockInv, Critical, Unlock, Goto
  <2>3. RequestInv'
    BY <1>7 DEF IInv, RequestInv, Unlock, Goto
  <2>4. ListInv'
    BY <1>7 DEF IInv, ListInv, Unlock, Goto
  <2>5. ValveInv'
    BY <1>7 DEF IInv, LockInv, ValveInv, Midway, Critical, Unlock, Goto
  <2> QED
    BY <2>1, <2>2, <2>3, <2>4, <2>5 DEF IInv
<1> QED
  BY <1>1, <1>2, <1>3, <1>4, <1>5, <1>6, <1>7 DEF Step

(* The inductive invariant holds of every behaviour.                            *)
THEOREM Invariance == Spec => []IInv
<1> QED
  BY InitIInv, NextIInv, PTL DEF Spec

(* Every value keeps its type (Application.cpp:113-133).                        *)
THEOREM TypeCorrect == Spec => []TypeOK
<1>1. IInv => TypeOK
  BY DEF IInv
<1> QED
  BY <1>1, Invariance, PTL

(* Whenever the lock is free, a profile reported ready has an open valve        *)
(* (ProfileHost::setProfileEnabled under Application::m_stateMutex).            *)
THEOREM ReadyProfilesAreOpen == Spec => []ReadyIsOpen
<1>1. IInv => ReadyIsOpen
  BY ControlAssumption DEF IInv, ValveInv, Midway, ReadyIsOpen
<1> QED
  BY <1>1, Invariance, PTL

-----------------------------------------------------------------------------
(* The lock is given back.  What the holder of the lock does, and that no other *)
(* thread does more than to call.                                               *)
LEMMA HolderSteps ==
    ASSUME IInv, NEW t \in Threads, mutex = t, Step(t)
    PROVE  mutex' = NoThread \/ (mutex' = t /\ StatementsLeft(t)' < StatementsLeft(t))
<1>1. /\ t # NoThread /\ pc[t] \in Critical /\ pc \in [Threads -> {"idle", "lock"} \cup Critical]
      /\ copied \in [Threads -> Seq(States)] /\ Len(Entries) \in Nat \ {0}
  BY ControlAssumption, IndexFacts DEF IInv, TypeOK, LockInv
<1>2. CASE Lock(t)
  BY <1>1, <1>2 DEF Lock
<1>3. CASE Find(t)
  <2>1. pc[t] = "find" /\ pc'[t] \in {"setDrop", "unlock"} /\ mutex' = mutex
    BY <1>1, <1>3 DEF Find, Goto
  <2>2. StatementsLeft(t) = 4 /\ StatementsLeft(t)' \in {3, 1}
    BY <2>1 DEF StatementsLeft
  <2> QED
    BY <2>1, <2>2
<1>4. CASE SetDrop(t)
  <2>1. pc[t] = "setDrop" /\ pc'[t] = "setState" /\ mutex' = mutex
    BY <1>1, <1>4 DEF SetDrop, Goto
  <2> QED
    BY <2>1 DEF StatementsLeft
<1>5. CASE SetState(t)
  <2>1. pc[t] = "setState" /\ pc'[t] = "unlock" /\ mutex' = mutex
    BY <1>1, <1>5 DEF SetState, Goto
  <2> QED
    BY <2>1 DEF StatementsLeft
<1>6. CASE CopyProfile(t)
  <2> DEFINE more == Append(copied[t], state[Len(copied[t]) + 1])
  <2>1. /\ pc[t] = "copy" /\ mutex' = mutex /\ copied' = [copied EXCEPT ![t] = more]
        /\ pc'[t] = (IF Len(more) = Len(Entries) THEN "unlock" ELSE "copy")
    BY <1>1, <1>6 DEF CopyProfile, Goto
  <2>2. /\ Len(copied[t]) < Len(Entries) /\ Len(copied[t]) \in Nat
        /\ Len(more) = Len(copied[t]) + 1 /\ copied'[t] = more
    BY <1>1, <2>1 DEF IInv, ListInv
  <2> HIDE DEF more
  <2>3. StatementsLeft(t) = Len(Entries) - Len(copied[t]) + 1
    BY <2>1 DEF StatementsLeft
  <2>4. CASE Len(more) = Len(Entries)
    <3>1. StatementsLeft(t)' = 1
      BY <2>1, <2>4 DEF StatementsLeft
    <3> QED
      BY <1>1, <2>1, <2>2, <2>3, <3>1
  <2>5. CASE Len(more) # Len(Entries)
    <3>1. pc'[t] = "copy"
      BY <2>1, <2>5
    <3>2. StatementsLeft(t)' = Len(Entries) - Len(copied'[t]) + 1
      BY <3>1 DEF StatementsLeft
    <3> QED
      BY <1>1, <2>1, <2>2, <2>3, <3>2
  <2> QED
    BY <2>4, <2>5
<1>7. CASE Unlock(t)
  BY <1>7 DEF Unlock
<1> QED
  BY <1>2, <1>3, <1>4, <1>5, <1>6, <1>7 DEF Step

LEMMA OthersWait ==
    ASSUME IInv, NEW t \in Threads, mutex = t, ~Step(t), [Next]_vars
    PROVE  mutex' = t /\ UNCHANGED StatementsLeft(t)
<1>1. CASE UNCHANGED vars
  BY <1>1 DEF vars, StatementsLeft
<1>2. ASSUME NEW u \in Threads, Call(u) \/ Step(u), Next
      PROVE  UNCHANGED <<mutex, copied>> /\ pc'[t] = pc[t]
  <2>1. /\ pc[t] \in Critical /\ mutex # NoThread
        /\ pc \in [Threads -> {"idle", "lock"} \cup Critical]
    BY ControlAssumption DEF IInv, TypeOK, LockInv
  <2>2. CASE Call(u)
    BY <2>1, <2>2 DEF Call, Goto, Critical
  <2>3. CASE Step(u)
    <3>1. u # t /\ pc[u] \notin Critical
      BY <2>3 DEF IInv, LockInv
    <3> QED
      BY <2>1, <2>3, <3>1 DEF Step, Lock, Find, SetDrop, SetState, CopyProfile, Unlock, Goto, Critical
  <2> QED
    BY <1>2, <2>2, <2>3
<1>3. CASE Next
  <2>1. UNCHANGED <<mutex, copied>> /\ pc'[t] = pc[t]
    BY <1>2, <1>3 DEF Next
  <2> QED
    BY <2>1 DEF StatementsLeft
<1> QED
  BY <1>1, <1>3

(* A critical section has at most as many statements left as the catalogue has  *)
(* entries and three, and gets shorter with every step of its thread: under the *)
(* scheduling that FairSpec states this is why the lock is given back.          *)
THEOREM SectionsEnd == Spec => []SectionIsBounded /\ SectionGetsShorter
<1>1. IInv => SectionIsBounded
  <2> SUFFICES ASSUME IInv, NEW t \in Threads, mutex = t
               PROVE  StatementsLeft(t) \in 1..(Len(Entries) + 3)
    BY DEF SectionIsBounded
  <2>1. Len(Entries) \in Nat \ {0} /\ copied[t] \in Seq(States)
    BY IndexFacts DEF IInv, TypeOK
  <2>2. pc[t] = "copy" => Len(copied[t]) < Len(Entries) /\ Len(copied[t]) \in Nat
    BY <2>1 DEF IInv, ListInv
  <2>3. CASE pc[t] = "copy"
    <3>1. StatementsLeft(t) = Len(Entries) - Len(copied[t]) + 1
      BY <2>3 DEF StatementsLeft
    <3>2. \A n, c \in Nat : c < n => n - c + 1 \in 1..(n + 3)
      OBVIOUS
    <3>3. Len(Entries) \in Nat /\ Len(copied[t]) \in Nat /\ Len(copied[t]) < Len(Entries)
      BY <2>1, <2>2, <2>3
    <3> QED
      BY <3>1, <3>2, <3>3
  <2>4. CASE pc[t] # "copy"
    <3>1. StatementsLeft(t) \in 1..4
      BY <2>4 DEF StatementsLeft
    <3>2. 1..4 \subseteq 1..(Len(Entries) + 3)
      BY <2>1
    <3> QED
      BY <3>1, <3>2
  <2> QED
    BY <2>3, <2>4
<1>2. IInv /\ [Next]_vars =>
        [\A t \in Threads : mutex = t =>
            IF Step(t) THEN mutex' = NoThread \/ (mutex' = t /\ StatementsLeft(t)' < StatementsLeft(t))
                       ELSE mutex' = t /\ UNCHANGED StatementsLeft(t)]_vars
  BY HolderSteps, OthersWait
<1> QED
  BY <1>1, <1>2, Invariance, PTL DEF Spec, SectionGetsShorter

-----------------------------------------------------------------------------
(* The mapped variables of Catalog, named.                                      *)
statusBar == [t \in Threads |-> StatusOf(t)]
answerBar == [t \in Threads |-> IF pc[t] = "setState"
                                THEN [ok |-> TRUE, list |-> <<>>] ELSE answer[t]]

(* The catalogue starts as the abstract one does.                               *)
LEMMA InitRefines == Init => Abstract!Init
  BY DEF Init, Abstract!Init, Reported, StatusOf, Midway, Index, Abstract!Index

(* A switch takes effect at the write of the valve, a listing at the copy of    *)
(* its last entry, an unknown name at the failed search; every other statement  *)
(* but the call and the return leaves the abstract catalogue as it is.          *)
LEMMA StepRefines == IInv /\ IInv' /\ [Next]_vars => [Abstract!Next]_(Abstract!vars)
<1> SUFFICES ASSUME IInv, IInv', [Next]_vars
             PROVE  Abstract!Next \/ UNCHANGED Abstract!vars
  OBVIOUS
<1>a. UNCHANGED <<statusBar, request, answerBar, Reported, closed>>
      => UNCHANGED Abstract!vars
  BY DEF statusBar, answerBar, Reported, Abstract!vars
<1>0. CASE UNCHANGED vars
  BY <1>0, <1>a DEF vars, statusBar, answerBar, Reported, StatusOf, Midway
<1> SUFFICES ASSUME NEW t \in Threads, Call(t) \/ Step(t)
             PROVE  \/ Abstract!Invoke(t) \/ Abstract!Enable(t) \/ Abstract!Reject(t)
                    \/ Abstract!List(t) \/ Abstract!Return(t)
                    \/ UNCHANGED <<statusBar, request, answerBar, Reported, closed>>
  BY <1>0, <1>a DEF Next, Abstract!Next
<1> USE DEF statusBar, answerBar, Reported, StatusOf, Goto
<1>1. CASE Call(t)
  <2>1. Abstract!Invoke(t)
    BY <1>1 DEF Call, Abstract!Invoke, IInv, TypeOK, LockInv, Midway, Critical,
       Requests, Abstract!Requests
  <2> QED
    BY <2>1
<1>2. CASE Lock(t)
  <2>1. UNCHANGED <<statusBar, request, answerBar, Reported, closed>>
    BY <1>2, ControlAssumption DEF Lock, Midway
  <2> QED
    BY <2>1
<1>3. CASE Find(t)
  <2>1. \/ UNCHANGED <<statusBar, answerBar, Reported>>
        \/ Abstract!Reject(t)
    <3>1. CASE \E i \in Index : Goto(t, "find", "setDrop") /\ UNCHANGED answer
      BY <1>3, <3>1 DEF Find, IInv, LockInv, Midway, Critical
    <3>2. CASE ~Known(request[t].name) /\ Returning(t, FALSE, <<>>)
               /\ Goto(t, "find", "unlock")
      BY <1>3, <3>2, ControlAssumption
      DEF Find, Returning, Known, IInv, TypeOK, LockInv, RequestInv, Midway, Critical,
          Index, Abstract!Reject, Abstract!Answer, Abstract!Known, Abstract!Index
    <3> QED
      BY <1>3, <3>1, <3>2 DEF Find
  <2> QED
    BY <2>1, <1>3 DEF Find
<1>4. CASE SetDrop(t)
  <2> DEFINE i == found[t]
  <2>1. /\ i \in Index /\ Finds(request[t].name, i) /\ request[t].op = "set"
        /\ pc[t] = "setDrop" /\ mutex = t
    BY <1>4 DEF SetDrop, IInv, LockInv, RequestInv, Critical
  <2>2. Abstract!Answer(t, TRUE, <<>>)
    BY <2>1, <1>4, ControlAssumption
    DEF SetDrop, Abstract!Answer, IInv, TypeOK, Critical
  <2>3. Reported' = [Reported EXCEPT ![i] = StateFor(request[t].enabled)]
    BY <2>1, <1>4 DEF SetDrop, Midway, IInv, TypeOK
  <2>4. closed' = [closed EXCEPT ![i] = i \in Built /\ ~request[t].enabled]
    BY <1>4 DEF SetDrop
  <2>5. StateFor(request[t].enabled) = Abstract!StateFor(request[t].enabled)
    BY DEF StateFor, Abstract!StateFor
  <2>6. i \in Abstract!Index /\ Abstract!Finds(request[t].name, i)
    BY <2>1 DEF Finds, Index, Abstract!Finds, Abstract!Index
  <2>7. Abstract!Enable(t)
    BY <2>1, <2>2, <2>3, <2>4, <2>5, <2>6 DEF Abstract!Enable
  <2> QED
    BY <2>7
<1>5. CASE SetState(t)
  <2>1. UNCHANGED <<statusBar, request, answerBar, Reported, closed>>
    BY <1>5 DEF SetState, Returning, IInv, TypeOK, LockInv, Midway
  <2> QED
    BY <2>1
<1>6. CASE CopyProfile(t)
  <2> DEFINE more == Append(copied[t], state[Len(copied[t]) + 1])
  <2>1. /\ pc[t] = "copy" /\ mutex = t /\ request[t].op = "list"
        /\ copied[t] \in Seq(States) /\ state \in [Index -> States]
        /\ Len(copied[t]) < Len(Entries)
        /\ \A j \in 1..Len(copied[t]) : copied[t][j] = state[j]
    BY <1>6 DEF CopyProfile, IInv, TypeOK, LockInv, ListInv
  <2>2. UNCHANGED Reported
    BY <1>6 DEF CopyProfile, Midway
  <2>3. CASE Len(more) = Len(Entries)
    <3>1. more = state
      <4>1. more \in Seq(States) /\ Len(more) = Len(copied[t]) + 1
        BY <2>1, <2>3, IndexFacts
      <4>2. \A j \in 1..Len(more) : more[j] = state[j]
        BY <2>1, <4>1
      <4>3. more = [j \in 1..Len(more) |-> more[j]]
        BY <4>1
      <4>4. state = [j \in 1..Len(more) |-> state[j]]
        BY <2>1, <2>3, IndexFacts
      <4> HIDE DEF more
      <4> QED
        BY <4>2, <4>3, <4>4
    <3>2. Reported = state
      BY <2>1 DEF Midway
    <3>3. Abstract!Answer(t, TRUE, Reported)
      <4>1. /\ pc' = [pc EXCEPT ![t] = "unlock"] /\ UNCHANGED request
            /\ answer' = [answer EXCEPT ![t] = [ok |-> TRUE, list |-> more]]
        BY <2>3, <1>6 DEF CopyProfile, Returning
      <4> HIDE DEF more
      <4>2. statusBar' = [statusBar EXCEPT ![t] = "answered"] /\ statusBar[t] = "called"
        BY <4>1, <2>1 DEF IInv, TypeOK, Critical
      <4>3. answerBar' = [answerBar EXCEPT ![t] = [ok |-> TRUE, list |-> Reported]]
        BY <4>1, <2>1, <3>1, <3>2 DEF IInv, TypeOK
      <4> QED
        BY <4>1, <4>2, <4>3 DEF Abstract!Answer
    <3>4. Abstract!List(t)
      BY <2>1, <2>2, <3>3, <1>6 DEF CopyProfile, Abstract!List
    <3> QED
      BY <3>4
  <2>4. CASE Len(more) # Len(Entries)
    BY <2>2, <2>4, <1>6 DEF CopyProfile
  <2> QED
    BY <2>3, <2>4
<1>7. CASE Unlock(t)
  <2>1. Abstract!Return(t)
    BY <1>7, ControlAssumption
    DEF Unlock, Abstract!Return, IInv, TypeOK, LockInv, Midway, Critical
  <2> QED
    BY <2>1
<1> QED
  BY <1>1, <1>2, <1>3, <1>4, <1>5, <1>6, <1>7 DEF Step

(* The locked, step-by-step calls implement Catalog: each takes effect at one   *)
(* instant (Application.cpp:119-133, under m_stateMutex).                       *)
THEOREM Refinement == Spec => CallsAreAtomic
<1> QED
  BY InitRefines, StepRefines, Invariance, PTL DEF Spec, CallsAreAtomic, Abstract!Spec

-----------------------------------------------------------------------------
(* Of all the statements only the write of the valve changes what the host      *)
(* shows, and it changes both halves of one profile.                            *)
LEMMA DropSwitches ==
    ASSUME IInv, NEW t \in Threads, SetDrop(t)
    PROVE  /\ Finds(request[t].name, found[t]) /\ found[t] \in Index
           /\ request[t].enabled \in BOOLEAN
           /\ Reported' = [Reported EXCEPT ![found[t]] = StateFor(request[t].enabled)]
           /\ closed' = [closed EXCEPT ![found[t]] = found[t] \in Built /\ ~request[t].enabled]
<1>1. /\ found[t] \in Index /\ Finds(request[t].name, found[t]) /\ request[t].op = "set"
      /\ request[t] \in Requests /\ pc[t] = "setDrop" /\ mutex = t
  BY DEF SetDrop, Goto, IInv, TypeOK, LockInv, RequestInv, Critical
<1>2. request[t].enabled \in BOOLEAN
  BY <1>1 DEF Requests
<1>3. Reported' = [Reported EXCEPT ![found[t]] = StateFor(request[t].enabled)]
  BY <1>1 DEF SetDrop, Goto, Reported, Midway, IInv, TypeOK
<1> QED
  BY <1>1, <1>2, <1>3 DEF SetDrop

LEMMA OthersDoNotSwitch ==
    ASSUME IInv, [Next]_vars, ~\E t \in Threads : SetDrop(t)
    PROVE  UNCHANGED <<closed, Reported>>
<1>1. CASE UNCHANGED vars
  BY <1>1 DEF vars, Reported, Midway
<1>2. ASSUME NEW t \in Threads, Call(t) \/ Step(t) PROVE UNCHANGED <<closed, Reported>>
  <2>1. CASE Call(t)
    BY <2>1 DEF Call, Goto, Reported, Midway, IInv, TypeOK, LockInv, Critical
  <2>2. CASE Lock(t)
    BY <2>2, ControlAssumption DEF Lock, Goto, Reported, Midway, IInv, TypeOK
  <2>3. CASE Find(t)
    BY <2>3 DEF Find, Goto, Reported, Midway, IInv, TypeOK, LockInv, Critical
  <2>4. CASE SetState(t)
    BY <2>4 DEF SetState, Goto, Reported, Midway, IInv, TypeOK, LockInv, Critical
  <2>5. CASE CopyProfile(t)
    BY <2>5 DEF CopyProfile, Goto, Reported, Midway, IInv, TypeOK, LockInv, Critical
  <2>6. CASE Unlock(t)
    BY <2>6, ControlAssumption DEF Unlock, Goto, Reported, Midway, IInv, TypeOK, LockInv, Critical
  <2> QED
    BY <1>2, <2>1, <2>2, <2>3, <2>4, <2>5, <2>6 DEF Step
<1> QED
  BY <1>1, <1>2 DEF Next

(* Every change that the threads make to the host is one step of ProfileHost,   *)
(* the switch of the profile that find_if found (ProfileHost.cpp:121-139 under  *)
(* m_stateMutex): a model of the whole program may take a switch as one step.   *)
THEOREM ControlIsTheHosts == Spec => SwitchesAreHostSteps /\ [][Host!Next]_(Host!vars)
<1> DEFINE Switch(t) == /\ SetDrop(t)
                        /\ Finds(request[t].name, found[t])
                        /\ Host!SetProfileEnabled(found[t], request[t].enabled)
<1>1. ASSUME IInv, NEW t \in Threads, SetDrop(t) PROVE Switch(t) /\ Host!Next
  <2>1. Host!StateFor(request[t].enabled) = StateFor(request[t].enabled)
    BY DEF Host!StateFor, StateFor
  <2>2. Host!SetProfileEnabled(found[t], request[t].enabled)
    BY <1>1, <2>1, DropSwitches DEF Host!SetProfileEnabled, Host!owned
  <2>3. found[t] \in Host!Profiles /\ request[t].enabled \in BOOLEAN
    BY <1>1, DropSwitches, IndexFacts DEF Host!Profiles
  <2> QED
    BY <1>1, <2>2, <2>3, DropSwitches DEF Host!Next
<1>2. ASSUME IInv, [Next]_vars, ~\E t \in Threads : SetDrop(t)
      PROVE  UNCHANGED <<closed, Reported>> /\ UNCHANGED Host!vars
  BY <1>2, OthersDoNotSwitch DEF Host!vars, Host!owned
<1>3. IInv /\ [Next]_vars => [\E t \in Threads : Switch(t)]_<<closed, Reported>>
  BY <1>1, <1>2
<1>4. IInv /\ [Next]_vars => [Host!Next]_(Host!vars)
  BY <1>1, <1>2
<1> QED
  BY <1>3, <1>4, Invariance, PTL DEF Spec, SwitchesAreHostSteps

=============================================================================
