------------------------------ MODULE ControlPlane ------------------------------
(* The CameraControl half of Application (server/Application.cpp:113-133) over  *)
(* the profile switches of ProfileHost and ProfileBin: any number of threads    *)
(* list the catalogue and switch profiles, each call under m_stateMutex.  The   *)
(* two writes of a switch (the valve, then the reported state) and the          *)
(* entry-by-entry copy of a listing are separate steps, so whatever the lock    *)
(* does not order may interleave here.                                          *)
EXTENDS Naturals, Sequences

CONSTANTS
    Threads,   \* main and the web threads
    Names,     \* names that callers pass
    Entries,   \* the names of the catalogue, in order
    Built,     \* the entries whose ProfileBin has a valve (setup reached them)
    NoThread   \* the owner of a free mutex

ASSUME ControlAssumption ==
    /\ Entries \in Seq(Names) /\ Entries # <<>>
    /\ Built \subseteq DOMAIN Entries
    /\ NoThread \notin Threads

VARIABLES
    mutex,     \* the thread that holds m_stateMutex, or NoThread
    pc,        \* per thread: the statement it is about to execute
    request,   \* per thread: the arguments of its call
    found,     \* per thread: the entry find_if returned (0: none yet)
    copied,    \* per thread: the vector its listing has copied so far
    answer,    \* per thread: the last value returned to its caller
    state,     \* per entry: m_profile.state
    closed     \* per entry: the valve's "drop" property

vars == <<mutex, pc, request, found, copied, answer, state, closed>>

Index == DOMAIN Entries
States == {"off", "ready"}
Finds(n, i) == Entries[i] = n /\ \A j \in 1..(i - 1) : Entries[j] # n
Known(n) == \E i \in Index : Entries[i] = n
Requests == [op : {"set"}, name : Names, enabled : BOOLEAN] \cup [op : {"list"}]
Answers == [ok : BOOLEAN, list : Seq(States)]
StateFor(enabled) == IF enabled THEN "ready" ELSE "off"
Critical == {"find", "setDrop", "setState", "copy", "unlock"}

TypeOK ==
    /\ mutex \in Threads \cup {NoThread}
    /\ pc \in [Threads -> {"idle", "lock"} \cup Critical]
    /\ request \in [Threads -> Requests]
    /\ found \in [Threads -> Index \cup {0}]
    /\ copied \in [Threads -> Seq(States)]
    /\ answer \in [Threads -> Answers]
    /\ state \in [Index -> States]
    /\ closed \in [Index -> BOOLEAN]

(* After Application's constructor and initialize(): the constructor reported  *)
(* every profile off while no valve existed, and createElement() opened every  *)
(* valve it made.                                                              *)
Init ==
    /\ mutex = NoThread
    /\ pc = [t \in Threads |-> "idle"]
    /\ request = [t \in Threads |-> [op |-> "list"]]
    /\ found = [t \in Threads |-> 0]
    /\ copied = [t \in Threads |-> <<>>]
    /\ answer = [t \in Threads |-> [ok |-> TRUE, list |-> <<>>]]
    /\ state = [i \in Index |-> "off"]
    /\ closed = [i \in Index |-> FALSE]

Goto(t, from, to) == pc[t] = from /\ pc' = [pc EXCEPT ![t] = to]

Returning(t, ok, list) == answer' = [answer EXCEPT ![t] = [ok |-> ok, list |-> list]]

Call(t) ==
    /\ Goto(t, "idle", "lock")
    /\ \E r \in Requests : request' = [request EXCEPT ![t] = r]
    /\ UNCHANGED <<mutex, found, copied, answer, state, closed>>

LockWithoutMutex(t) ==
    /\ mutex' = t
    /\ Goto(t, "lock", IF request[t].op = "list" THEN "copy" ELSE "find")
    /\ copied' = [copied EXCEPT ![t] = <<>>]
    /\ UNCHANGED <<request, found, answer, state, closed>>

LockForWriters(t) ==
    /\ request[t].op = "list" \/ mutex = NoThread
    /\ mutex' = IF request[t].op = "list" THEN mutex ELSE t
    /\ Goto(t, "lock", IF request[t].op = "list" THEN "copy" ELSE "find")
    /\ copied' = [copied EXCEPT ![t] = <<>>]
    /\ UNCHANGED <<request, found, answer, state, closed>>

(* std::lock_guard: only a free mutex is taken.                                *)
Lock(t) ==
    /\ mutex = NoThread
    /\ mutex' = t
    /\ Goto(t, "lock", IF request[t].op = "list" THEN "copy" ELSE "find")
    /\ copied' = [copied EXCEPT ![t] = <<>>]
    /\ UNCHANGED <<request, found, answer, state, closed>>

FindReturnsLocked(t) ==
    /\ pc[t] = "find"
    /\ \/ \E i \in Index :
            /\ Finds(request[t].name, i)
            /\ found' = [found EXCEPT ![t] = i]
            /\ Goto(t, "find", "setDrop")
            /\ UNCHANGED answer
       \/ /\ ~Known(request[t].name)
          /\ Returning(t, FALSE, <<>>)
          /\ Goto(t, "find", "idle")
          /\ UNCHANGED found
    /\ UNCHANGED <<mutex, request, copied, state, closed>>

Find(t) ==
    /\ pc[t] = "find"
    /\ \/ \E i \in Index :
            /\ Finds(request[t].name, i)
            /\ found' = [found EXCEPT ![t] = i]
            /\ Goto(t, "find", "setDrop")
            /\ UNCHANGED answer
       \/ /\ ~Known(request[t].name)
          /\ Returning(t, FALSE, <<>>)
          /\ Goto(t, "find", "unlock")
          /\ UNCHANGED found
    /\ UNCHANGED <<mutex, request, copied, state, closed>>

(* A ProfileBin without a valve ignores the write.                             *)
SetDrop(t) ==
    /\ Goto(t, "setDrop", "setState")
    /\ closed' = [closed EXCEPT ![found[t]] =
                      found[t] \in Built /\ ~request[t].enabled]
    /\ UNCHANGED <<mutex, request, found, copied, answer, state>>

SetState(t) ==
    /\ Goto(t, "setState", "unlock")
    /\ state' = [state EXCEPT ![found[t]] = StateFor(request[t].enabled)]
    /\ Returning(t, TRUE, <<>>)
    /\ UNCHANGED <<mutex, request, found, copied, closed>>

(* One turn of the loop over m_profileBins in ProfileHost::profiles().         *)
CopyProfile(t) ==
    LET more == Append(copied[t], state[Len(copied[t]) + 1])
        last == Len(more) = Len(Entries)
    IN  /\ pc[t] = "copy"
        /\ Goto(t, "copy", IF last THEN "unlock" ELSE "copy")
        /\ copied' = [copied EXCEPT ![t] = more]
        /\ IF last THEN Returning(t, TRUE, more) ELSE UNCHANGED answer
        /\ UNCHANGED <<mutex, request, found, state, closed>>

Unlock(t) ==
    /\ Goto(t, "unlock", "idle")
    /\ mutex' = NoThread
    /\ UNCHANGED <<request, found, copied, answer, state, closed>>

Step(t) ==
    Lock(t) \/ Find(t) \/ SetDrop(t) \/ SetState(t) \/ CopyProfile(t) \/ Unlock(t)

Next == \E t \in Threads : Call(t) \/ Step(t)

Spec == Init /\ [][Next]_vars

(* A thread inside a call is scheduled.  std::mutex promises no order among    *)
(* the threads that wait for it, so fairness is only that some step is taken.  *)
FairSpec == Spec /\ WF_vars(\E t \in Threads : Step(t))

-----------------------------------------------------------------------------
(* The inductive invariant: the lock excludes, what find_if returned stays what *)
(* the request asked for, the entries a listing has copied are still those of   *)
(* the catalogue, and valve and state disagree only between a holder's writes.  *)
Midway(i) == mutex \in Threads /\ pc[mutex] = "setState" /\ found[mutex] = i

LockInv == \A t \in Threads : pc[t] \in Critical <=> mutex = t

RequestInv == \A t \in Threads :
    /\ pc[t] \in {"find", "setDrop", "setState"} => request[t].op = "set"
    /\ pc[t] \in {"setDrop", "setState"} =>
           found[t] \in Index /\ Finds(request[t].name, found[t])

ListInv == \A t \in Threads : pc[t] = "copy" =>
    /\ request[t].op = "list"
    /\ Len(copied[t]) < Len(Entries)
    /\ \A j \in 1..Len(copied[t]) : copied[t][j] = state[j]

ValveInv == \A i \in Index :
    IF Midway(i) THEN closed[i] = (i \in Built /\ ~request[mutex].enabled)
                 ELSE state[i] = "ready" => ~closed[i]

IInv == TypeOK /\ LockInv /\ RequestInv /\ ListInv /\ ValveInv

(* Outside the lock, a profile that is reported ready has an open valve: no    *)
(* order of concurrent calls leaves one thread's valve under another thread's  *)
(* state (setDrop, then setState, in ProfileHost::setProfileEnabled).          *)
ReadyIsOpen ==
    mutex = NoThread => \A i \in Index : state[i] = "ready" => ~closed[i]

(* Every critical section ends, on the early return for an unknown name too    *)
(* (std::lock_guard in Application::setProfileEnabled and profiles).           *)
LockIsReleased == \A t \in Threads : mutex = t ~> mutex # t

(* The safety behind LockIsReleased: the holder has a bounded number of         *)
(* statements left before it unlocks, each brings it one nearer, and nothing    *)
(* that another thread does moves it away.                                      *)
StatementsLeft(t) ==
    IF pc[t] = "find" THEN 4
    ELSE IF pc[t] = "setDrop" THEN 3
    ELSE IF pc[t] = "setState" THEN 2
    ELSE IF pc[t] = "copy" THEN Len(Entries) - Len(copied[t]) + 1 ELSE 1

SectionIsBounded == \A t \in Threads :
    mutex = t => StatementsLeft(t) \in 1..(Len(Entries) + 3)

SectionGetsShorter == [][\A t \in Threads : mutex = t =>
    IF Step(t) THEN mutex' = NoThread \/ (mutex' = t /\ StatementsLeft(t)' < StatementsLeft(t))
               ELSE mutex' = t /\ UNCHANGED StatementsLeft(t)]_vars

(* The instant at which a call takes effect: the write of the valve, the       *)
(* failed search, or the copy of the last entry.  The reported state of an     *)
(* entry between its two writes is already the one its writer is about to set. *)
StatusOf(t) ==
    IF pc[t] = "idle" THEN "idle"
    ELSE IF pc[t] \in {"setState", "unlock"} THEN "answered" ELSE "called"

Reported == [i \in Index |-> IF Midway(i) THEN StateFor(request[mutex].enabled)
                             ELSE state[i]]

Abstract == INSTANCE Catalog WITH
    status <- [t \in Threads |-> StatusOf(t)],
    answer <- [t \in Threads |-> IF pc[t] = "setState"
                                 THEN [ok |-> TRUE, list |-> <<>>] ELSE answer[t]],
    state  <- Reported

(* Under m_stateMutex every call is atomic: a switch changes valve and state   *)
(* together, and a listing is the whole catalogue at one instant of the call.  *)
CallsAreAtomic == Abstract!Spec

(* The host under the control plane, as initialize() left it: set up if every   *)
(* profile has a valve, and otherwise with the bins of a setup that failed.     *)
Whole == Built = Index

Host == INSTANCE ProfileHost WITH
    NumProfiles <- Len(Entries), MaxAttempts <- 1,
    alive <- TRUE, source <- TRUE, attempts <- 1,
    fault <- IF Whole THEN "none" ELSE "bin",
    set <- IF Whole THEN {"pipeline", "source", "videoConvert", "sourceCaps", "tee"} ELSE {},
    refs <- [e \in {"pipeline", "source", "videoConvert", "sourceCaps", "tee"} |->
                 IF Whole THEN 1 ELSE 0],
    filled <- Whole, linked <- Whole,
    bin <- Built, inside <- IF Whole THEN Index ELSE {}, lost <- {},
    binRefs <- [i \in Index |-> IF Whole THEN 2 ELSE IF i \in Built THEN 1 ELSE 0],
    gst <- "NULL", watch <- FALSE,
    state <- Reported

(* Every change of a valve or of a reported state, by whichever threads and     *)
(* however their statements interleave, is one whole step of ProfileHost, the   *)
(* switch that some thread asked for, of the first profile of that name:        *)
(* Application may count on ProfileHost::setProfileEnabled being one step.      *)
SwitchesAreHostSteps ==
    [][\E t \in Threads :
          /\ SetDrop(t)
          /\ Finds(request[t].name, found[t])
          /\ Host!SetProfileEnabled(found[t], request[t].enabled)]_<<closed, Reported>>
=============================================================================
