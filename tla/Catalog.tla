-------------------------------- MODULE Catalog --------------------------------
(* What the control plane promises its callers, before any locking: the        *)
(* catalogue is one object, every call of CameraControl (web/CameraControl.hpp) *)
(* takes effect at one instant between its invocation and its return, and a     *)
(* listing is the state of the whole catalogue at such an instant.  The         *)
(* detailed specification is ControlPlane, which implements this one.           *)
EXTENDS Naturals, Sequences

CONSTANTS
    Threads,   \* the threads that call into CameraControl
    Names,     \* the names a caller may pass, known to the catalogue or not
    Entries,   \* the catalogue: the profile names it holds, in Seq(Names)
    Built      \* the entries whose branch was built, and so has a valve

Index == DOMAIN Entries
States == {"off", "ready"}

(* The search by name: the first entry of that name, if there is one.          *)
Finds(n, i) == Entries[i] = n /\ \A j \in 1..(i - 1) : Entries[j] # n
Known(n) == \E i \in Index : Entries[i] = n

Requests == [op : {"set"}, name : Names, enabled : BOOLEAN] \cup [op : {"list"}]
Answers == [ok : BOOLEAN, list : Seq(States)]

StateFor(enabled) == IF enabled THEN "ready" ELSE "off"

VARIABLES
    status,    \* per thread: outside a call, called, or answered
    request,   \* per thread: its last request
    answer,    \* per thread: its last answer
    state,     \* per entry: the reported ProfileInfo::state
    closed     \* per entry: TRUE when its valve drops every buffer

vars == <<status, request, answer, state, closed>>

Init ==
    /\ status = [t \in Threads |-> "idle"]
    /\ request = [t \in Threads |-> [op |-> "list"]]
    /\ answer = [t \in Threads |-> [ok |-> TRUE, list |-> <<>>]]
    /\ state = [i \in Index |-> "off"]
    /\ closed = [i \in Index |-> FALSE]

Invoke(t) ==
    /\ status[t] = "idle"
    /\ \E r \in Requests : request' = [request EXCEPT ![t] = r]
    /\ status' = [status EXCEPT ![t] = "called"]
    /\ UNCHANGED <<answer, state, closed>>

Answer(t, ok, list) ==
    /\ status[t] = "called"
    /\ status' = [status EXCEPT ![t] = "answered"]
    /\ answer' = [answer EXCEPT ![t] = [ok |-> ok, list |-> list]]
    /\ UNCHANGED request

(* One call opens or closes the valve AND changes the reported state.          *)
Enable(t) == \E i \in Index :
    /\ request[t].op = "set"
    /\ Finds(request[t].name, i)
    /\ Answer(t, TRUE, <<>>)
    /\ state' = [state EXCEPT ![i] = StateFor(request[t].enabled)]
    /\ closed' = [closed EXCEPT ![i] = i \in Built /\ ~request[t].enabled]

Reject(t) ==
    /\ request[t].op = "set"
    /\ ~Known(request[t].name)
    /\ Answer(t, FALSE, <<>>)
    /\ UNCHANGED <<state, closed>>

List(t) ==
    /\ request[t].op = "list"
    /\ Answer(t, TRUE, state)
    /\ UNCHANGED <<state, closed>>

Return(t) ==
    /\ status[t] = "answered"
    /\ status' = [status EXCEPT ![t] = "idle"]
    /\ UNCHANGED <<request, answer, state, closed>>

Next == \E t \in Threads :
    Invoke(t) \/ Enable(t) \/ Reject(t) \/ List(t) \/ Return(t)

Spec == Init /\ [][Next]_vars
=============================================================================
