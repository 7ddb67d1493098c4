------------------------------ MODULE Recorder ------------------------------
(* labs/lab7-record.cpp: a recording branch that is attached to and detached    *)
(* from the tee of a running pipeline. Everything runs on the main loop, as the *)
(* script's timeouts and the 25 ms poll that ends a recording, except the end   *)
(* of stream, which a streaming thread carries through the branch, and errors.  *)
(* `rec`, its deadline and rec_eos_seen are one each, whatever the number of    *)
(* branches and polls there are.                                               *)
EXTENDS Integers, Sequences

CONSTANTS
    Period,     \* ticks from one event of the script to the next (2 s)
    Patience,   \* ticks a drain may take (2500 ms)
    MaxErrors   \* bound: ERROR messages that wait on the bus at once

ASSUME TimesAssumption == Period \in Nat \ {0} /\ Patience \in Nat

Script == <<"start", "stop", "start", "stop", "start">>
Recordings == 1..3
Trunk == 0                       \* external: the source, the encoder, a_rtsp
Posters == {Trunk} \cup Recordings
Last == 5 * Period + Patience    \* bound: the clock stops when nothing can be due

VARIABLES
    clock, step,  \* the time in ticks; events of the script that are done
    bin,          \* rec.bin: the recording it points to, 0: none
    branch,       \* per recording: where its bin is
    eosSeen,      \* rec_eos_seen
    deadline,     \* rec.deadline
    polls,        \* poll_finish sources on the loop
    bus,          \* ERROR messages on the pipeline's bus: whose they are, in order
    posted,       \* history: how many errors of each have come to the bus
    ended,        \* history: recordings whose end of stream came to the filesink
    crossed,      \* history: a recording started while another was draining
    misused       \* history: a bin was used after the pipeline dropped it

script == <<clock, step>>
history == <<ended, crossed, misused>>
vars == <<clock, step, bin, branch, eosSeen, deadline, polls, bus, posted, history>>

Places == {"none", "linked", "draining", "complete", "gone"}

TypeOK ==
    /\ clock \in 0..Last /\ step \in 0..5
    /\ bin \in 0..3
    /\ branch \in [Recordings -> Places]
    /\ eosSeen \in BOOLEAN
    /\ deadline \in Nat
    /\ polls \in Nat
    /\ bus \in Seq(Posters) /\ posted \in [Posters -> Nat]
    /\ ended \subseteq Recordings
    /\ crossed \in BOOLEAN /\ misused \in BOOLEAN

Init ==
    /\ clock = 0 /\ step = 0
    /\ bin = 0
    /\ branch = [r \in Recordings |-> "none"]
    /\ eosSeen = FALSE
    /\ deadline = 0
    /\ polls = 0
    /\ bus = <<>> /\ posted = [q \in Posters |-> 0]
    /\ ended = {}
    /\ crossed = FALSE /\ misused = FALSE

-----------------------------------------------------------------------------
(* An event of the script is due every period; the loop is never late by more   *)
(* than a tick.                                                                *)
Due == step < 5 /\ clock = Period * (step + 1)

Event(name) ==
    /\ Due /\ Script[step + 1] = name
    /\ step' = step + 1
    /\ UNCHANGED clock

Tick ==
    /\ clock < Last /\ ~Due
    /\ clock' = clock + 1
    /\ UNCHANGED <<step, bin, branch, eosSeen, deadline, polls, bus, posted, history>>

(* The bin of the next recording joins the pipeline and takes over `rec`.       *)
Attach ==
    /\ Event("start")
    /\ bin' = bin + 1
    /\ branch' = [branch EXCEPT ![bin + 1] = "linked"]
    /\ crossed' = (crossed \/ polls > 0)
    /\ UNCHANGED <<deadline, polls, bus, posted, ended, misused>>

(* Mutant: the flag of the recording before.                                   *)
RecStartStale == Attach /\ UNCHANGED eosSeen

RecStart == Attach /\ eosSeen' = FALSE

(* Unlink from the tee, send the end of stream into the branch, start polling.  *)
RecStop ==
    /\ Event("stop")
    /\ misused' = (misused \/ branch[bin] # "linked")
    /\ branch' = IF branch[bin] = "linked" THEN [branch EXCEPT ![bin] = "draining"] ELSE branch
    /\ deadline' = clock + Patience
    /\ polls' = polls + 1
    /\ UNCHANGED <<bin, eosSeen, bus, posted, ended, crossed>>

(* rec_teardown, of whatever `rec` points to now.                              *)
Teardown ==
    /\ misused' = (misused \/ branch[bin] = "gone")
    /\ branch' = [branch EXCEPT ![bin] = "gone"]

OnError == ~eosSeen /\ bus # <<>>
OutOfTime == clock > deadline

(* Mutant: a drain without a fallback.                                         *)
PollFinishPatient ==
    /\ polls > 0
    /\ eosSeen \/ OnError
    /\ Teardown
    /\ bus' = IF OnError THEN Tail(bus) ELSE bus
    /\ polls' = polls - 1
    /\ UNCHANGED <<script, bin, eosSeen, deadline, posted, ended, crossed>>

(* Mutant: a poll that stays on the loop once it has ended its recording.       *)
PollFinishAgain ==
    /\ polls > 0
    /\ eosSeen \/ OnError \/ OutOfTime
    /\ Teardown
    /\ bus' = IF OnError THEN Tail(bus) ELSE bus
    /\ UNCHANGED <<script, bin, eosSeen, deadline, polls, posted, ended, crossed>>

(* A poll that ends: the flag first, then an error, then the deadline.          *)
PollFinish ==
    /\ polls > 0
    /\ eosSeen \/ OnError \/ OutOfTime
    /\ Teardown
    /\ bus' = IF OnError THEN Tail(bus) ELSE bus
    /\ polls' = polls - 1
    /\ UNCHANGED <<script, bin, eosSeen, deadline, posted, ended, crossed>>

-----------------------------------------------------------------------------
(* on_branch_event: the end of stream comes to a filesink, whose file is whole. *)
OnBranchEvent(r) ==
    /\ branch[r] = "draining"
    /\ branch' = [branch EXCEPT ![r] = "complete"]
    /\ eosSeen' = TRUE
    /\ ended' = ended \cup {r}
    /\ UNCHANGED <<script, bin, deadline, polls, bus, posted, crossed, misused>>

(* Nobody listens to the bus but a poll, so what is posted stays there. Any     *)
(* element may post, and more than once: a filesink that cannot write, then the *)
(* queue before it and the source, whose flow it stopped. A branch posts until  *)
(* its bin is in NULL, the trunk at any time.                                  *)
PostError(q) ==
    /\ Len(bus) < MaxErrors
    /\ bus' = Append(bus, q)
    /\ posted' = [posted EXCEPT ![q] = @ + 1]
    /\ UNCHANGED <<script, bin, branch, eosSeen, deadline, polls, history>>

BranchError(r) == branch[r] \in {"linked", "draining", "complete"} /\ PostError(r)

TrunkError == PostError(Trunk)

Next ==
    \/ Tick \/ RecStart \/ RecStop \/ PollFinish
    \/ \E r \in Recordings : OnBranchEvent(r) \/ BranchError(r)
    \/ TrunkError

(* The loop serves its timeouts; no end of stream is promised to arrive.        *)
Spec == Init /\ [][Next]_vars /\ WF_vars(Tick) /\ WF_vars(RecStart) /\ WF_vars(RecStop) /\ WF_vars(PollFinish)

-----------------------------------------------------------------------------
(* One `rec` is enough as long as no recording starts while another drains: the *)
(* poll is that of the branch `rec` points to, every branch before it has left  *)
(* the pipeline, and no bin is used after it has.                              *)
OverlapIsTheOnlyDanger ==
    crossed \/ /\ ~misused
               /\ polls = (IF bin # 0 /\ branch[bin] \in {"draining", "complete"} THEN 1 ELSE 0)
               /\ \A r \in Recordings \ {bin} : branch[r] = (IF r < bin THEN "gone" ELSE "none")

(* And a branch is only cut off before its end of stream because of the one     *)
(* error its poll took off the bus, its own, the trunk's, or one that an earlier *)
(* recording left behind, or because the deadline has passed. Never by the flag *)
(* of an earlier recording; and never by the deadline where the patience is no  *)
(* shorter than the pause before the next start, as in the lab (2.5 s and 2 s): *)
(* a drain that gets past its deadline has met the next recording, and the      *)
(* fallback tears down that one. A drain takes one error at most (lines 51-53), *)
(* so a recording leaves one behind only if it came to its end all the same,    *)
(* when its poll looked at the flag and not at the bus, or if more errors than  *)
(* one had been posted, by itself or by the trunk.                             *)
LeftBehind(r) ==
    \E q \in Recordings :
        q < r /\ posted[q] > 0 /\ (q \in ended \/ posted[q] + posted[Trunk] > 1)

FileIsWholeOrGivenUp ==
    [][\A r \in Recordings : branch[r] \in {"linked", "draining"} /\ branch'[r] = "gone"
           => \/ crossed
              \/ OutOfTime /\ Patience < Period
              \/ OnError /\ (Head(bus) \in {r, Trunk} \/ LeftBehind(r))]_vars

(* A drain ends, whether or not its end of stream ever arrives: no poll stays   *)
(* on the loop.                                                                *)
DrainEnds == polls > 0 ~> polls = 0

-----------------------------------------------------------------------------
(* Why one `rec` is enough without an overlap: the script's place tells which   *)
(* recording it points to and whether that one runs, and the flag, cleared by   *)
(* every start, can only have been set by it.                                   *)
ScriptInv ==
    /\ bin = IF step = 0 THEN 0 ELSE IF step <= 2 THEN 1 ELSE IF step <= 4 THEN 2 ELSE 3
    /\ ~crossed /\ bin # 0 =>
        IF step \in {1, 3, 5} THEN branch[bin] = "linked"
        ELSE branch[bin] \in {"draining", "complete", "gone"}

FlagInv == eosSeen /\ ~crossed =>
    bin \in ended /\ branch[bin] \in {"complete", "gone"}

(* Whose errors are on the bus: no more than were posted, and as long as a poll *)
(* is to come only the trunk's and that recording's, unless an earlier one has  *)
(* left some behind.                                                           *)
Awaited == IF bin # 0 /\ branch[bin] = "gone" THEN bin + 1 ELSE bin

BusInv ==
    /\ \A i \in 1..Len(bus) : posted[bus[i]] >= 1
    /\ \A i, j \in 1..Len(bus) : i # j /\ bus[i] = bus[j] => posted[bus[i]] >= 2
    /\ ~crossed => \A i \in 1..Len(bus) :
           bus[i] <= bin /\ (bus[i] # Trunk /\ bus[i] < Awaited => LeftBehind(Awaited))

IInv == TypeOK /\ OverlapIsTheOnlyDanger /\ ScriptInv /\ FlagInv

(* Without an overlap the deadline is that of the stop the script has just done. *)
StopInv == polls > 0 /\ ~crossed => deadline = Period * step + Patience

(* The safety behind DrainEnds, with or without an overlap.  A poll's deadline  *)
(* is never more than a drain's patience away, whichever stop set it last, and  *)
(* the clock gets past it (poll_finish's fallback and the deadline that every   *)
(* rec_stop moves); there is at most one poll for each stop of the script.      *)
DrainIsBounded ==
    /\ polls > 0 => deadline <= clock + Patience /\ deadline < Last
    /\ polls <= 2

DrainInv ==
    /\ \A n \in 0..4 : step = n => clock <= Period * (n + 1)
    /\ polls <= (IF step <= 1 THEN 0 ELSE IF step <= 3 THEN 1 ELSE 2)
    /\ deadline <= clock + Patience /\ deadline <= 4 * Period + Patience

=============================================================================
