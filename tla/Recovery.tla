------------------------------ MODULE Recovery ------------------------------
(* labs/lab8-rtsp-recover.cpp: a producer pipeline that is started, dies and is *)
(* replaced under a running RTSP server, the bridge to the viewers' media, and  *)
(* the watchdog that tells a dead source from an ended one.                     *)
(*                                                                             *)
(* Threads: the main loop (script and watchdog), one streaming thread for every *)
(* producer pipeline that is alive, and the RTSP server's own. The callbacks    *)
(* hold `lock` from their first write to their last, so each is one step; the   *)
(* watchdog reads under the lock and acts on its copies after it.               *)
EXTENDS Integers

CONSTANT Limit   \* the watchdog's limit in watchdog periods (1500 ms of 250 ms)

ASSUME LimitAssumption == Limit \in Nat

(* The script of main(), in order: generations 1 and 3 end after 90 buffers;    *)
(* generation 2 does not end in the time the program has.                       *)
Script == <<"gen1", "gen2", "crash", "gen3", "quit">>
Generations == 1..3
Finite == {1, 3}
Starts(g) == CASE g = 1 -> "gen1" [] g = 2 -> "gen2" [] g = 3 -> "gen3"

VARIABLES
    step,       \* events of the script that are done
    alive,      \* generations whose pipeline still runs
    gen,        \* producer_gen
    eos,        \* producer_eos
    dead,       \* dead_logged
    silence,    \* periods since last_sample_us, up to Limit + 1; -1: none yet
    last,       \* the generation of bridge.last_buf, 0: none
    wired,      \* bridge.appsrc is set: viewers share a media
    ended,      \* that appsrc has been given the end of stream
    look,       \* the watchdog's copies, between unlock and its decision
    age,        \* history: periods since the generation was started, like silence
    alarms,     \* history: per generation, how often it was reported dead
    lost        \* history: a generation was replaced while its pipeline ran

producer == <<step, alive, gen>>
bridge == <<last, wired, ended>>
history == <<alarms, lost>>
vars == <<step, alive, gen, eos, dead, silence, last, wired, ended, look, age, history>>

Idle == [wired |-> FALSE, eos |-> FALSE, dead |-> FALSE, silence |-> -2]
Silences == -1..(Limit + 1)

(* Types and ranges: nothing is known of a generation before it started, its    *)
(* silence included.                                                           *)
TypeOK ==
    /\ step \in 0..5
    /\ gen \in 0..3
    /\ alive \subseteq Generations \cap 1..gen
    /\ eos \in BOOLEAN /\ dead \in BOOLEAN
    /\ silence \in Silences /\ age \in Silences /\ silence <= age
    /\ last \in 0..gen
    /\ wired \in BOOLEAN /\ ended \in BOOLEAN
    /\ look \in {Idle} \cup [wired : BOOLEAN, eos : BOOLEAN, dead : BOOLEAN, silence : Silences]
    /\ alarms \in [Generations -> Nat] /\ lost \in BOOLEAN

Init ==
    /\ step = 0 /\ alive = {} /\ gen = 0
    /\ eos = FALSE /\ dead = FALSE
    /\ silence = -1
    /\ last = 0 /\ wired = FALSE /\ ended = FALSE
    /\ look = Idle
    /\ age = -1
    /\ alarms = [g \in Generations |-> 0] /\ lost = FALSE

Up == step < 5
Longer(time) == IF time \in 0..Limit THEN time + 1 ELSE time

-----------------------------------------------------------------------------
(* The main loop: an event of the script runs when no watchdog call is under    *)
(* way. The pointer to a generation that is replaced without a crash is lost    *)
(* with its pipeline running: only its own end of stream stops it.              *)
Event(name) ==
    /\ Up /\ look = Idle
    /\ Script[step + 1] = name
    /\ step' = step + 1

Launch(g) ==
    /\ Event(Starts(g))
    /\ gen' = g
    /\ alive' = alive \cup {g}
    /\ age' = 0
    /\ lost' = (lost \/ alive # {})
    /\ UNCHANGED <<bridge, look, alarms>>

(* Mutants: the first version of the lab, which counted the time a pipeline     *)
(* takes to start as silence; an alarm that is never armed again; the end of    *)
(* stream of the generation before.                                            *)
ProduceStartUntimed(g) == Launch(g) /\ eos' = FALSE /\ dead' = FALSE /\ UNCHANGED silence
ProduceStartDisarmed(g) == Launch(g) /\ eos' = FALSE /\ silence' = 0 /\ UNCHANGED dead
ProduceStartEnded(g) == Launch(g) /\ dead' = FALSE /\ silence' = 0 /\ UNCHANGED eos

ProduceStart(g) ==
    /\ Launch(g)
    /\ eos' = FALSE
    /\ dead' = FALSE
    /\ silence' = 0

(* Going to NULL joins the streaming threads.                                  *)
ProducerCrash ==
    /\ Event("crash")
    /\ alive' = alive \ {gen}
    /\ UNCHANGED <<gen, eos, dead, silence, bridge, look, age, history>>

Quit ==
    /\ Event("quit")
    /\ alive' = {}
    /\ UNCHANGED <<gen, eos, dead, silence, bridge, look, age, history>>

-----------------------------------------------------------------------------
(* The streaming thread of a generation. A pull that yields no sample returns   *)
(* before it has written anything (lines 34-36).                               *)
OnProducerSample(g) ==
    /\ g \in alive
    /\ silence' = 0
    /\ last' = g
    /\ UNCHANGED <<producer, eos, dead, wired, ended, look, age, history>>

OnProducerEos(g) ==
    /\ g \in alive \cap Finite
    /\ alive' = alive \ {g}
    /\ eos' = TRUE
    /\ ended' = (ended \/ wired)
    /\ UNCHANGED <<step, gen, dead, silence, last, wired, look, age, history>>

-----------------------------------------------------------------------------
(* The RTSP server's threads. A media's appsrc takes the place of one that is   *)
(* still set, and is seeded with the last frame, whichever generation it is of; *)
(* the unprepare of any media clears the one that is set.                      *)
OnMediaConfigure ==
    /\ Up
    /\ wired' = TRUE
    /\ ended' = FALSE
    /\ UNCHANGED <<producer, eos, dead, silence, last, look, age, history>>

OnMediaUnprepared ==
    /\ Up /\ wired
    /\ wired' = FALSE
    /\ ended' = FALSE
    /\ UNCHANGED <<producer, eos, dead, silence, last, look, age, history>>

-----------------------------------------------------------------------------
(* on_watchdog, every period.                                                  *)
WatchdogReads ==
    /\ Up /\ look = Idle
    /\ look' = [wired |-> wired, eos |-> eos, dead |-> dead, silence |-> silence]
    /\ UNCHANGED <<producer, eos, dead, silence, bridge, age, history>>

WatchdogDecides ==
    /\ look # Idle
    /\ IF look.wired /\ ~look.eos /\ ~look.dead /\ look.silence > Limit
       THEN dead' = TRUE /\ alarms' = [alarms EXCEPT ![gen] = @ + 1]
       ELSE UNCHANGED <<dead, alarms>>
    /\ look' = Idle
    /\ UNCHANGED <<producer, eos, silence, bridge, age, lost>>

(* A watchdog period goes by.                                                  *)
Tick ==
    /\ Up
    /\ silence' = Longer(silence)
    /\ age' = Longer(age)
    /\ UNCHANGED <<producer, eos, dead, bridge, look, history>>

Next ==
    \/ \E g \in Generations : ProduceStart(g) \/ OnProducerSample(g) \/ OnProducerEos(g)
    \/ ProducerCrash \/ Quit
    \/ OnMediaConfigure \/ OnMediaUnprepared
    \/ WatchdogReads \/ WatchdogDecides \/ Tick

(* Time passes and the main loop serves its timeouts; nothing promises frames,  *)
(* viewers or the next event of the script.                                     *)
Spec == Init /\ [][Next]_vars /\ WF_vars(Tick) /\ WF_vars(WatchdogReads) /\ WF_vars(WatchdogDecides)

-----------------------------------------------------------------------------
(* A generation is reported dead once, while it is the current one, and only     *)
(* after it had the whole limit: not before its pipeline could start, not on    *)
(* the silence of the one before it, and not again while the alarm is latched,  *)
(* so an alarm that was false also silences the true one (lines 125-147).       *)
AlarmsAreDue == [][\A g \in Generations : alarms'[g] # alarms[g] =>
    g = gen /\ age > Limit /\ alarms[g] = 0 /\ alarms'[g] = 1]_vars

(* An end of stream on record is that of the current pipeline, which then runs  *)
(* no more, unless a generation was replaced while its pipeline ran: the frames *)
(* of a running source never look ended, to its viewers or to the watchdog, by  *)
(* the end of another one (producer_eos is one flag for all of them).           *)
EndIsOfTheCurrent == lost \/ (eos => gen \notin alive)

(* A viewer whose picture has frozen because no producer pipeline is left, and  *)
(* who was not told that the stream ended, makes the watchdog report the        *)
(* generation, unless an end of stream was recorded since it started:           *)
(* on_watchdog takes that for the explanation, even for a viewer who came after *)
(* it and was never told.                                                      *)
Reported == gen # 0 /\ alarms[gen] > 0

FrozenViewerIsReported ==
    (Up /\ gen # 0 /\ alive = {} /\ wired)
        ~> (ended \/ eos \/ Reported \/ ~wired \/ alive # {} \/ ~Up)

-----------------------------------------------------------------------------
(* What the watchdog holds in hand is no older than the generation, as the main *)
(* loop starts none while the watchdog decides; and the script's place tells    *)
(* which generation that is.                                                   *)
GenInv ==
    /\ gen = IF step <= 2 THEN step ELSE IF step = 3 THEN 2 ELSE 3
    /\ gen = 0 <=> age = -1

IInv == TypeOK /\ GenInv /\ look.silence <= age

(* dead_logged tells whether the generation that is current was reported, and   *)
(* the watchdog's copy of it still does when the watchdog decides (lines        *)
(* 125-143).                                                                   *)
LatchInv ==
    /\ dead <=> Reported
    /\ look # Idle => look.dead = dead
    /\ \A g \in Generations : alarms[g] <= 1 /\ (g > gen => alarms[g] = 0)

(* One pipeline at a time, unless one was lost.                                *)
OneRuns == ~lost => alive \subseteq {gen}

(* The safety behind FrozenViewerIsReported.  While a picture is frozen and not *)
(* reported, the silence grows with every period until it is too long, the next *)
(* reading of the watchdog then condemns the generation, nothing that happens   *)
(* between reading and decision changes that, and the decision reports the      *)
(* generation that is current (on_watchdog).                                   *)
Frozen ==
    /\ Up /\ gen # 0 /\ alive = {} /\ wired
    /\ ~ended /\ ~eos /\ ~Reported

Condemned == look.wired /\ ~look.eos /\ ~look.dead /\ look.silence > Limit

FreezeIsNoticed == [][Frozen =>
    /\ Tick => silence' > silence \/ silence > Limit
    /\ WatchdogReads /\ silence > Limit => Condemned'
    /\ WatchdogDecides /\ Condemned => gen' = gen /\ Reported'
    /\ Frozen' => silence' >= silence /\ (Condemned => Condemned')]_vars

(* The silence of a generation is known from its start on, so it can grow.      *)
SilenceInv == gen # 0 => silence # -1

=============================================================================
