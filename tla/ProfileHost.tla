------------------------------ MODULE ProfileHost ------------------------------
(* ProfileHost with its ProfileBins (server/ProfileHost.cpp, ProfileBin.cpp):   *)
(* one capture pipeline with a tee branch per profile, built in one go, any     *)
(* step of which may fail; the valve and the reported state of every profile;   *)
(* the bus watch; and who owns which GStreamer object at each moment.           *)
(*                                                                              *)
(* An object is modelled by its reference count.  gst_bin_add takes over the    *)
(* floating reference of an element that nobody has sunk, and adds a reference  *)
(* of its own to one that is sunk; a bin that is finalised drops one reference  *)
(* of each of its children.  A negative count is an unref of a freed object.    *)
EXTENDS Integers, FiniteSets

CONSTANTS
    NumProfiles,   \* the length of the catalogue
    MaxAttempts    \* bound: how often setupPipeline() gets to create elements

ASSUME HostAssumption == NumProfiles \in Nat \ {0} /\ MaxAttempts \in Nat

Profiles == 1..NumProfiles
Chain == {"source", "videoConvert", "sourceCaps", "tee"}
Elements == Chain \cup {"pipeline"}
Faults == {"none", "create", "link", "bin", "pad"}
StateFor(enabled) == IF enabled THEN "ready" ELSE "off"

VARIABLES
    alive,      \* FALSE once the destructor has run
    source,     \* m_videoSource is set
    attempts,   \* setups that created elements
    fault,      \* how the last of them failed, or "none"
    set,        \* the element pointers that are not null
    refs,       \* reference counts of the elements last created
    filled,     \* the chain was added to the pipeline
    linked,     \* m_isLinked
    bin,        \* profiles whose m_bin, m_valve and m_appSink are not null
    binRefs,    \* reference counts of their bins
    inside,     \* profiles whose bin is a child of the pipeline
    lost,       \* profiles of which an object is referenced and unreachable
    closed,     \* per profile: the valve's "drop"
    state,      \* per profile: m_profile.state
    gst,        \* the pipeline's state
    watch       \* m_busSource is set

owned == <<set, refs, filled, bin, binRefs, inside, lost>>
vars == <<alive, source, attempts, fault, linked, closed, state, gst, watch, owned>>

TypeOK ==
    /\ alive \in BOOLEAN /\ source \in BOOLEAN /\ watch \in BOOLEAN
    /\ filled \in BOOLEAN /\ linked \in BOOLEAN
    /\ attempts \in 0..MaxAttempts
    /\ fault \in Faults
    /\ set \subseteq Elements
    /\ refs \in [Elements -> -1..1]
    /\ bin \subseteq Profiles /\ inside \subseteq Profiles /\ lost \subseteq Profiles
    /\ binRefs \in [Profiles -> 0..2]
    /\ closed \in [Profiles -> BOOLEAN]
    /\ state \in [Profiles -> {"off", "ready"}]
    /\ gst \in {"NULL", "PAUSED", "PLAYING"}

Init ==
    /\ alive = TRUE
    /\ source = FALSE
    /\ attempts = 0
    /\ fault = "none"
    /\ set = {}
    /\ refs = [e \in Elements |-> 0]
    /\ filled = FALSE
    /\ linked = FALSE
    /\ bin = {}
    /\ binRefs = [p \in Profiles |-> 0]
    /\ inside = {}
    /\ lost = {}
    /\ closed = [p \in Profiles |-> FALSE]
    /\ state = [p \in Profiles |-> "off"]
    /\ gst = "NULL"
    /\ watch = FALSE

-----------------------------------------------------------------------------
(* cleanup(), from the pointers s, the counts r and br, and the children of the *)
(* pipeline.  A linked pipeline is taken to NULL and its unref frees the        *)
(* children; on the other path every pointer that is set is unref'd by itself.  *)
Count(b) == IF b THEN 1 ELSE 0

CleanupEach(s, r, br, isFilled, isLinked, kids) ==
    /\ set' = {}
    /\ refs' = [e \in Elements |->
           r[e] - Count(e = "pipeline" /\ e \in s)
                - Count(e \in Chain /\ isFilled /\ "pipeline" \in s)
                - Count(e \in Chain /\ e \in s)]
    /\ binRefs' = [p \in Profiles |-> br[p] - Count(p \in kids)]
    /\ filled' = FALSE
    /\ inside' = {}
    /\ linked' = FALSE
    /\ gst' = IF isLinked THEN "NULL" ELSE gst

CleanupPlaying(s, r, br, isFilled, isLinked, kids) ==
    /\ set' = {}
    /\ refs' = [e \in Elements |->
           r[e] - Count(e = "pipeline" /\ e \in s)
                - Count(e \in Chain /\ isFilled /\ "pipeline" \in s)
                - Count(e \in Chain /\ ~isLinked /\ e \in s)]
    /\ binRefs' = [p \in Profiles |-> br[p] - Count(p \in kids)]
    /\ filled' = FALSE
    /\ inside' = {}
    /\ linked' = FALSE
    /\ gst' = gst

Cleanup(s, r, br, isFilled, isLinked, kids) ==
    /\ set' = {}
    /\ refs' = [e \in Elements |->
           r[e] - Count(e = "pipeline" /\ e \in s)
                - Count(e \in Chain /\ isFilled /\ "pipeline" \in s)
                - Count(e \in Chain /\ ~isLinked /\ e \in s)]
    /\ binRefs' = [p \in Profiles |-> br[p] - Count(p \in kids)]
    /\ filled' = FALSE
    /\ inside' = {}
    /\ linked' = FALSE
    /\ gst' = IF isLinked THEN "NULL" ELSE gst

SetVideoSource ==
    /\ alive
    /\ source' = TRUE
    /\ UNCHANGED <<alive, attempts, fault, linked, closed, state, gst, watch, owned>>

(* The two early returns of setupPipeline() change nothing.                    *)
CanSetup == alive /\ source /\ "pipeline" \notin set /\ attempts < MaxAttempts

Attempt(f) ==
    /\ CanSetup
    /\ attempts' = attempts + 1
    /\ fault' = f
    /\ UNCHANGED <<alive, source, state, watch>>

(* Some element of the pipeline is missing: those that were made are floating. *)
CreateFails == \E made \in SUBSET Elements :
    /\ made # Elements
    /\ Attempt("create")
    /\ Cleanup(made, [e \in Elements |-> Count(e \in made)], binRefs, FALSE, FALSE, {})
    /\ UNCHANGED <<bin, lost, closed>>

(* The chain does not link: this one return leaves everything as it is.        *)
LinkFails ==
    /\ Attempt("link")
    /\ set' = Elements
    /\ refs' = [e \in Elements |-> 1]
    /\ filled' = TRUE
    /\ UNCHANGED <<linked, bin, binRefs, inside, lost, closed, gst>>

(* ProfileBin::createElement() for the first n profiles, in order.  It writes   *)
(* m_bin before anything else, so the bin of an earlier attempt is lost; it     *)
(* opens the valve, and keeps a reference of its own (ref_sink).                *)
BinCounts(n, added) == [p \in Profiles |->
    IF p <= n THEN 1 + Count(p <= added) ELSE binRefs[p]]

CreateBins(n) ==
    /\ bin' = bin \cup 1..n
    /\ closed' = [p \in Profiles |-> closed[p] /\ p > n]

(* The n-th bin cannot be created or linked inside.  When a factory is missing  *)
(* the elements that were made beside the bin, the valve and the appsink stay   *)
(* behind unowned.                                                              *)
BinFails == \E n \in Profiles, missing \in BOOLEAN :
    /\ Attempt("bin")
    /\ Cleanup(Elements, [e \in Elements |-> 1], [BinCounts(n - 1, n - 1) EXCEPT ![n] = 0],
               TRUE, TRUE, 1..(n - 1))
    /\ bin' = (bin \cup 1..(n - 1)) \ {n}
    /\ closed' = [p \in Profiles |-> closed[p] /\ p > n]
    /\ lost' = lost \cup (bin \cap 1..n) \cup (IF missing THEN {n} ELSE {})

PadFailsUnclean == \E n \in Profiles :
    /\ Attempt("pad")
    /\ set' = Elements
    /\ refs' = [e \in Elements |-> 1]
    /\ filled' = TRUE
    /\ binRefs' = BinCounts(n, n)
    /\ inside' = 1..n
    /\ CreateBins(n)
    /\ lost' = lost \cup (bin \cap 1..n)
    /\ UNCHANGED <<linked, gst>>

PadFails == \E n \in Profiles :
    /\ Attempt("pad")
    /\ Cleanup(Elements, [e \in Elements |-> 1], BinCounts(n, n), TRUE, TRUE, 1..n)
    /\ CreateBins(n)
    /\ lost' = lost \cup (bin \cap 1..n)

Succeeds ==
    /\ Attempt("none")
    /\ set' = Elements
    /\ refs' = [e \in Elements |-> 1]
    /\ filled' = TRUE
    /\ linked' = TRUE
    /\ binRefs' = BinCounts(NumProfiles, NumProfiles)
    /\ inside' = Profiles
    /\ CreateBins(NumProfiles)
    /\ lost' = lost \cup bin
    /\ UNCHANGED gst

SetupPipeline == CreateFails \/ LinkFails \/ BinFails \/ PadFails \/ Succeeds

-----------------------------------------------------------------------------
(* play() and stop(): refused before setup; a state change that fails leaves    *)
(* the pipeline where it was.                                                   *)
SetPipelineState(to) ==
    /\ alive
    /\ linked
    /\ gst' \in {gst, to}
    /\ UNCHANGED <<alive, source, attempts, fault, linked, closed, state, watch, owned>>

Play == SetPipelineState("PLAYING")
Stop == SetPipelineState("PAUSED")

(* setProfileEnabled() of a known name, at any time in the host's life: a       *)
(* profile without a valve ignores setDrop, and its state changes all the same. *)
SetProfileStateOnly(p, enabled) ==
    /\ alive
    /\ state' = [state EXCEPT ![p] = StateFor(enabled)]
    /\ UNCHANGED <<alive, source, attempts, fault, linked, closed, gst, watch, owned>>

SetProfileEnabled(p, enabled) ==
    /\ alive
    /\ closed' = [closed EXCEPT ![p] = p \in bin /\ ~enabled]
    /\ state' = [state EXCEPT ![p] = StateFor(enabled)]
    /\ UNCHANGED <<alive, source, attempts, fault, linked, gst, watch, owned>>

AttachUnlinked ==
    /\ alive
    /\ watch' = TRUE
    /\ UNCHANGED <<alive, source, attempts, fault, linked, closed, state, gst, owned>>

AttachBusWatch ==
    /\ alive
    /\ linked
    /\ watch' = TRUE
    /\ UNCHANGED <<alive, source, attempts, fault, linked, closed, state, gst, owned>>

DetachBusWatch ==
    /\ alive
    /\ watch' = FALSE
    /\ UNCHANGED <<alive, source, attempts, fault, linked, closed, state, gst, owned>>

(* ~ProfileBin(): each drops the reference it kept.                            *)
KeptDropped == [p \in Profiles |-> binRefs[p] - Count(p \in bin)]

(* ~ProfileHost(): the watch, cleanup(), and then its members. One step, as the *)
(* thread that is in it is the one that would serve the watch.                 *)
Destroy ==
    /\ alive
    /\ alive' = FALSE
    /\ watch' = FALSE
    /\ Cleanup(set, refs, KeptDropped, filled, linked, inside)
    /\ bin' = {}
    /\ UNCHANGED <<source, attempts, fault, closed, state, lost>>

Next ==
    \/ SetVideoSource
    \/ SetupPipeline
    \/ Play
    \/ Stop
    \/ \E p \in Profiles, enabled \in BOOLEAN : SetProfileEnabled(p, enabled)
    \/ AttachBusWatch
    \/ DetachBusWatch
    \/ Destroy

Spec == Init /\ [][Next]_vars

-----------------------------------------------------------------------------
(* Every reference is somebody's: an element is held once while its pointer is  *)
(* set, a bin by its ProfileBin and by the pipeline it is in, whatever step of  *)
(* whatever attempt failed (ProfileHost::cleanup, ProfileBin::createElement and *)
(* the two destructors).  So nothing is freed twice, and what the host still    *)
(* reaches when it dies is freed.  It reaches everything, but for the bins that *)
(* a second setup overwrites (ProfileBin.cpp:31) and the elements that were     *)
(* made beside one whose factory is missing.  The failed link of the chain is   *)
(* set apart: NoUnrefOfFreed.                                                  *)
HeldByOwners ==
    /\ fault # "link" => \A e \in Elements : refs[e] = Count(e \in set)
    /\ \A p \in Profiles : binRefs[p] = Count(p \in bin) + Count(p \in inside)

LossNeedsRetry == lost # {} => attempts > 1 \/ fault = "bin"

ReferencesMatchOwners == HeldByOwners /\ LossNeedsRetry

(* A set-up host has the whole pipeline, with the bin of every profile in it:   *)
(* the valve that setProfileEnabled() switches is the one in the running        *)
(* pipeline.  A host whose setup failed has none of it and can try again        *)
(* (setupPipeline's error paths, but for the failed link).                      *)
SetupAllOrNothing ==
    IF linked THEN set = Elements /\ filled /\ bin = Profiles /\ inside = Profiles
    ELSE fault # "link" => set = {} /\ ~filled /\ inside = {}

(* A pipeline is never freed while PAUSED or PLAYING (cleanup() takes it to     *)
(* NULL before it drops the last reference).                                    *)
DisposedInNull == refs["pipeline"] <= 0 => gst = "NULL"

(* The watch only exists beside the pipeline whose bus it watches: it is gone   *)
(* before the pipeline is (ProfileHost.hpp:59-61).                              *)
WatchWithinPipeline == watch => alive /\ linked /\ refs["pipeline"] = 1

(* The inductive invariant.  Only a linked pipeline leaves NULL or is watched,  *)
(* and only a living host is linked; a failed link of the chain stays, whole,   *)
(* until the destructor, which then drops the chain's references twice.         *)
LifeInv ==
    /\ ~linked => gst = "NULL" /\ ~watch
    /\ linked => alive /\ fault # "link"
    /\ inside \subseteq bin
    /\ refs["pipeline"] = Count("pipeline" \in set)
    /\ fault = "link" /\ alive =>
           set = Elements /\ filled /\ inside = {} /\ \A e \in Elements : refs[e] = 1
    /\ fault = "link" /\ ~alive => \A e \in Chain : refs[e] = -1
    /\ ~alive => set = {} /\ bin = {}

(* The first setup finds no bin that it could overwrite.                        *)
LossInv == LossNeedsRetry /\ (attempts = 0 => bin = {} /\ lost = {})

IInv ==
    /\ TypeOK
    /\ HeldByOwners
    /\ SetupAllOrNothing
    /\ LifeInv
    /\ LossInv

(* Nothing but a setup, which makes new valves, parts the reported state of a   *)
(* profile from its valve once they agree (ProfileHost::setProfileEnabled).     *)
Agree(p) == (state[p] = "off") <=> closed[p]

OnlySetupPartsValveFromState ==
    [][\A p \in bin \cap bin' : Agree(p) => Agree(p)' \/ attempts' # attempts]_vars

(* The host treats its pipeline as PipelineLife asks: it plays and is watched   *)
(* whole, with every branch in it, or not at all, and the destructor frees all  *)
(* of it, from NULL; what a failed link leaves is not touched until then.       *)
Pipe ==
    IF inside = {} /\ \A e \in Elements : refs[e] <= 0 THEN "none"
    ELSE IF linked /\ inside = Profiles /\ \A e \in Elements : refs[e] = 1 THEN "whole"
    ELSE "remnant"

Life == INSTANCE PipelineLife WITH owner <- alive, pipe <- Pipe, watched <- watch

KeepsPipelineLife == Life!Spec

(* common/Protocol.hpp:68 says "off" means that the valve is closed; setup      *)
(* opens every valve and leaves the state that the constructor reported.        *)
OffMeansClosed == linked => \A p \in Profiles : state[p] = "off" => closed[p]

(* No freed element is unref'd.  After a failed link the pipeline owns the      *)
(* chain, and cleanup() unrefs the chain once more than the pipeline does.      *)
NoUnrefOfFreed == \A e \in Elements : refs[e] >= 0
=============================================================================
