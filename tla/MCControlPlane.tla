----------------------------- MODULE MCControlPlane -----------------------------
(* Two threads over a catalogue of two profiles, one of them without a valve  *)
(* (its branch was not built), and a name that the catalogue does not hold.     *)
EXTENDS ControlPlane

CONSTANTS t1, t2, hd, sd, missing

MCEntries == <<hd, sd>>
MCNames == {hd, sd, missing}
MCBuilt == {1}
=============================================================================
