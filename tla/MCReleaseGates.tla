---------------------------- MODULE MCReleaseGates ----------------------------
(* An instance of ReleaseGates for TLC: a killed copy of the template left *)
(* nothing, or all files but one that the hardening tools need.            *)
EXTENDS ReleaseGates

MCPartialCopies == {{}, Files \ {"manifest"}, Files \ {"gradle"}}
===============================================================================
