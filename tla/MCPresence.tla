------------------------------ MODULE MCPresence ------------------------------
\* Counts below, at and above thresholds that a PATCH moves past them.
EXTENDS Presence

MCNoDay == -1
MCKeep == -1
===============================================================================
