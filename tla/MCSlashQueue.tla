---------------------------- MODULE MCSlashQueue ----------------------------
(* Model of SlashQueue for TLC: one validator alone and one with a         *)
(* cooperator, so that queues mix slashes with one and two victims.        *)
EXTENDS SlashQueue

CONSTANTS v, w, c

MCStashes   == {v, w, c}
MCExposures == {<<v>>, <<w, c>>}
=============================================================================
