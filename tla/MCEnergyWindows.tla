---------------------------- MODULE MCEnergyWindows ----------------------------
(* Model of Eras and EnergyWindows for TLC: eras of two sessions, a window  *)
(* of two sessions, and slashes that may fail from the second era on.       *)
EXTENDS EnergyWindows

MCSettings == {[override |-> 0, minimum |-> 0, factor |-> 1],
               [override |-> None, minimum |-> 1, factor |-> 3]}
=============================================================================
