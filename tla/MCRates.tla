------------------------------ MODULE MCRates ------------------------------
(* An instance of Rates for TLC.  Of 33.33 naira three nights are a kobo   *)
(* short of a whole amount; of 33.50 one night lies half way between two.  *)
EXTENDS Rates

SomeRates == {3333, 3350}
SeedTypes == {[base_rate |-> 3350, capacity |-> 2]}
=============================================================================
