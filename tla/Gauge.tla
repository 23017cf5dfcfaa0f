------------------------------- MODULE Gauge -------------------------------
(***************************************************************************)
(* What a session sees of the size monitor: whether the last measured size *)
(* of its database exceeds its limit (get_db_size, over), and the flag that *)
(* is set from such a comparison at some other time (over_limit, flag).    *)
(***************************************************************************)
VARIABLES over, flag

Init == over = FALSE /\ flag = FALSE

\* A measurement is stored.
Measure == over' = ~over /\ UNCHANGED flag

\* The flag is recomputed from the last measurement.
Raise == flag' = over /\ UNCHANGED over

Next == Measure \/ Raise

Spec == Init /\ [][Next]_<<over, flag>>
=============================================================================
