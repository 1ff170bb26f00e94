------------------------------- MODULE Parts --------------------------------
(***************************************************************************)
(* Components that share no state, side by side.  A behaviour is one of a  *)
(* single component, named by part, so that TLC explores the sum of their  *)
(* state spaces and not the product; its variables are the first of the    *)
(* slots, and the other slots rest.                                        *)
(***************************************************************************)
EXTENDS Integers

VARIABLES part, s1, s2, s3, s4, s5, s6, s7, s8, s9, s10, s11, s12, s13, s14, s15, s16

slots == <<part, s1, s2, s3, s4, s5, s6, s7, s8, s9, s10, s11, s12, s13, s14, s15, s16>>

\* In the initial state of a component with n variables.
Rest(n) ==
    /\ IF n < 1 THEN s1 = 0 ELSE TRUE
    /\ IF n < 2 THEN s2 = 0 ELSE TRUE
    /\ IF n < 3 THEN s3 = 0 ELSE TRUE
    /\ IF n < 4 THEN s4 = 0 ELSE TRUE
    /\ IF n < 5 THEN s5 = 0 ELSE TRUE
    /\ IF n < 6 THEN s6 = 0 ELSE TRUE
    /\ IF n < 7 THEN s7 = 0 ELSE TRUE
    /\ IF n < 8 THEN s8 = 0 ELSE TRUE
    /\ IF n < 9 THEN s9 = 0 ELSE TRUE
    /\ IF n < 10 THEN s10 = 0 ELSE TRUE
    /\ IF n < 11 THEN s11 = 0 ELSE TRUE
    /\ IF n < 12 THEN s12 = 0 ELSE TRUE
    /\ IF n < 13 THEN s13 = 0 ELSE TRUE
    /\ IF n < 14 THEN s14 = 0 ELSE TRUE
    /\ IF n < 15 THEN s15 = 0 ELSE TRUE
    /\ IF n < 16 THEN s16 = 0 ELSE TRUE

\* In every step of it.
Still(n) ==
    /\ part' = part
    /\ IF n < 1 THEN s1' = s1 ELSE TRUE
    /\ IF n < 2 THEN s2' = s2 ELSE TRUE
    /\ IF n < 3 THEN s3' = s3 ELSE TRUE
    /\ IF n < 4 THEN s4' = s4 ELSE TRUE
    /\ IF n < 5 THEN s5' = s5 ELSE TRUE
    /\ IF n < 6 THEN s6' = s6 ELSE TRUE
    /\ IF n < 7 THEN s7' = s7 ELSE TRUE
    /\ IF n < 8 THEN s8' = s8 ELSE TRUE
    /\ IF n < 9 THEN s9' = s9 ELSE TRUE
    /\ IF n < 10 THEN s10' = s10 ELSE TRUE
    /\ IF n < 11 THEN s11' = s11 ELSE TRUE
    /\ IF n < 12 THEN s12' = s12 ELSE TRUE
    /\ IF n < 13 THEN s13' = s13 ELSE TRUE
    /\ IF n < 14 THEN s14' = s14 ELSE TRUE
    /\ IF n < 15 THEN s15' = s15 ELSE TRUE
    /\ IF n < 16 THEN s16' = s16 ELSE TRUE
=============================================================================
