----------------------------- MODULE MCCeremony -----------------------------
(***************************************************************************)
(* Ceremony over a group of eleven elements and a circuit with a wire of   *)
(* each class.  Factors are 2, 4 and 8, whose products of up to three are  *)
(* never 1: a contribution always shows.                                   *)
(***************************************************************************)
EXTENDS Ceremony

MCClass == <<"gamma", "eta", "delta">>
MCA == <<1, 2, 0>>
MCB == <<3, 0, 5>>
MCC == <<0, 4, 6>>
MCSecrets ==
    {[alpha |-> 2, beta |-> 8, gamma |-> 4, delta |-> 2, eta |-> 8],
     [alpha |-> 4, beta |-> 2, gamma |-> 8, delta |-> 4, eta |-> 2]}
=============================================================================
