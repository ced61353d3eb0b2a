------------------------------ MODULE MCMedia ------------------------------
(* A board samples rightly at the first setting or the last one tried, at   *)
(* all of them, or at none.                                                 *)
EXTENDS Media

MCSettings == (0 .. Delays - 1) \X BOOLEAN
MCGood == {{}, {<<Begin, FALSE>>}, {<<Begin - 1, TRUE>>}, MCSettings}
=============================================================================
