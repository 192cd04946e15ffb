----------------------------- MODULE MCProgram -----------------------------
(***************************************************************************)
(* Program for TLC, with some command lines.                               *)
(***************************************************************************)
EXTENDS Program

\* The HackRF, with the fewest threads, gets the commands with the most states.
SomeCommands == [r \in Radios |->
  CASE r = "hackrf" -> {"gain", "gps", "status"}
    [] r = "soapy"  -> {"gain"}
    [] r = "usrp"   -> {"restart", "squelch"}
    [] OTHER         -> {}]

\* The HackRF's program starts with a receiver; a set_gps that fails leaves it
\* without one.
WithGps == [r \in Radios |-> {r = "hackrf"}]

Other == Arg("other", 0)

\* The short and the long form, none, one option after "-a" in both forms, and
\* an option joined to its value.
SomeCommandLines ==
  {<<Other>>,
   <<Arg("-c", 0), Operand(2), Other, Arg("--channels", 0), Operand(3)>>,
   <<Arg("-a", 0), Arg("--center-freq", 0), Operand(2), Arg("-c", 0), Operand(3)>>,
   <<Arg("--channels=", 3), Other>>}
=============================================================================
