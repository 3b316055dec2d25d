---------------------------- MODULE MCPL2303Line ----------------------------
(***************************************************************************)
(* TLC instances of PL2303Line: rates at and around the ends of the table  *)
(* and of every chip, and all the rates of the table.                      *)
(***************************************************************************)
EXTENDS PL2303Line

EdgeRates == {0, 74, 100, 115201, 5999999, 12000000}
AllRates == supported_bauds \cup EdgeRates
SomeParities == {{}, {"odd", "on"}, {"mark", "mspon"}}
\* A chip fresh from the factory, and one that another driver has used.
PowerOnCodings ==
    {[rate |-> DirectBytes(9600), bits |-> 8, parity |-> "none", stop |-> 1],
     [rate |-> DirectBytes(2400), bits |-> 7, parity |-> "even", stop |-> 2]}
AllParities == SUBSET {"odd", "on", "mark", "mspon"}
=============================================================================
