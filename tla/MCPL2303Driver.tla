--------------------------- MODULE MCPL2303Driver ---------------------------
(***************************************************************************)
(* TLC instances of PL2303Driver: an adapter for every branch of the       *)
(* detection, with clients that ask for exclusive and for shared access.   *)
(***************************************************************************)
EXTENDS PL2303Driver, TLC

CONSTANTS c1, c2, c3

Adapter(class, packet, usb, version, status, stalls) ==
    [class |-> class, packet |-> packet, usb |-> usb, version |-> version,
     status |-> status, stalls |-> stalls]

AllAdapters ==
    {Adapter(\h02, \h08, \h110, \h202, FALSE, FALSE),   \* H
     Adapter(\h00, \h40, \h110, \h300, TRUE, FALSE),    \* HX
     Adapter(\h00, \h40, \h110, \h400, TRUE, FALSE),    \* HXD
     Adapter(\h00, \h40, \h110, \h400, TRUE, TRUE),     \* HXD clone
     Adapter(\h00, \h40, \h200, \h100, FALSE, FALSE),   \* HXN
     Adapter(\h00, \h40, \h200, \h300, TRUE, FALSE),    \* TA
     Adapter(\h00, \h40, \h200, \h300, FALSE, FALSE),   \* GT
     Adapter(\h00, \h40, \h200, \h500, TRUE, FALSE),    \* TB
     Adapter(\h00, \h40, \h200, \h999, FALSE, TRUE)}    \* none of these
=============================================================================
