---------------------------- MODULE MCStaffScan ----------------------------
(* Two customers; the first holds a voucher.  One campaign row per mechanic. *)
EXTENDS StaffScan

CONSTANTS anna, bek, gift, cake, party

MCCustomers == {anna, bek}
MCVouchers == {gift, cake}
MCOwnerOf == [v \in MCVouchers |-> anna]
MCRows == {"visit", "points", "social"}
MCMechanicOf == [r \in MCRows |-> r]

=============================================================================
