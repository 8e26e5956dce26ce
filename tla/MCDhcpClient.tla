--------------------------- MODULE MCDhcpClient ---------------------------
(* Small instances of DhcpClient: one server gives long leases, one short. *)
EXTENDS DhcpClient

CONSTANTS a, b

MCLease == [s \in {a, b} |-> IF s = a THEN 1000 ELSE 2]
=============================================================================
