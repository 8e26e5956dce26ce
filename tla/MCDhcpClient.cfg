\* A loop that does not run, one of five seconds, and one that missed its end.
SPECIFICATION Spec
CONSTANTS
  a = a
  b = b
  Servers = {a, b}
  Lease <- MCLease
  Windows = {0, 5, 6}
  ArpTicks = 1
INVARIANTS
  TypeOK
  LeasedIsTested
  RetriesLast
  AttemptBounded
PROPERTIES
  PatientDiscover
  LeaseReported
