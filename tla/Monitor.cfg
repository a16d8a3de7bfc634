SPECIFICATION Spec
CONSTANTS
  Local = {l1}
  Remote = {r1, r2}
  Unit = 2
  MaxAdds = 3
  None = None
INVARIANTS
  ReportsAreRecent
  ReportsAreComplete
  AtMostOnePacketWithoutBytes
  LocalAndRemoteAgree
