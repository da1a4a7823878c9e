CONSTANTS
  Request = {r1, r2, s}
  Sync = {s}
  Failing = {r1, s}
  Client = {c1, c2}
  Dpc = {d1, d2}
  NoRq = norq
  MinIdle = 1
  MaxIdle = 1
  MaxRequests = 4
SPECIFICATION FairSpec
INVARIANTS InOnePlace DriverFindsRequest EnqueueFindsIdle
PROPERTIES ImplementsIo Served
