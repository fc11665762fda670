CONSTANTS
  Fds = {f1}
  Waits = {w1, w2}
  Kinds = {"read", "write", "write_all"}
  Bytes = 2
  Buffer = 1
SPECIFICATION StreamSpec
INVARIANTS WaitsAreWatched EntriesAlive CompletedOnce WriteAllExact FdsOwned
PROPERTIES CallsEnd
