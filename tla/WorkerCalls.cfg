\* Three /load or /unload calls, three generations, any overlaps.
CONSTANTS
  Calls = {c1, c2, c3}
  Gens = {g1, g2, g3}
  EntryConfigs = {entryA}
  ExitConfigs = {exitA}
  None = None
SPECIFICATION FairSpec
INVARIANTS LoadedServes SingleUnlessUnloaded NoStrayLoop UnloadDropsCaches ConfiguredAsLoaded
PROPERTIES ModelNotReplaced BusyEnds
CHECK_DEADLOCK FALSE
