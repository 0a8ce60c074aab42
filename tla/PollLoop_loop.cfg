SPECIFICATION FairSpec
CONSTANTS
  main = main
  f1 = f1
  r1 = r1
  w1 = w1
  Main = main
  Fetchers <- MCFetchers
  Readers <- MCReaders
  Writers <- MCWriters
  ChunkLen = 3
  MaxPermit = 2
  MaxChunks = 1
  Ops = {"own", "cancel", "raise", "break"}
INVARIANTS WaitersAreWatched OnlyCancelBreaks SentIsFlushed NoneIsTheEnd
PROPERTIES ExceptionSurfaces EventuallyEnds
