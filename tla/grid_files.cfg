\* Two files of one name, one of up to three chunks; a reader, a remover, a fault.
SPECIFICATION Spec
CONSTANTS
  f1 = f1  f2 = f2  r1 = r1  x1 = x1  fname = fname
  NoDoc = NoDoc  NoData = NoData  NoFile = NoFile
  Files <- McFiles
  Readers = {r1}
  Removers = {x1}
  NameOf <- McNames
  ChunkSize = 2
  Sizes <- McSizes
  MaxBytes <- McBytes
  MaxReads = 2
  MaxFaults = 1
INVARIANTS
  TypeOK ReadExact ReaderSafe BytesInPlace ChunksAccounted DocumentTrue OkMeansStored
PROPERTIES
  FilePromise
CHECK_DEADLOCK FALSE
