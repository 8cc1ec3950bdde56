\* Two threads, three sources in nested directories, one CRT file.
CONSTANTS
  t1 = t1
  t2 = t2
  t3 = t3
  s1 = s1
  s2 = s2
  s3 = s3
  c1 = c1
  c2 = c2
  None = None
  Threads = {t1, t2}
  Srcs <- ThreeSrcs
  Crt = {c1}
  Dirs <- MCDirs
  Parent <- MCParent
  DirOf <- MCDirOf
SPECIFICATION FairSpec
INVARIANTS
  TypeOK
  LatchesOrderTasks
  CommitIsComplete
  WaitSeesResult
PROPERTIES
  WaitEnds
CHECK_DEADLOCK FALSE
