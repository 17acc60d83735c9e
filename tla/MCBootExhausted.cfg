\* The bank is used up while the kernel is loaded.
SPECIFICATION BootSpec
CONSTANTS
  PAGE = 32
  ENTRIES = 4
  Limits = {9, 10, 11, 12, 13}
  Requests = {}
  POOL = 64
  HHDM = 4096
  IMAGE <- Image
  Files <- AllFiles
  Cpus <- AllCpus
  Loaders <- OneLoader
\* The kernel runs, or the machine stops.
CHECK_DEADLOCK FALSE
INVARIANTS
  ImageStaysMapped
