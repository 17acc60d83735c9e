\* A section of 2 MiB that does not begin on a multiple of 2 MiB.
SPECIFICATION BootSpec
CONSTANTS
  PAGE = 32
  ENTRIES = 4
  Limits = {16}
  Requests = {}
  POOL = 64
  HHDM = 4096
  IMAGE <- Image
  Files <- Misaligned
  Cpus <- AllCpus
  Loaders <- OneLoader
\* The kernel runs, or the machine stops.
CHECK_DEADLOCK FALSE
INVARIANTS
  KernelUnpacked
