\* From the entry of bsp() to the kernel, with every amount of memory to one that is
\* enough: none, or a bank of 1 to 14 pages that begins 2 pages from 0.
SPECIFICATION BootSpec
CONSTANTS
  PAGE = 32
  ENTRIES = 4
  Limits = {0, 3, 4, 5, 6, 7, 8, 9, 10, 11, 12, 13, 14, 15, 16}
  Requests = {}
  POOL = 64
  HHDM = 4096
  IMAGE <- Image
  Files <- AllFiles
  Cpus <- AllCpus
  Loaders <- AllLoaders
\* The kernel runs, or the machine stops.
CHECK_DEADLOCK FALSE
INVARIANTS
  BootTypeOK
  KernelComplete
  DirectMapComplete
  SwitchNeverFaults
  PagesReserved
PROPERTIES
  BootEnds
