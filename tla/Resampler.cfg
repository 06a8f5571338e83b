SPECIFICATION ResamplerSpec
CONSTANTS
  Taps = 3
  Target = 3
  MaxInput = 4
  HostRates = {2, 3, 4, 6, 8, 16}
  MaxFed = 16
INVARIANTS
  TapsAligned
  NoDrift
  NothingDropped
  RateKept
