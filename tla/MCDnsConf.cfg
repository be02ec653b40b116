CONSTANTS
  ShuffleOf <- MCShuffleOf
  Seeds = {0, 1, 2}
  Slots = 16
  Domains = {"d0", "."}
  ResolvLines <- MCResolvLines
  OptionLines <- MCOptionLines
  NssEntries <- MCNssEntries
  HostsLines <- MCHostsLines
  SearchNames <- MCSearchNames
  MaxLines = 3
  MaxServers = 2
  MaxSearch = 2
  MaxWords = 6
  MaxLookup = 12
  MaxTokens = 6
SPECIFICATION ConfSpec
INVARIANTS NothingLeaks ReadAsListed NameIsTriedOnce
CHECK_DEADLOCK FALSE
