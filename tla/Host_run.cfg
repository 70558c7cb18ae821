SPECIFICATION HostSpec
CONSTANTS
  Addrs = {a1}
  Fps = {k1, k2}
  Ids = {i1}
  Links = {l1}
  MaxStrangers = 1
  MaxAuto = 1
  StrangerMsgs = 1
  HistoryCap = 2
  MaxDials = 1
  MaxMoves = 2
  None = None
  Loopback = Loopback
  Confs = {"f1", "f2"}
  MaxPass = 3
  MaxNodeMoves = 1
  Files = {"main", "cli"}
  Main = "main"
  Versions = {1, 2}
  MaxKills = 2
  Callers = {"a1", "d1"}
  Answerers = {"b1", "c1"}
  MaxFrames = 1
  SameCallers = {"a1", "a2"}
  SameAnswerers = {"b1"}
  MaxSameFrames = 2
  Key <- KeyOf
  KnownHosts = {"a", "s"}
  Called = {"s"}
  Keys = {1, 2}
  Rooms = {"r"}
  Msgs = {"m"}
  StateFiles <- OldFiles
  Devices = {"r", "q"}
  Kinds <- KindsOfAll
  Polls = {"p", "q"}
  MaxHeight = 1
  MaxPolls = 2
  Sources = {"x", "y", "tor"}
  Tor = "tor"
  Socks = {"s"}
  MAX_CONNS = 1
  RL_BURST = 1
  RL_REFILL = 2
  RL_MAX_BLOCKS = 2
  TorShare = 2
  IDLE = 2
  LimitsEnd = 4
  Sups = {"s1"}
  Daemons = {"d1"}
  Commands = {}
  Races = FALSE
  SupKills = 0
  Backoff = 1
  MaxBackoff = 4
  StableTime = 6
  CrashLimit = 3
  Window = 8
  ClockEnd = 16
SYMMETRY Alike
CHECK_DEADLOCK FALSE
INVARIANTS HostTypeOK StrangersOnBudget
INVARIANTS EditsKeep LoginInOrder NeverMixed Carried FindsTheNode OneForward
INVARIANTS SessionIsTheirs LimitsHold NeverSpins
PROPERTIES KeysHold MergeKeeps NoOlderNews
