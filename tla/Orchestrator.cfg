\* Two hosts on own networks, one of them this machine, a network address, two
\* hosts behind routers and one with IPv6, in four combinations; two ports, one
\* of them in the first of two phases.
SPECIFICATION RunFairSpec
CONSTANTS
  d1 = d1
  d2 = d2
  n0 = n0
  r1 = r1
  r2 = r2
  r6 = r6
  Shutdown = Shutdown
  Orchestrated = Orchestrated
  Callers = {Orchestrated}
  Tasks = {r1, r2, r6}
  Program <- Discovery
  Capacity = 4
  MaxConcurrent = 2
  Hosts = {d1, d2, n0, r1, r2, r6}
  TargetSets = {{d1, n0, r1, r2, r6}, {d1, d2, n0}, {d1}, {n0}}
  Segments = {{d1}, {d2}}
  OwnAddresses = {d2}
  Unreal = {n0}
  IPv6 = {r6}
  Ports = {p1, p2}
  FirstPorts = {p1}
INVARIANTS
  ConcurrencyBounded
  CountsAgree
  WaitMeansDone
  DownLeftAlone
  TargetsAccounted
  StatisticsAgree
PROPERTY
  RunEnds
