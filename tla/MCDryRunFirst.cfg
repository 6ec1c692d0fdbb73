CONSTANTS
  m = m
  t = t
  f = f
  g = g
  None = None
  Torn = Torn
  Procs = {p1, p2}
  Accounts = {m, t}
  Mainnet = {m}
  Paths = {f, g}
  ma = ma
  mb = mb
  Strategies = {ma, mb}
  Limits <- MCLimits
  Starts <- MCStarts
  Losable = {f}
  Equities <- MCEquities
  MaxDay = 2
SYMMETRY Symmetric
SPECIFICATION Spec
INVARIANT DryRunComesFirst
