\* The same machine may lose power.
SPECIFICATION SpecPower
CONSTANTS
  Writer = {w1}
  Reader = {r1}
  Content = {c1}
  Old = Old
  NoContent = NoContent
  Size = 2
  Mode = {m600, m644, m640}
  Private = m600
  Default = m644
  File = {f1, f2}
  NoFile = NoFile
  Absent = Absent  Torn = Torn
  Kills = FALSE
INVARIANTS TargetWhole
