\* Two writers, killed or failing anywhere, and a reader.
SPECIFICATION Spec
CONSTANTS
  Writer = {w1, w2}
  Reader = {r1}
  Content = {c1, c2}
  Old = Old
  NoContent = NoContent
  Size = 2
  Mode = {m600, m644, m640}
  Private = m600
  Default = m644
  File = {f1, f2, f3, f4}
  NoFile = NoFile
  Absent = Absent  Torn = Torn
  Kills = TRUE
SYMMETRY Symmetry
INVARIANTS TargetWhole NeverExposed NoLitter
PROPERTIES RegisterSpec ModeKept
