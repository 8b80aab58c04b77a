\* One command at a time, killed or failing at any step, with rotation.
SPECIFICATION Spec
CONSTANTS
  g1 = g1  enc = enc
  Wordings = {t1}
  Group = {g1}
  Key = {a}
  Proc = {p1}
  Text <- MCText
  TextFor <- MCTextFor
  Lookalike <- MCLookalike
  Envs <- EnvNone
  Commands <- AllCommands
  MaxPairs = 3
  NoKey = NoKey  BadKey = BadKey  NoText = NoText  Every = Every
  Faults <- AllCommands
  GitAvailable = TRUE
  RulesBefore = {"none", "effective", "negated"}
INVARIANTS ReadableAtRest
