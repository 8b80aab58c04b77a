\* Two processes over the same files, killed or failing at any step, every command.
SPECIFICATION Spec
CONSTANTS
  g1 = g1  enc = enc
  Wordings = {t1}
  Group = {g1}
  Key = {a, b}
  Proc = {p1, p2}
  Text <- MCText
  TextFor <- MCTextFor
  Lookalike <- MCLookalike
  Envs <- EnvNone
  Commands <- AllCommands
  MaxPairs = 2
  NoKey = NoKey  BadKey = BadKey  NoText = NoText  Every = Every
  Faults <- AllCommands
  GitAvailable = TRUE
  RulesBefore = {"none", "negated"}
SYMMETRY Symmetry
INVARIANTS ValuesAuthentic DeliveredFirst IgnoredFirst
