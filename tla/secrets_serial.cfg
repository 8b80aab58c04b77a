\* One command at a time, killed or failing anywhere but in a rotation; private keys may come from the environment.
SPECIFICATION Spec
CONSTANTS
  g1 = g1  enc = enc
  Wordings = {t1, enc}
  Group = {g1}
  Key = {a, b}
  Proc = {p1}
  Text <- MCText
  TextFor <- MCTextFor
  Lookalike <- MCLookalike
  Envs <- EnvMany
  Commands <- AllCommands
  MaxPairs = 3
  NoKey = NoKey  BadKey = BadKey  NoText = NoText  Every = Every
  Faults <- AllButRotate
  GitAvailable = TRUE
  RulesBefore = {"none", "effective", "negated"}
INVARIANTS TypeOK RecoverableAtRest AlwaysLoadable
PROPERTIES VaultSpec BulkAllOrNothing RotatorCanRead
