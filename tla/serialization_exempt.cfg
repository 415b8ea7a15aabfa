SPECIFICATION Spec
CONSTANTS
  i1 = i1
  i2 = i2
  audit = audit
  console = console
  ruleA = ruleA
  ruleB = ruleB
  function = function
  lookahead = lookahead
  auditName = auditName
  auditKey = auditKey
  consoleName = consoleName
  None = None
  Instances <- TwoInstances
  RuleSets <- AllRuleSets
  JsOnly = {function}
  Uncompilable = {lookahead}
  Throwing = {function}
  Transports <- TwoTransports
  NameOf <- Names
  KeyOf <- Keys
  Declared = {auditName}
  Addons = {"dual"}
  Entries = {"plain", "circular"}
  Unsafe = {}
INVARIANT
  ExemptSeesTruth
