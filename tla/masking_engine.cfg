SPECIFICATION Spec
CONSTANTS
  n1 = n1
  n2 = n2
  n3 = n3
  password = password
  card = card
  first = first
  long = long
  head = head
  builtin = builtin
  own = own
  refused = refused
  function = function
  NoRule = NoRule
  Nodes <- AllNodes
  Arrays = {n3}
  Slots <- AllSlots
  Rules <- AllRules
  Defaults <- DefaultRules
  Bounded <- BoundedTo
  Matches <- MatchesOf
  NativeMatches <- MatchesOf
  Unsafe = {refused}
  Functions = {function}
  Stateful = {}
  Linear = {builtin, own}
  Root = n1
  Heaps <- AllHeaps
  CacheMax = 1
  MaxDepth = 3
  MaxRules = 2
INVARIANTS
  CacheCoherent
  NoEndlessDescent
  MaskedThroughout
  EnginesAgreeOnEntry
