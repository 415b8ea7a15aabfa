SPECIFICATION Spec
CONSTANTS
  t1 = t1
  t2 = t2
  t3 = t3
  yearly = yearly
  ttl = ttl
  None = None
  Chars <- SomeChars
  Digits <- SomeDigits
  MaskChar = "*"
  Cap = 1
  Values <- AllValues
  Specs <- AllSpecs
  Texts <- AllTexts
  MaxLengths <- Lengths
  Patterns <- AllPatterns
  MaxTokens = 7
  MaxMisread = 6
  TransportName <- TransportNames
  Environments <- Envs
  Configs <- AllConfigs
  Console = t3
  Argument <- AllArguments
  Calls <- AllCalls
  Registry <- Policies
  NoYears = NoYears
  InlineYears = {3, NoYears}
  PolicyNames <- SomePolicyNames
  Taggings <- AllTaggings
  Days <- SomeDays
  HeaderNames <- Headers
  HeaderValue <- SomeHeaderValues
  Requests <- AllRequests
  Traceparent = "traceparent"
  Blank = "blank"
  Bad = "bad"
  Zero = "zero"
  Names <- SomeNames
  RawConfigs <- SomeConfigs
  Sensitive = {"token", "apiKey"}
  UrlKeys = {"url"}
INVARIANTS
  HidesExactlyTheRest
  TruncatesBetweenCharacters
  RefusesNestedQuantifiers
  RoutesFitEnvironment
  ObjectsReachMasking
  WindowMatchesLabel
  CallerIdKept
  SettingsTakeEffect
CHECK_DEADLOCK FALSE
