SPECIFICATION Spec
CONSTANTS
  USD = "USD"
  EUR = "EUR"
  Currencies = {"USD", "EUR", "GBP", "INR", "ZAR"}
  Precision = 1000
  Published <- SomeRates
  Seeds <- SomeSeeds
  MonthLength <- Months2026
  Ids <- SomeIds
  NoId = 0
  Categories = {"rent", "gym", "electronics", "salary", "transfer"}
  FixedCategories = {"rent", "gym"}
  VariableCategories = {"electronics"}
  Words = {"plain", "bonus", "final", "gig", "internal transfer"}
  Bills <- SomeBills
  Worlds <- SomeWorlds
INVARIANTS
  CountedOnce
  ForecastComesTrue
  GateSuffices
  ForeignPlansAddUp
  StreamsAgreeWithForecast
