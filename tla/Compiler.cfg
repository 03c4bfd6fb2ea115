SPECIFICATION Spec
CONSTANTS
  Null = Null
  None = None
  NoTable = NoTable
  HourSlots = 2
  DayHours = 4
  WeekDays = 3
  MonthDays = 4
  YearMonths = 2
  MaxSearchDays = 13
  Keeps <- KeepsOne
  Breaks <- BreaksTwo
  Sources <- Deliveries
  Validations <- DeclaredValidations
  Modes = {"atomic", "incremental"}
  MaxRuns = 2
INVARIANTS
  ProductKeepsRules
  CompositionIsFaithful
  EstateIsSound
  CurationIsFaithful
  ShapesAreFaithful
  DeclarationsAreSound
  LandingIsSound
PROPERTIES
  RerunChangesNothing
CHECK_DEADLOCK FALSE
