\* The functions of configurations and of event tables, over bounded inputs.
CONSTANTS
  Unit = 4
  DefaultCost = 4
  DefaultTiers <- MCDefaultTiers
  TopKeys = 1
  Scale = 12
SPECIFICATION FSpec
INVARIANTS PromptsAdmitted WarningTrue SlotsStayExclusive
INVARIANTS CurvesExact SummariesTrue ViewsAgree
CHECK_DEADLOCK FALSE
