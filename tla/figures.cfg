SPECIFICATION Spec
CONSTANTS
    Null = Null
    Unasked = Unasked
    Tables <- SomeTables
INVARIANTS PeriodAndPasses PricesAddUp ListAddsUp
CHECK_DEADLOCK FALSE
