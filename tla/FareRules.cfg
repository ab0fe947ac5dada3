\* Every text of one fare basis; up to four fare bases with three texts each.
CONSTANTS
    NoValue = NoValue
    Quotes <- MCQuotes
    Documents <- MCDocuments
SPECIFICATION RulesSpec
INVARIANTS AgentAndClientAgree RuleBeatsBrand PermissionHasASource
CHECK_DEADLOCK FALSE
