SPECIFICATION Spec
CONSTANTS
    Cwd <- MCCwd
    Checkouts <- MCCheckouts
    SvnDirs = {}
    Upper <- MCUpper
    CppHeaders <- MCCppHeaders
    Collation <- MCCollation
    ErrorCategories <- MCErrorCategories
    LegacyCategories <- MCLegacyCategories
    UnknownCategories <- MCUnknownCategories
    RuleOf <- MCRuleOf
    NamespaceLines = 2
    NormalTrigger = 1
    TestTrigger = 2
    Invocations <- MCInvocations
INVARIANT TypeOK
INVARIANT FiltersRestored
INVARIANT CountsReported
INVARIANT SuppressionsLocal
INVARIANT FirstBranchCounts
INVARIANT IncludesUnique
INVARIANT LongFunctionReported
INVARIANT ElidedIsCode
INVARIANT BracketsMatch
CHECK_DEADLOCK FALSE
