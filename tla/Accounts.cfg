CONSTANTS
    AdminOps = {"approve", "reject", "disable", "enable", "promote", "demote"}
    Accounts = {root, a1, a2}
    Root = root
    Tokens = {t1, t2}
    Requests = {r1, r2}
    NoAccount = NoAccount
SPECIFICATION InstanceSpec
INVARIANTS IInv NobodyEntersUnapproved SerialAudit
PROPERTIES SerialGuards
SYMMETRY Symmetry
CHECK_DEADLOCK FALSE
