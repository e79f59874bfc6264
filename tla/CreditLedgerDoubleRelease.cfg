\* PostgreSQL deployment: one account, a fixed-price and a token order, two
\* concurrent release transactions.
SPECIFICATION Spec
CONSTANTS
    u1 = u1
    o1 = o1  o2 = o2
    c1 = c1  c2 = c2
    User = {u1}
    Order = {o1, o2}
    OwnerOf <- OneOwner
    TokenOrder = {o2}
    Call = {c1, c2}
    Price = {1, 2}
    Usage = {0, 3}
    GrantKey = {"signup"}
    RedeemCode = {"code"}
    Adjustment <- Withdrawal
    DepositUnit = 2
    MaxDeposit = 4
    Isolation = "readCommitted"
PROPERTY FinalIsFinal
SYMMETRY CallSymmetry
\* Once every order is final and every deposit made, nothing is left to do.
CHECK_DEADLOCK FALSE
