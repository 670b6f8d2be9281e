CONSTANTS
    s = s
    p = p
    d1 = d1
    d2 = d2
    Transfers = {"x"}
    Dests = {d1, d2}
    Self = s
    Setups <- MCSetups
    Threads = {t1, t2}
    Funds = 3
    Amount = 2
    MaxAdds = 2
SPECIFICATION FairSpec
INVARIANTS TypeOK CreditsFollowDebits ConfirmedIsVouched
PROPERTY DebitedConfirms
CHECK_DEADLOCK FALSE
