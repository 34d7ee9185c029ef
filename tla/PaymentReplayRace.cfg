CONSTANTS
    p1 = p1
    p2 = p2
    o_topup = o_topup
    o_topup2 = o_topup2
    o_test = o_test
    o_wallet = o_wallet
    o_wallet2 = o_wallet2
    yayasan = yayasan
    referrer = referrer
    u1 = u1
    u2 = u2
    Procs = {p1, p2}
    Users = {u1}
    Parties = {yayasan, referrer}
    Orders = {o_topup, o_test, o_wallet}
    KindOf <- MC_KindOf
    OwnerOf <- MC_OneOwner
    Amount <- MC_Amount
    PartiesOf <- MC_PartiesOf
    MaxTx = 5
SPECIFICATION Spec
INVARIANTS
    EffectOnce
