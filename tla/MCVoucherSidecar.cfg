\* Two requests over two vouchers, the first with a deadline.
CONSTANTS
    r1 = r1
    r2 = r2
    s1 = s1
    s2 = s2
    NumVouchers = 2
    Perishable = {1}
    Requests <- MCRequests
    Signers <- MCSigners
    Unlisted = Unlisted
    NoSigner = NoSigner
    NoVoucher = NoVoucher
SPECIFICATION Spec
SYMMETRY Symmetric
INVARIANTS
    TypeOK
    OneHolderPerSigner
    SentVouchersAccountedFor
    ConsumedOfferedOnlyWhenCrossed
PROPERTIES
    WrittenConsumptionSurvives
    UsableVoucherNeverDropped
