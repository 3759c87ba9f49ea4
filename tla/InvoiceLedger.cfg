CONSTANTS
    p1 = p1  p2 = p2
    i1 = i1  i2 = i2  i3 = i3
    k1 = k1  k2 = k2
    Session = {p1, p2}
    Invoice = {i1, i2, i3}
    Item = {k1, k2}
    None = None
    Setting <- Settings
    MaxPeriod = 2
    MaxQuantity = 2
    MaxSequence = 2
    MaxStock = 2
    MaxTerms = 2
    MaxSource = 2
    MaxMails = 1
SPECIFICATION Spec
SYMMETRY Symmetric
CONSTRAINT Focus
INVARIANTS
    TypeOK
    NumbersAreGapless
    CorrectionsExclude
    StockIsConserved
    ClaimsKeepTheirTerms
    
PROPERTIES
    FinalDocumentsAreFrozen
