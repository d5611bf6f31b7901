SPECIFICATION Spec
CONSTANTS
    Kapt <- MCKapt
    Partial <- MCPartial
    Sales <- MCSales
    Rents <- MCRents
    Names <- MCNames
    Norm <- MCNorm
    Numbers <- MCNumbers
    Ratio <- MCRatio
    Within <- MCWithin
    NoName = ""
    NoLot = ""
INVARIANTS
    SameKind
