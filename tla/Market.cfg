SPECIFICATION Spec
CONSTANTS
    Kapt <- MCKapt
    Partial <- MCPartial
    Sales <- MCSales
    Rents <- MCRents
    Names <- MCNames
    Norm <- MCNorm
    Numbers <- MCNumbers
    Ratio <- MCRatio
    Within <- MCWithin
    NoName = ""
    NoLot = ""
    Facts <- MCFacts
    Bare <- MCBare
    SchoolLike <- MCSchoolLike
    IndividualMax = 2
    MarkerCap = 3
    Queries <- MCQueries
INVARIANTS
    LinksSound
    MatchIsReference
    ListMapAgree
    MostRecent
    EveryTradeShown
    DemoteNotExclude
PROPERTIES
    LinksStick
