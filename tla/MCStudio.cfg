\* Two administrators on one item, four requests, and as many files as those
\* can store; or one computation of sizes.
SPECIFICATION Spec
CONSTANTS
    Proc = {p, q}
    MaxJobs = 4
    MaxKeys = 7
    HasShopify = TRUE
    Shopify = Shopify
    Nothing = Nothing
    Sizes <- SourceSizes
    Formats <- PrintFormats
    Targets = {0, 150, 300, 450, 600}
    Factors = {0, 100, 275, 800}
    Unknown = Unknown
SYMMETRY Symmetry
INVARIANTS
    RowsPointToFiles
    PrintsSourceOrBase
    UpscaleFits
    AdjustKeepsResolution
PROPERTY OriginalsSurvive
CHECK_DEADLOCK FALSE
