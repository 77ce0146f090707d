\* What the comment of updateItemPrintImage says, on the smallest item.
SPECIFICATION Spec
CONSTANTS
    Proc = {p, q}
    MaxJobs = 4
    MaxKeys = 7
    HasShopify = TRUE
    Shopify = Shopify
    Nothing = Nothing
    Sizes <- SourceSizes
    Formats <- PrintFormats
    Targets = {0, 150, 300, 450, 600}
    Factors = {0, 100, 275, 800}
    Unknown = Unknown
SYMMETRY Symmetry
INVARIANT PrintsSource
CHECK_DEADLOCK FALSE
