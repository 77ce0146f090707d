\* Two handlers at a time and three or four in all, of one component.
SPECIFICATION Spec
CONSTANTS
    Proc = {p, q}
    MaxJobs = 4
    CartVariant = {v}
    Style = {s, z}
    Delta <- Deltas
    MaxLines = 3
    MaxPetPhotos = 2
    MaxUploads = 4
    MaxPbnPerUser = 1
    MaxPaintings = 3
    MaxArtifacts = 5
    Product = {a, b}
    Variant = {v, w}
    Formatted = {v}
    PrintArt = PrintArt
    NoKind = NoKind
    Unknown = Unknown
    MaxChanges = 1
    Config = {c, d}
    MaxFiles = 3
    MaxGenerations = 2
    portrait = portrait
    trial = trial
    ann = ann
    bob = bob
    Generation = {portrait, trial}
    Customer = {ann, bob}
    AdminTests = {trial}
    Production = Production
    OwnerOf <- Owners
    ImageCost = {2}
    RateOn <- Rates
    MaxDays = 1
    TTL = 1
    Missing = Missing
SYMMETRY Symmetry
INVARIANTS
    CartAddsUp
    PhotosBounded
    PhotosHaveFiles
    PaintingsInOrder
    SyncMirrorsShopify
    OnePbnProduct
    StyleHasItsFiles
    ReadersAgree
PROPERTIES
    OrderedDesignKept
    KindsComeFromShopify
    UsesOutliveUnforced
    ConversionsKeepUp
CHECK_DEADLOCK FALSE
