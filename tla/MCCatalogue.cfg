\* Every part of the catalogue with the smallest instance that shows its hazards,
\* and carts without tokens, edited during a submission, under changing prices.
CONSTANTS
    Carts = {c1}
    Skus = {s1, s2}
    Requests = {r1, r2}
    Prices = {1, 2}
    OpeningPrice <- OneOfEach
    OpeningStock <- TwoOfEach
    UsageLimit = 1
    MinOrder = 1
    TokenStored = {}
    Repriced = {s1}
    Edited = {c1}
    MaxFills = 1
    MaxQuantity = 2
    Axes = {1, 2}
    OptionValues = {11, 21, 22}
    AxisOf <- EachAxis
    LabelsOf <- EachLabels
    LegacyVariants = {l1}
    MaxAxes = 2
    MaxVariantEdits = 3
    VariantEditors = {e1}
    Unread = Unread
    Categories = {1, 2, 3, 4}
    Attributes = {t1}
    Root = Root
    Unused = Unused
    Deleted = Deleted
    NoEntry = NoEntry
    MaxSchemaEdits = 4
    ProductIds = {1, 2}
    Clerical = {r1, r2}
    PlanLimit = 1
    Nowhere = Nowhere
    Pictures = {1, 2}
    Keepers = {r1, r2}
    NoPicture = NoPicture
    Codes = {1, 2}
    Facets = {t1}
    Families <- EachFamily
    Installers = {r1, r2}
    MaxOwnEdits = 1
    MaxSwitches = 1
    MaxBranches = 4
    Tables = {"page", "link", "menu", "item", "badge", "logo"}
    Rows = {1, 2, 3}
    Keys = {k1, k2}
    Uploads = {1, 2, 3}
    Editors = {r1, r2}
    MaxRowEdits = 5
    Nothing = Nothing
    Placements = {1, 2, 3, 4}
    Assets = {1, 2}
    MediaFiles = {1, 2}
    Designers = {r1, r2}
    MaxMediaEdits = 5
    NoMedia = NoMedia
SPECIFICATION PackSpec
SYMMETRY Alike
CHECK_DEADLOCK FALSE
INVARIANTS
    StockMatchesOrders
    
    CatalogueSound
    EntrySound
    GallerySound
    TemplatesSound
    ContentSound
    MediaSound
