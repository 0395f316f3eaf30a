SPECIFICATION Spec
CONSTANTS
    None = None
    Model <- MCModel
    StartsWith <- MCStartsWith
    Contains <- MCContains
    Deployment <- MCDeployment
    Catalog <- MCCatalog
    Question <- MCQuestion
INVARIANTS TypeOK KeyMatchesModel CatalogModelsArePriced AnyKeyWorks NearestTier HarderIsNotWeaker
