SPECIFICATION Spec
CONSTANTS
    x = x
    y = y
    Ids <- MCIds
    Contents <- MCContents
    Example <- MCExample
INVARIANT
    BannerOnlyOnDemo
