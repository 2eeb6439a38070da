\* Pages: two handlers, two languages, three pages with every cursor; caches of
\* one entry, two requests.  Previews: two handlers, two
\* images, one or two tokens, a cache of two images or three bytes, three requests.
SPECIFICATION CachesSpec
CONSTANTS
    Handlers = {h1, h2}
    Langs = {en, de}
    NumPages = 3
    QueryTTL = 1
    ItemTTL = 2
    MaxQueries = 1
    MaxItems = 1
    MaxNext = 1
    MaxAsks = 2
    MaxTime = 2
    None = None
    Viewers = {v1, v2}
    Sizes = {1, 2, 3}
    MaxMedia = 2
    MaxPreviews = 2
    MediaBudget = 3
    Slots = {1, 2}
    MediaTTL = 1
    Timeout = 1
    MaxFetches = 3
INVARIANTS
    PagesConsistent
    RightPage
    MediaConsistent
PROPERTIES
    NothingStale
    PreviewEnds
