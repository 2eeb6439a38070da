\* One item, three manifests: one file is changed, one is dropped and comes back.
SPECIFICATION Spec
CONSTANTS
    Ids = {i1}
    f1 = f1
    f2 = f2
    a = a
    b = b
    Content = {a, b}
    None = None
    Paths = {f1, f2}
    MaxGid = 3
    Manifest <- MCManifest
INVARIANTS
    Consistent
PROPERTIES
    GidNeverGoesBack
