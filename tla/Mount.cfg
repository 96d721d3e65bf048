SPECIFICATION Spec
CONSTANTS
    system = system
    usage = usage
    x = x
    net = net
    users = users
    active = active
    meta = meta
    Dir = Dir
    Component = {system, usage, x, net, users, active, meta}
    Plugins <- MCPlugins
    Sampled <- MCSampled
    MetaPath <- MCMetaPath
    Here = Here
    InRoot = InRoot
    None = None
CHECK_DEADLOCK FALSE
INVARIANTS StatusIsTruthful ServesWhatItSetUp
PROPERTIES  SignalStops
