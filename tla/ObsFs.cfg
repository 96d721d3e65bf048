SPECIFICATION Spec
CONSTANTS
    users = users
    active = active
    services = services
    x = x
    y = y
    z = z
    Static <- MCStatic
    Prefix <- MCPrefix
    Dynamic <- MCDynamic
    Unlisted <- MCUnlisted
    ListedOnly <- MCListedOnly
    Unreadable <- MCUnreadable
    Alias <- MCAlias
    Credulous <- MCCredulous
    MaxInode = 8
    None = None
INVARIANTS HandlesStayGood ListedIsFound FilesAreReadable
PROPERTIES DrawnForCause UsesInodeTable KindNeverChanges
