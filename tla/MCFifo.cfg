CONSTANTS
    Size = 4
    Object = {o1, o2}
    NULL = NULL
SPECIFICATION FairSpec
INVARIANTS TypeOK PushReleasesNothing
PROPERTIES IsBoundedQueue EverythingIsPopped
