SPECIFICATION Spec
CONSTANTS
    SlabCount = 5
    SLAB_PAGE_SIZE = 8
    SLAB_CLASS_SIZES <- ClassSizes
    Requests = {3, 4, 8}
INVARIANTS
    AllocationsDisjoint
    AvailableListsExact
    SlabsAccounted
