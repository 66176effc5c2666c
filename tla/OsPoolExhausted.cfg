\* The documented meaning of NULL, with the smallest pool that shows it.
CONSTANTS
    PoolSz = 3
    ItemWords = 1
    Clients = {t1}
    NULL = NULL
SPECIFICATION PoolSpec
INVARIANT NullMeansExhausted
