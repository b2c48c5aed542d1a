\* The code's 32 buckets and 10 elements per bucket are 1 and 2 here, so that
\* tables double with few elements.
CONSTANTS
    x1 = x1  x2 = x2  x3 = x3  x4 = x4  x5 = x5  x6 = x6
    Null = Null
    Elems = {x1, x2, x3, x4, x5, x6}
    KeyOf <- Keys
    HashOf <- Hashes
    Buckets = 1
    Thresh = 2
SPECIFICATION Spec
INVARIANTS TypeOK HASH_FSCK FindsExactly
PROPERTY ImplementsTable
