SPECIFICATION Spec
CONSTANTS
    NoHash = NoHash
    NoInode = NoInode
    Nobody = Nobody
    Uploader = {u1, u2}
    Hash = {h1}
    Slot = {s1}
    Inode = {i1, i2, i3}
INVARIANT VisibleBlobsWhole
