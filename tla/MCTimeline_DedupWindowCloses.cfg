CONSTANT U16Mod = 65536
SPECIFICATION Spec
INVARIANTS DedupWindowCloses
