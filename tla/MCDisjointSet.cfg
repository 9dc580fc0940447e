CONSTANT Elements = {a, b, c, d}
SPECIFICATION Spec
INVARIANTS SetsSound
PROPERTIES HeldIdsNeverSwitch ImplementsPartition
