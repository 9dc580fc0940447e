CONSTANTS Input = in Deref = at
CONSTANT Programs <- LastInput
SPECIFICATION Spec
INVARIANT PhiInputsDefined
