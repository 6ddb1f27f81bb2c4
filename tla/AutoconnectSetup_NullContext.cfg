SPECIFICATION Spec
INVARIANT NoNullSessionAccess
