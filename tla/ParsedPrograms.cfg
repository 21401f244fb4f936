\* Programs of every family; a derivation ends.
SPECIFICATION Spec
CONSTANT Families <- MCFamilies
INVARIANT ReadsTheLanguage
CHECK_DEADLOCK FALSE
