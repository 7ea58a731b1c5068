\* Both ways of installing, any number of setups one after the other, each
\* with a fault at any call or cut off anywhere.
SPECIFICATION Spec
INVARIANT TypeOK
INVARIANT SuccessIsTrue
INVARIANT RetryHeals
INVARIANT UninstallIsComplete
INVARIANT NeverDangles
