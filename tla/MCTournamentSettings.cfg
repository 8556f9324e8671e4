SPECIFICATION Spec
CONSTANTS
  Loadable <- MCLoadable
  Defaults <- MCDefaults
  Entries <- MCEntries
  SpinMax <- MCSpinMax
  LengthMax <- MCLengthMax
  MaxInt <- MCMaxInt
PROPERTIES
  ValidLimitsPass
  ApplyIsAtomic
  UntouchedIsUnchanged
