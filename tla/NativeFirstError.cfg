\* The documented rule that the writer stops at its first error.
CONSTANTS
  Half = 128
  Views <- MCViews
  Sizes <- MCSizes
SPECIFICATION NativeSpec
PROPERTIES
  FirstErrorKept
