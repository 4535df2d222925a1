SPECIFICATION RegistrySpec
CONSTANTS
  Names <- MCNames
  Extensions <- MCExtensions
  Catalog <- MCCatalog
  Shebangs <- MCShebangs
  Layouts <- MCLayouts
  CommandLines <- MCCommandLines
  NoWord = NoWord
  Blank = Blank
  Unset = Unset
  Broken = Broken
INVARIANT RegistryTypeOK
INVARIANT RejectedIffContradictory
INVARIANT Precedence
INVARIANT ResolvesToDeclared
CHECK_DEADLOCK FALSE
