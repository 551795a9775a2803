SPECIFICATION Spec
CONSTANTS
  Boundary = 1
  Margin = 1
  Chunk = 5
  AccSize = 10
  Forms <- BrowserForms
INVARIANTS
  FileWritten
  AccFits
  Bootable
PROPERTIES
  ComesBack
