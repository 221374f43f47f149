SPECIFICATION Spec
CONSTANTS
  NoFile = NoFile
  Default = Default
  Directory <- Files
INVARIANTS FCBProper OnlyTestDeleted ShownTrue
