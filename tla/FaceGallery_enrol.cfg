\* The two threads of one channel; saving may fail and the program restart at
\* any point.
SPECIFICATION Spec
CONSTANTS
  ann = ann
  bob = bob
  Threads = {offload, appsink}
  Persons = {ann, bob}
  Tracks = {0, 1}
  Shows <- MCShows
  MaxId = 4
  Faults = {"save_fails", "load_fails"}
SYMMETRY ThreadSymmetry
INVARIANTS
  FaceGalleryTypeOK
  OneIdOnePerson
  DuplicatesBounded
