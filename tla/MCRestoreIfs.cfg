CONSTANTS
  ImgSize = 3
  Images <- MCImages
  Headers <- MCHeaders
  Options <- MCOptions
  MaxBootable = 2
  ImagePaddr = 10
  StartupSize = 1
  Width = 1024
  RamSize = 14
  TempSize = 3
  BssSize = 1
  Ifs2Size = 2
  Ifs2Dst = 7
SPECIFICATION Spec
CHECK_DEADLOCK FALSE
INVARIANTS ImagesIntact SavedRight
