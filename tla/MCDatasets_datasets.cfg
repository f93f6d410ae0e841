SPECIFICATION Spec
CONSTANTS
  HeadLen = 12
  BufferSize = 4108
  RoomRange = 256
  FilenameSize = 255
  Objects <- SomeObjects
  Announcements <- SomeAnnouncements
  NoObject = NoObject
  Stamps <- SomeStamps
  NoTime = NoTime
  StaleBytes = {0, 50}
INVARIANTS
  WalkEnds
  ObjectTold
  AnnouncedTaken
  CopyKept
