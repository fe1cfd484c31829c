SPECIFICATION Spec
CONSTANTS
  Writers = {w1}
  Frames <- MCFrames
  Addresses <- MCAddresses
  Filters <- MCFilters
  Lists <- MCLists
  NullAddress <- MCNull
  TAP_MAX_MCAST_LIST = 2
  ULONG_MAX = 100
  Oids = {"address", "filter", "statistics", "moderation", "rcvOk"}
  ULongOids = {"filter"}
  StructureOids = {"statistics", "moderation"}
  FrameCountOids = {"rcvOk"}
  InfoSize <- MCInfoSize
  StructureSize <- MCStructureSize
  RevisionSize <- MCRevisionSize
  BufferLengths <- MCBufferLengths

INVARIANTS SearchInArray VerdictJustified NothingLeaks IndicatedWhole
