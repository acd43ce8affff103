CONSTANTS
  FrameResources = 1
  Images = 3
  Slots = 4
  MaxRecreate = 1
SPECIFICATION FairSpec
INVARIANTS FrameResourceDone FenceWillSignal SubmitWaitsForItsImage NothingDestroyedInUse
PROPERTIES FramesFinish
