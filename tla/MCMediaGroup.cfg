CONSTANTS
  f1 = f1
  f2 = f2
  i1 = i1
  i2 = i2
  Photos <- MCPhotos
  Instances <- MCInstances
  MaxArrivals <- MCMaxArrivals
  MAX_GROUP_SIZE = 2
  MAX_GROUP_IMAGES = 2
  MaxFaults = 1
SPECIFICATION FairSpec
INVARIANTS TypeOK AnsweredOnce TakenPerArrival BufferedOnce NoPhotoLost FlushInSight
PROPERTIES EventuallyHandled
\* When every photo has come and was handled nothing happens any more.
CHECK_DEADLOCK FALSE
