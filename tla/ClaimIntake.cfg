SPECIFICATION LiveSpec
CONSTANTS
  k1 = k1  k2 = k2  phone = phone  a1 = a1 a2 = a2
  Attempts = {a1, a2}
  Keys = {k1, k2}
  Phones = {phone}
  Form <- MCForm
  MaxPhotos = 2
  Window = 2
  Retention = 1
  Nothing = Nothing
  MaxNow = 2
INVARIANTS
  ReceiptIsReal
  LateRetryGetsReceipt
  AcceptedApart
  FilesAccounted
  PhotosKept
PROPERTIES
  EveryAttemptEnds
  ExpiredPhotosGo
CHECK_DEADLOCK FALSE
