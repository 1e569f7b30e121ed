SPECIFICATION Spec
CONSTANTS
  SizeOf <- MCSizeOf
  MaxSize = 3
  SendBuf = 3
  RxBuf = 3
  WireCap = 2
  Kinds = {"vhci", "vhost", "virtio"}
  PendingMax = 2
  Wrap = 4
  MaxBufs = 1
  CallEvents = {0, 1, 2}
  MaxFrames = 3
  MaxEvents = 3
  MaxFaults = 1
INVARIANTS
  StreamIsFramed
  ReadHasRoom
PROPERTIES
  StreamIsFifo
  GuestQueueIsFifo
  StreamDrains
  BuffersAreUsed
  Reconnects
