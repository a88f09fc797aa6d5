CONSTANT MaxEvents = 3
SPECIFICATION FairSpec
INVARIANTS NoPhantomTick NoPhantomPress OneTickAfterStop
PROPERTIES ImplementsTickLatch TickServed PressServed LedsSerialise
