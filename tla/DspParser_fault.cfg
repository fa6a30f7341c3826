\* One byte lost or altered anywhere.
CONSTANTS
  Payloads <- SomePayloads
  NoiseBytes <- Noise
  StateSwap = 5
  MaxFaults = 1
SPECIFICATION FairSpec
INVARIANTS TypeOK WholeReplyDelivered
PROPERTY RecoversUnlessWedged
