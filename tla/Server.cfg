CONSTANTS
  Module = {eventbus, m1}
  Handler = {busHook, h1}
  Conn = {c1}
  BusModule = eventbus
  BusHook = busHook
SPECIFICATION FairServerSpec
INVARIANTS CleanStop HooksAfterRequests FailedStartStopsBus
PROPERTY ContractSpec
CHECK_DEADLOCK FALSE
