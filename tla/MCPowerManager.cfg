SPECIFICATION FairPowerSpec
CONSTANT Codes <- SomeCodes
INVARIANTS PowerTypeOK FlagsAreTaken EM2StopsNothing
PROPERTIES LastByteIsNacked ImplementsMachine TemperatureArrives TransferEnds SignalsAreDelivered
