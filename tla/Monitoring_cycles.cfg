SPECIFICATION Spec
CONSTANTS
  Deliveries = {d1}
  MaxAttempts = 2
  MinSamples = 2
  MaxCrashes = 1
  MaxInterventions = 1
  Handled = {"blocked"}
  None = None
INVARIANTS PostsCounted SuspensionAlerted
PROPERTIES Hysteresis DeliveredIsFinal ReviewEnforced AlertsSettled
