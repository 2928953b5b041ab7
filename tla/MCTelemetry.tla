---------------------------- MODULE MCTelemetry -----------------------------
EXTENDS Telemetry
MCEvents == {"tunnel-error", "dns"}
MCAlerts == {"tunnel-error"}
MCCounted == {"dns"}
=============================================================================
