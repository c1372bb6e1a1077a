CONSTANTS
    None = None
    MaxEvents = 2
SPECIFICATION Spec
INVARIANTS DeadWriterClosesGate
