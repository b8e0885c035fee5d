\* A ring of two bytes and room for two in the kernel; four bytes down in
\* pushes of up to three, two bytes up.
CONSTANTS
  Capacity = 2
  Room = 2
  MaxChunk = 3
  MaxSeq = 4
  MaxTyped = 2
SPECIFICATION Spec
INVARIANT OneStray
PROPERTIES ToolToDevice DeviceToTool NeverFrozen
CHECK_DEADLOCK FALSE
