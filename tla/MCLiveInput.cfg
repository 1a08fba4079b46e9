SPECIFICATION Spec
CONSTANTS
  hold = hold foot = foot tap = tap knob = knob p = p q = q osc = osc keyboard = keyboard
  wash = wash flash = flash level = level n1 = n1 n2 = n2 any = any like = like None = None
  Keyboard = keyboard
  Consoles <- MCConsoles
  Starting <- MCStarting
  Sendable <- MCSendable
  MidiPorts = {p, q}
  OscPorts = {osc}
  Finds <- MCFinds
  Keys = {n1}
  Session = 2
  Full = 1
  MaxTouches = 3
  MaxArms = 2
CHECK_DEADLOCK FALSE
INVARIANTS
  HeldAlike
  NothingStuck
  EvaluatorsAgree
PROPERTIES
  CarriesOver
