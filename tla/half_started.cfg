SPECIFICATION Spec
CONSTANTS
  a1 = a1  a2 = a2  b1 = b1
  c1 = c1  c2 = c2
  k1 = k1  k2 = k2  k3 = k3
  Main = Main
  NoLayer = NoLayer
  Calls = {k1, k2}
  Charts = {c1, c2}
  Layers <- MCLayers
  Owner <- MCOwner
  Stage <- MCStage
  ChartOf <- SerialCalls
  Detached = {a1, a2, b1}
  AutoRemove = {}
  Faults = {"cancel"}
PROPERTIES
  FailedStartTakesDown
