\* Two players, a tab, two sittings and three events.
CONSTANTS
  Devices = {"shield", "den"}
  Clients = {"tab"}
  MaxSittings = 2
  MaxEvents = 3
SPECIFICATION Spec
PROPERTY FramesAreCurrent
PROPERTY StaleFramesGo
