\* The timer's ticks and a manual command, over two sittings.
SPECIFICATION Spec
CONSTANTS
  Items = {i1, i2, i3}
  Window = 2
  At = 1
  Cooldown = 1
  Target = 3
  Commands = {c1}
  MaxSittings = 2
  MaxClock = 1
INVARIANTS NothingAddedAgain WithinWindow CountsOnlyHanded CooldownApart
PROPERTIES ReplacedTickIsSilent
SYMMETRY Symmetry
CHECK_DEADLOCK FALSE
