SPECIFICATION Spec
CONSTANTS
  MaxPrice = 12
  Tick = 4
  DefaultTicks = {2, 4}
  Buffer = 1
  Trail = 3
  Slip = 2
INVARIANTS
  TypeOK
  

  
