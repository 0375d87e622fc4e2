CONSTANTS
  a = a
  b = b
  Context = {a, b}
  Input <- SomeInputs
  Nothing = Nothing
  Capacity = 2
  ContextKeysCapacity = 1
  MaxInputs = 2
  MaxReports = 1
  MaxVain = 2
SPECIFICATION Spec
INVARIANTS OnceInOrder NothingLost IndexedBeforeUse
PROPERTIES NothingAfterRefusal EventuallyPosted FlushSettles
