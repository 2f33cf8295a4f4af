SPECIFICATION Spec
CONSTANTS
  Keys = {"key"}
  Fields = {"f", "g"}
  Texts = {"text"}
  Others = {"True"}
  NoValue = "none"
  Clients = {c, d}
  Used <- UsedCalls
  MaxLate = 1
SYMMETRY StoreSymmetry
INVARIANTS ExpiryWasAsked
PROPERTIES KeepsPromise
