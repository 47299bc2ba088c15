SPECIFICATION Spec
CONSTANTS
  orion = orion
  lyra = lyra
  Agent = {orion, lyra}
  Wakeable = {orion}
  Human = human
  All = ALL
  MaxMessages = 2
PROPERTIES
  AddressedIsWoken
