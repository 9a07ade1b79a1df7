CONSTANTS
  opensc = opensc
  ykcs11 = ykcs11
  fido2 = fido2
  piv = piv
  sk = sk
  Cards <- MCCards
  SecurityKeys <- MCSecurityKeys
  Key <- MCKey
  MaxLocks = 1
  Mortal = FALSE
SPECIFICATION Spec
INVARIANT
  UnlockedCardIsLoaded
