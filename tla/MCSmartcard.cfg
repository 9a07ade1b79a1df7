CONSTANTS
  opensc = opensc
  ykcs11 = ykcs11
  fido2 = fido2
  piv = piv
  sk = sk
  Cards <- MCTwoCards
  SecurityKeys <- MCSecurityKeys
  Key <- MCTwoKeys
  MaxLocks = 2
  Mortal = TRUE
SPECIFICATION FairSpec
INVARIANTS
  LockedKeysGo
  PinGoesWithLock
PROPERTY LoadsEnd
