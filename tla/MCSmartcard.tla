----------------------------- MODULE MCSmartcard ----------------------------
(* Model checking of SmartcardCoordinator, and of the AppAgent under it. *)
EXTENDS SmartcardCoordinator

CONSTANTS opensc, ykcs11, fido2,   \* two modules of one card, a security key
          piv, sk                  \* the key each of them loads

MCCards == {opensc, ykcs11, fido2}
MCSecurityKeys == {fido2}
MCKey == [c \in MCCards |-> IF c = fido2 THEN sk ELSE piv]

MCTwoCards == {opensc, fido2}
MCTwoKeys == [c \in MCTwoCards |-> MCKey[c]]
=============================================================================
