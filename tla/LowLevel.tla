------------------------------ MODULE LowLevel ------------------------------
(***************************************************************************)
(* esp_cherryusb.c: the PHY and the interrupt of the controller, which the *)
(* stack takes when it is initialised and gives back when it is not used   *)
(* any more.  Device and host mode share the two handles and go through    *)
(* the same steps.  An error is only logged: the stack goes on without.    *)
(***************************************************************************)
EXTENDS Integers

VARIABLES
  phy,   \* s_phy_handle is not NULL
  intr   \* s_interrupt_handle is not NULL

NothingHeld == phy = FALSE /\ intr = FALSE

\* usb_new_phy fails, always so when the PHY is in use; or esp_intr_alloc fails
\* and the PHY stays; or both succeed.
LowLevelInit ==
  \/ UNCHANGED <<phy, intr>>
  \/ ~phy /\ phy' = TRUE /\ intr' \in {intr, TRUE}

\* usb_low_level_deinit looks at each handle on its own and gives back the one that
\* is held.
FreeInterrupt == IF intr THEN intr' = FALSE ELSE UNCHANGED intr
FreePhy == IF phy THEN phy' = FALSE ELSE UNCHANGED phy

LowLevelDeinit == FreeInterrupt /\ FreePhy
=============================================================================
