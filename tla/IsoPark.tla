------------------------------ MODULE IsoPark ------------------------------
(***************************************************************************)
(* What cancelling one isochronous endpoint may do while the controller is *)
(* still active: the controller completes and parks banks, software moves  *)
(* the selector off an inactive bank, and releases the endpoint when both  *)
(* banks are inactive.  IsoBanks builds on these steps, IsoCancel          *)
(* implements them.                                                        *)
(***************************************************************************)
EXTENDS Integers

VARIABLES active,   \* [Bank -> BOOLEAN]
          inuse,    \* the selected bank
          claimed   \* software owns the banks

parkVars == <<active, inuse, claimed>>

Bank == 0..1

Init == /\ active \in [Bank -> BOOLEAN]
        /\ inuse \in Bank
        /\ claimed \in BOOLEAN
        /\ \A b \in Bank : active[b] => claimed /\ active[inuse]

Complete == /\ active[inuse]
            /\ active' = [active EXCEPT ![inuse] = FALSE]
            /\ inuse' = 1 - inuse
            /\ UNCHANGED claimed

Park == /\ active[inuse]
        /\ active' = [active EXCEPT ![inuse] = FALSE]
        /\ UNCHANGED <<inuse, claimed>>

\* The bank selected next may have become inactive since it was looked at.
Select == /\ ~active[inuse]
          /\ inuse' = 1 - inuse
          /\ UNCHANGED <<active, claimed>>

Release == /\ claimed
           /\ \A b \in Bank : ~active[b]
           /\ claimed' = FALSE
           /\ UNCHANGED <<active, inuse>>

Next == Complete \/ Park \/ Select \/ Release

Spec == Init /\ [][Next]_parkVars
=============================================================================
