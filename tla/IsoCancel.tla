----------------------------- MODULE IsoCancel -----------------------------
(***************************************************************************)
(* omni_usb_iso_cancel: taking the isochronous endpoints back from the     *)
(* controller.  Both endpoints are parked in one loop that reads EPSKIP,   *)
(* EPINUSE and the descriptors one after the other while the controller    *)
(* goes on completing transactions in any bank that is still active.       *)
(*                                                                         *)
(* The controller is the one of UM11126 as the code uses it: a completion  *)
(* deactivates the selected bank and switches the selector; a bit of       *)
(* EPSKIP deactivates the selected bank, keeps the selector and clears     *)
(* itself, whether or not that bank was active.                            *)
(***************************************************************************)
EXTENDS Integers

Endpoint == 0..1      \* the index of endpoints[]: 0x03 and 0x84
Bank == 0..1

VARIABLES active,     \* [Endpoint -> [Bank -> BOOLEAN]], the ACTIVE bits
          inuse,      \* [Endpoint -> Bank], the EPINUSE register
          skip,       \* the set of bits pending in EPSKIP
          claimed,    \* the endpoints whose banks software has claimed
          pc,         \* where the cancellation is
          mask,       \* the endpoints being cancelled
          before,     \* EPINUSE as read at the top of the loop
          i,          \* the endpoint whose descriptors are being read
          selected,   \* [Endpoint -> BOOLEAN], ACTIVE as read from the selected bank
          peer        \* [Endpoint -> BOOLEAN], ACTIVE as read from the other bank

hwVars  == <<active, inuse>>
cpuVars == <<pc, mask, before, i, selected, peer>>
vars    == <<hwVars, skip, claimed, cpuVars>>

Quiet(e) == \A b \in Bank : ~active[e][b]

\* A stopped endpoint that was claimed: the bank in use is active if any is.
Init == /\ claimed \in SUBSET Endpoint
        /\ inuse \in [Endpoint -> Bank]
        /\ active \in [Endpoint -> [Bank -> BOOLEAN]]
        /\ \A e \in Endpoint : Quiet(e) \/ (e \in claimed /\ active[e][inuse[e]])
        /\ skip = {}
        /\ pc = "idle"
        /\ mask = {}
        /\ before = inuse
        /\ i = 0
        /\ selected = [e \in Endpoint |-> FALSE]
        /\ peer = [e \in Endpoint |-> FALSE]

-----------------------------------------------------------------------------
Complete(e) == /\ active[e][inuse[e]]
               /\ active' = [active EXCEPT ![e][inuse[e]] = FALSE]
               /\ inuse' = [inuse EXCEPT ![e] = 1 - inuse[e]]
               /\ UNCHANGED <<skip, claimed, cpuVars>>

Skip(e) == /\ e \in skip
           /\ active' = [active EXCEPT ![e][inuse[e]] = FALSE]
           /\ skip' = skip \ {e}
           /\ UNCHANGED <<inuse, claimed, cpuVars>>

-----------------------------------------------------------------------------
\* Every claimed endpoint is stopped, so that nothing arms a bank from here on.
Begin == /\ pc \in {"idle", "failed"}
         /\ claimed # {}
         /\ mask' = claimed
         /\ pc' = "top"
         /\ UNCHANGED <<hwVars, skip, claimed, before, i, selected, peer>>

First(S) == IF 0 \in S THEN 0 ELSE 1

\* Waits for EPSKIP to be clear.
TopRead == /\ pc = "top"
           /\ skip = {}
           /\ before' = inuse
           /\ i' = First(mask)
           /\ pc' = "selected"
           /\ UNCHANGED <<hwVars, skip, claimed, mask, selected, peer>>

\* The spin budget is used up, after any number of iterations: nothing is
\* released, and the caller must not touch the descriptors.
GiveUp == /\ pc = "top"
          /\ pc' = "failed"
          /\ UNCHANGED <<hwVars, skip, claimed, mask, before, i, selected, peer>>

ReadSelected == /\ pc = "selected"
                /\ selected' = [selected EXCEPT ![i] = active[i][before[i]]]
                /\ pc' = "peer"
                /\ UNCHANGED <<hwVars, skip, claimed, mask, before, i, peer>>

\* On to the next endpoint of the mask, or to the second look at EPINUSE.
ReadPeer == /\ pc = "peer"
            /\ peer' = [peer EXCEPT ![i] = active[i][1 - before[i]]]
            /\ IF i = 0 /\ 1 \in mask THEN i' = 1 /\ pc' = "selected"
                                     ELSE UNCHANGED i /\ pc' = "compare"
            /\ UNCHANGED <<hwVars, skip, claimed, mask, before, selected>>

\* The second look at EPINUSE and EPSKIP.
Compare == /\ pc = "compare"
           /\ pc' = IF before # inuse \/ skip # {} THEN "top" ELSE "store"
           /\ UNCHANGED <<hwVars, skip, claimed, mask, before, i, selected, peer>>

WantSkip == {e \in mask : selected[e]}
WantSelect == {e \in mask : peer[e]}

StoreSkip == /\ pc = "store"
             /\ WantSkip # {}
             /\ skip' = WantSkip
             /\ pc' = "top"
             /\ UNCHANGED <<hwVars, claimed, mask, before, i, selected, peer>>

\* The whole register is written from the values read at the top.  The
\* selectors were not necessarily stable across the reads: both banks may have
\* completed in between, and the selector is back where it was.
StoreSelect == /\ pc = "store"
               /\ WantSkip = {}
               /\ WantSelect # {}
               /\ inuse' = [e \in Endpoint |-> IF e \in WantSelect THEN 1 - before[e]
                                                                   ELSE before[e]]
               /\ pc' = "top"
               /\ UNCHANGED <<active, skip, claimed, mask, before, i, selected, peer>>

\* Mutant of StoreClear: the peers of the selected banks are not looked at.
StoreClearPeer == /\ pc = "store"
                  /\ WantSkip = {}
                  /\ active' = [e \in Endpoint |-> IF e \in mask THEN [b \in Bank |-> FALSE]
                                                                 ELSE active[e]]
                  /\ claimed' = claimed \ mask
                  /\ pc' = "idle"
                  /\ UNCHANGED <<inuse, skip, mask, before, i, selected, peer>>
\* INTSTAT is cleared, the descriptors are overwritten, the banks released.
StoreClear == /\ pc = "store"
              /\ WantSkip = {}
              /\ WantSelect = {}
              /\ active' = [e \in Endpoint |-> IF e \in mask THEN [b \in Bank |-> FALSE]
                                                             ELSE active[e]]
              /\ claimed' = claimed \ mask
              /\ pc' = "idle"
              /\ UNCHANGED <<inuse, skip, mask, before, i, selected, peer>>

Loop == TopRead \/ ReadSelected \/ ReadPeer \/ Compare
        \/ StoreSkip \/ StoreSelect \/ StoreClear

Next == \/ \E e \in Endpoint : Complete(e) \/ Skip(e)
        \/ Begin
        \/ Loop \/ GiveUp

Spec == Init /\ [][Next]_vars

\* The loop runs, and the controller acts on EPSKIP at some time.  Nothing
\* forces the loop to give up.
FairSpec == Spec /\ WF_vars(Loop) /\ \A e \in Endpoint : WF_vars(Skip(e))

-----------------------------------------------------------------------------
TypeOK == /\ active \in [Endpoint -> [Bank -> BOOLEAN]]
          /\ inuse \in [Endpoint -> Bank]
          /\ skip \subseteq Endpoint
          /\ claimed \subseteq Endpoint
          /\ pc \in {"idle", "top", "selected", "peer", "compare", "store", "failed"}
          /\ mask \subseteq Endpoint
          /\ before \in [Endpoint -> Bank]
          /\ i \in Endpoint
          /\ selected \in [Endpoint -> BOOLEAN]
          /\ peer \in [Endpoint -> BOOLEAN]

(* A request to park a bank is never taken back: a bit of EPSKIP stays set *)
(* until the bank the controller is on is inactive, although each store    *)
(* writes the whole register.                                              *)
KeepsSkip == \A e \in skip : e \in skip' \/ ~active'[e][inuse'[e]]
SkipKept == [][KeepsSkip]_vars

(* Seen from each endpoint the loop does what IsoPark says, from reads of  *)
(* EPINUSE and the descriptors that are stale when they are used: it moves *)
(* a selector only off an inactive bank and releases only inactive banks.  *)
Rx == INSTANCE IsoPark WITH active <- active[0], inuse <- inuse[0],
                            claimed <- 0 \in claimed
Feedback == INSTANCE IsoPark WITH active <- active[1], inuse <- inuse[1],
                                  claimed <- 1 \in claimed
ParkInit == Rx!Init /\ Feedback!Init
ParkStep == [Rx!Next]_(Rx!parkVars) /\ [Feedback!Next]_(Feedback!parkVars)
ImplementsPark == ParkInit /\ [][ParkStep]_vars

(* The loop does not live on its spin budget: as long as it is not cut     *)
(* short it releases both endpoints, because nothing arms a bank again and *)
(* so the retries caused by completions die out.                           *)
CancelEnds == pc = "top" ~> claimed = {} \/ pc = "failed"
=============================================================================
