---------------------------- MODULE TsfnContract ----------------------------
(***************************************************************************)
(* What a thread-safe function promises to the code that sends through it,  *)
(* with no queue, no lock, no reference count and no event loop: every      *)
(* accepted datum is handed over exactly once and in the order of           *)
(* acceptance -- to JavaScript while the function is open, and to the clean *)
(* up after the finalizer when it was aborted -- and a function that is     *)
(* closed without an abort has handed over everything to JavaScript.        *)
(***************************************************************************)
EXTENDS Naturals, Sequences

CONSTANT Items

VARIABLES
    accepted,   \* the data accepted so far
    delivered,  \* the data handed to JavaScript
    drained,    \* the data handed to the clean up
    phase       \* "open", "aborted", "closed", "final"

contractVars == <<accepted, delivered, drained, phase>>

Handed == Len(delivered) + Len(drained)

ContractInit ==
    /\ accepted = <<>>
    /\ delivered = <<>>
    /\ drained = <<>>
    /\ phase = "open"

Accept ==
    /\ phase = "open"
    /\ \E i \in Items : accepted' = Append(accepted, i)
    /\ UNCHANGED <<delivered, drained, phase>>

Deliver ==
    /\ phase = "open"
    /\ Handed < Len(accepted)
    /\ delivered' = Append(delivered, accepted[Handed + 1])
    /\ UNCHANGED <<accepted, drained, phase>>

Abort ==
    /\ phase = "open"
    /\ phase' = "aborted"
    /\ UNCHANGED <<accepted, delivered, drained>>

Close ==
    /\ \/ phase = "open" /\ Handed = Len(accepted)
       \/ phase = "aborted"
    /\ phase' = "closed"
    /\ UNCHANGED <<accepted, delivered, drained>>

Finalize ==
    /\ phase = "closed"
    /\ phase' = "final"
    /\ UNCHANGED <<accepted, delivered, drained>>

CleanUp ==
    /\ phase = "final"
    /\ Handed < Len(accepted)
    /\ drained' = Append(drained, accepted[Handed + 1])
    /\ UNCHANGED <<accepted, delivered, phase>>

ContractNext == Accept \/ Deliver \/ Abort \/ Close \/ Finalize \/ CleanUp

ContractSpec == ContractInit /\ [][ContractNext]_contractVars
=============================================================================
