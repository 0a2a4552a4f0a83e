----------------------------- MODULE LogChannel -----------------------------
(***************************************************************************)
(* What the logger promises its caller, without threads, locks or a ring   *)
(* buffer: a bounded first-in first-out channel from log_msg to the log    *)
(* file.  An accepted line is written exactly once, in the order accepted; *)
(* a line is refused only while Capacity lines or more are unwritten; the  *)
(* channel closes only when nothing is left to write.  A process that ends *)
(* without closing the channel loses what is unwritten and nothing else.   *)
(***************************************************************************)
EXTENDS Naturals, Sequences

CONSTANTS
    Capacity,  \* unwritten lines the channel always has room for
    Lines      \* the lines a caller may send

VARIABLES
    phase,     \* "new", "open", "closed" or "dead"
    pending,   \* accepted and not yet written, oldest first
    written,   \* the log file
    refused    \* lines that found the channel full

chan == <<phase, pending, written, refused>>

Init ==
    /\ phase = "new"
    /\ pending = <<>>
    /\ written = <<>>
    /\ refused = <<>>

Open ==
    /\ phase = "new"
    /\ phase' = "open"
    /\ UNCHANGED <<pending, written, refused>>

\* One line may be in the writer's hands on top of the Capacity that wait.
Accept(l) ==
    /\ phase = "open"
    /\ Len(pending) <= Capacity
    /\ pending' = Append(pending, l)
    /\ UNCHANGED <<phase, written, refused>>

Refuse(l) ==
    /\ phase = "open"
    /\ Len(pending) >= Capacity
    /\ refused' = Append(refused, l)
    /\ UNCHANGED <<phase, pending, written>>

Deliver ==
    /\ phase = "open"
    /\ pending # <<>>
    /\ written' = Append(written, Head(pending))
    /\ pending' = Tail(pending)
    /\ UNCHANGED <<phase, refused>>

Close ==
    /\ phase = "open"
    /\ pending = <<>>
    /\ phase' = "closed"
    /\ UNCHANGED <<pending, written, refused>>

Abandon ==
    /\ phase # "dead"
    /\ phase' = "dead"
    /\ UNCHANGED <<pending, written, refused>>

Next ==
    \/ Open
    \/ \E l \in Lines : Accept(l) \/ Refuse(l)
    \/ Deliver
    \/ Close
    \/ Abandon

Spec == Init /\ [][Next]_chan

\* The writer never stops while the channel is open.
FairSpec == Spec /\ WF_chan(Deliver)
=============================================================================
