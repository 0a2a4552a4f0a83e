---------------------------------- MODULE MCDb ----------------------------------
(***************************************************************************)
(* Config and DbGen one after the other, as one process runs them: the     *)
(* configuration is read, the connection is opened, and statements are     *)
(* sent over it.  What else is in the file makes no difference to the      *)
(* statements, so they are sent after an empty one only, and the files are *)
(* read with one schema at hand.                                           *)
(***************************************************************************)
EXTENDS MCConfig, MCDbGen

DbInit == ConfigInit /\ Init

Configure ==
    /\ ConfigNext
    /\ schema = LikeUsers \/ lines' = <<>>
    /\ UNCHANGED vars

Work ==
    /\ phase = "asked" /\ asked # REFUSED
    /\ lines = <<>>
    /\ Next
    /\ UNCHANGED configVars

DbSpec == DbInit /\ [][Configure \/ Work]_<<configVars, vars>>
=============================================================================
