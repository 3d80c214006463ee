------------------------------- MODULE Registry -------------------------------
(***************************************************************************)
(* What a device promises about the objects made from it (accel.go, the    *)
(* lifecycle lock): children join only while it is open, and it closes     *)
(* only when it has none.  Nothing joins or leaves a closed device.        *)
(***************************************************************************)
VARIABLES open, children

Init == open = TRUE /\ children = {}

Add ==
  /\ open /\ \E c \in children' : c \notin children /\ children' = children \union {c}
  /\ UNCHANGED open
Remove == \E c \in children : children' = children \ {c} /\ UNCHANGED open
Close == open /\ children = {} /\ open' = FALSE /\ UNCHANGED children

Next == Add \/ Remove \/ Close

Spec == Init /\ [][Next]_<<open, children>>
=============================================================================
