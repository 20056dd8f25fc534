------------------------------ MODULE RadioGroup ------------------------------
(***************************************************************************)
(* What the plugin bar promises to the user: a group of buttons of which   *)
(* none is down until one is pressed, and from then on exactly one.        *)
(***************************************************************************)
CONSTANT Buttons

VARIABLE pressed  \* the buttons that are down

Init == pressed = {}

Press(b) == pressed' = {b}

Next == \E b \in Buttons : Press(b)

Spec == Init /\ [][Next]_pressed
=============================================================================
