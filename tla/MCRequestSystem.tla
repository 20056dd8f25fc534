--------------------------- MODULE MCRequestSystem ---------------------------
(* The request pipeline for model checking: the calls a client makes in each *)
(* run, and the symmetry of the sets of model values.                         *)
EXTENDS RequestSystemProperties, TLC

AllCalls == ClientCalls
UpdateOnly == {"update"}
NoUpdates == {"request", "get_document"}
Direct == {"request", "set_verbose"}
Direct2 == {"request", "check_status"}
CheckOnly == {"check_status"}

Symmetric == Permutations(Requests) \cup Permutations(Workers) \cup Permutations(Sheets)
=============================================================================
