------------------------------ MODULE MCTransfer ------------------------------
(* The loader profiles of the targets, for the runs of WchlinkTransfer. *)
EXTENDS WchlinkTransfer

\* rvswd_target_ch58x.c, rvswd_target_ch59x.c
CH58x == [page |-> Packet, streaming |-> FALSE, variable |-> TRUE, partial |-> TRUE]
\* rvswd_target_l103.c, rvswd_target_v20x.c, rvswd_target_v30x.c
CH32 == [page |-> 1, streaming |-> TRUE, variable |-> FALSE, partial |-> FALSE]
\* rvswd_target_x03x.c
X03x == [page |-> 1, streaming |-> FALSE, variable |-> FALSE, partial |-> FALSE]

AllProfiles == {CH58x, CH32, X03x}
OnlyCH58x == {CH58x}
===============================================================================
