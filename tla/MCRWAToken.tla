---------------------------- MODULE MCRWAToken ----------------------------
(***************************************************************************)
(* Small instances of RWAToken for TLC.  Admin is one of the two accounts. *)
(***************************************************************************)
EXTENDS RWAToken

CONSTANTS adm, al

AllPayments == Addr \X Addr
OnePayment == {<<adm, al>>}

\* A batch with a repeated recipient, one that pays both accounts, the sender
\* among them, and one longer than MaxBatchSize.
SomeBatches == {<< <<al, 1>>, <<al, 1>> >>, << <<al, 1>>, <<adm, 1>> >>,
                << <<al, 1>>, <<al, 1>>, <<adm, 1>> >>}
NoBatches == {}
===========================================================================
