----------------------------- MODULE BatchBuilder -----------------------------
(* The SDK's BatchTransactionBuilder: one queue of operations, and calls of  *)
(* submit() on it that may overlap with each other and with add() and        *)
(* clear().                                                                  *)
(*                                                                           *)
(* submit() looks at the queue three times, with an await between each: for  *)
(* the fee, for the transaction and for what it reports.                     *)
EXTENDS Integers, Sequences

CONSTANTS
    Submit,         \* concurrent calls of submit()
    MaxOps,         \* BATCH_MAX_OPS, scaled
    MaxAdds         \* bound: operations ever added

ASSUME BatchAssumption == MaxOps \in Nat /\ MaxAdds \in Nat

VARIABLES
    batch,      \* this.operations, numbered as they are added
    added,      \* operations added so far
    submits     \* the submissions

batchVars == <<batch, added, submits>>

(* `touched` tells whether the queue changed since the call began. *)
NoSubmit == [step |-> "idle", fee |-> 0, tx |-> <<>>, reported |-> <<>>, touched |-> FALSE]

BatchInit == batch = <<>> /\ added = 0 /\ submits = [s \in Submit |-> NoSubmit]

Touched == [s \in Submit |-> [submits[s] EXCEPT !.touched = submits[s].step # "idle"]]

Add ==
    /\ Len(batch) < MaxOps /\ added < MaxAdds
    /\ added' = added + 1 /\ batch' = Append(batch, added + 1)
    /\ submits' = Touched

ClearBatch == batch' = <<>> /\ submits' = Touched /\ UNCHANGED added

(* estimateGas(), in hundreds of stroops: an operation's fee, 100 when it    *)
(* gives none, and the overhead of 1000.                                     *)
EstimateBatch(ops) == Len(ops) + 10

(* The arguments are good and the queue not empty: the fee is settled before *)
(* the first await.                                                          *)
SubmitCalled(s) ==
    /\ submits[s].step = "idle" /\ batch # <<>>
    /\ submits' = [submits EXCEPT ![s] =
                     [NoSubmit EXCEPT !.step = "account", !.fee = EstimateBatch(batch)]]
    /\ UNCHANGED <<batch, added>>

\* Mutant: the last operation is left out.
OperationsButLast == SubSeq(batch, 1, Len(batch) - 1)
(* The loop over this.operations that fills the transaction. *)
Operations == batch

(* The account is read: the transaction is built and sent. *)
BatchBuilt(s) ==
    /\ submits[s].step = "account"
    /\ submits' = [submits EXCEPT ![s].step = "sending", ![s].tx = Operations]
    /\ UNCHANGED <<batch, added>>

(* The server has answered, or the account or the server could not be        *)
(* reached: the operations now queued are reported, done or failed, and stay *)
(* queued.                                                                   *)
BatchAnswered(s) ==
    /\ submits[s].step \in {"account", "sending"}
    /\ submits' = [submits EXCEPT ![s].step = "done", ![s].reported = batch]
    /\ UNCHANGED <<batch, added>>

(* The caller has its answer and may submit again. *)
SubmitReturned(s) ==
    /\ submits[s].step = "done"
    /\ submits' = [submits EXCEPT ![s] = NoSubmit]
    /\ UNCHANGED <<batch, added>>

BatchNext ==
    \/ Add \/ ClearBatch
    \/ \E s \in Submit : SubmitCalled(s) \/ BatchBuilt(s) \/ BatchAnswered(s) \/ SubmitReturned(s)

BatchSpec == BatchInit /\ [][BatchNext]_batchVars

-----------------------------------------------------------------------------
(* Properties *)

(* A submission that nobody disturbs pays for, sends and reports the same    *)
(* operations, whatever other submissions of the queue are under way; only   *)
(* an add() or clear() during its awaits can part the three.                 *)
ReportsWhatItSent ==
    \A s \in Submit :
      submits[s].step = "done" /\ submits[s].tx # <<>> /\ ~submits[s].touched =>
        /\ submits[s].reported = submits[s].tx
        /\ submits[s].fee = EstimateBatch(submits[s].tx)
=============================================================================
