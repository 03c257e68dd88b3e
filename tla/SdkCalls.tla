------------------------------- MODULE SdkCalls -------------------------------
(* Calls of the SDK's clients in flight: concurrent callers, each running    *)
(* one method under withRetry, against a network that loses requests and     *)
(* answers and a ledger that orders transactions by the sequence number of   *)
(* their source account.                                                     *)
(*                                                                           *)
(* A step runs from one await to the next: what a caller read before an      *)
(* await (the account's sequence number) may be old when it is used.         *)
EXTENDS Integers, FiniteSets, SdkMethods

CONSTANTS
    Caller,         \* concurrent calls
    Source,         \* the Stellar account each caller acts for
    Offered,        \* the methods each caller may choose from
    MaxAttempts,    \* per caller: maxRetries + 1
    Refusals,       \* results with which Horizon may refuse a transaction
    CanSign,        \* clients whose signTransaction returns: "token" with a
                    \*   secretKey, others only when the application supplies it
    VerificationTypes  \* how many verification types a custodian may name

(* Results of a transaction that did not make it into a ledger. *)
UnappliedResults ==
    {"tx_too_late", "tx_insufficient_fee", "tx_bad_seq", "tx_internal_error", "tx_bad_auth"}

ASSUME CallsAssumption ==
    /\ MaxAttempts \in [Caller -> Nat \ {0}]
    /\ Offered \in [Caller -> SUBSET AllMethods]
    /\ DOMAIN Source = Caller
    /\ VerificationTypes \subseteq Nat /\ Refusals \subseteq UnappliedResults

Account == {Source[c] : c \in Caller}

VARIABLES
    call,       \* what each caller is doing
    wire,       \* transactions sent and not yet received by the RPC server
    queue,      \* transactions the server accepted, not yet in a ledger
    ledger,     \* transactions in a closed ledger, with their outcome
    seq         \* the ledger's sequence number of each account

vars == <<call, wire, queue, ledger, seq>>

Idle == [m |-> Plain("none", "none", "none", {}), pc |-> "idle", attempt |-> 0, tx |-> "none", answer |-> "none",
         result |-> "none", told |-> FALSE, doubts |-> 0]

Init ==
    /\ call = [c \in Caller |-> Idle]
    /\ wire = {} /\ queue = {} /\ ledger = {}
    /\ seq = [a \in Account |-> 0]

RpcClients == {"token", "market", "compliance", "dividend"}

-----------------------------------------------------------------------------
(* Errors: how a fault of the network is reported, and what withRetry does.  *)

(* timeout: the message says so; hangup: a socket error such as ECONNRESET;  *)
(* unavailable: HTTP 503 and the like; refused: another HTTP 4xx.  A         *)
(* HorizonError goes by the result of the transaction it carries.            *)
Faults == {"timeout", "hangup", "unavailable", "refused"}
Error(code, fault) == [code |-> code, fault |-> fault]

(* handleError of the four contract clients keeps only the message; the      *)
(* factory and the custody client let most errors through as they are, and   *)
(* the batch builder puts the message in a TransactionError.  What the       *)
(* custody client lets through the application may parse, if there was an    *)
(* answer, before withRetry sees it (HorizonError.fromHorizonResponse).      *)
HandleErrors(client, pc, fault) ==
    CASE client \in RpcClients ->
           {IF fault = "timeout" THEN Error("TIMEOUT", fault) ELSE Error("CONTRACT_ERROR", fault)}
      [] client = "batch" -> {Error("TRANSACTION_FAILED", fault)}
      [] client = "factory" /\ pc \in {"sending", "sent"} -> {Error("NETWORK_ERROR", fault)}
      [] client = "custody" /\ fault # "hangup" ->
           {Error("raw", fault), Error("TRANSACTION_FAILED", fault)}
      [] OTHER -> {Error("raw", fault)}

(* RETRYABLE_STELLAR_RESULT_CODES *)
RetryableResults ==
    {"tx_too_late", "tx_insufficient_fee", "tx_bad_seq", "tx_internal_error",
     "tx_fee_bump_inner_failed"}

\* Mutant: a failed transaction is taken for a transient fault.
RetryableFailures(error) ==
    \/ error.code \in {"TIMEOUT", "NETWORK_ERROR", "TRANSACTION_FAILED"}
    \/ error.code = "raw" /\ error.fault \in {"timeout", "hangup", "unavailable"}

(* classifyError: by the error's code, then by the result it carries, its    *)
(* HTTP status or socket code, then by what its message says.                *)
Retryable(error) ==
    \/ error.code \in {"TIMEOUT", "NETWORK_ERROR"} \cup RetryableResults
    \/ error.code = "raw" /\ error.fault \in {"timeout", "hangup", "unavailable"}
    \/ error.code = "TRANSACTION_FAILED" /\ error.fault \in {"timeout", "hangup"}

(* What becomes of a call whose attempt threw.  `told` records that the      *)
(* attempt's transaction was rejected or seen to fail, `doubts` counts the   *)
(* attempts that sent a transaction and never learnt its fate.               *)
Thrown(k, c, error, told) ==
    [k EXCEPT !.pc = IF Retryable(error) /\ k.attempt < MaxAttempts[c] THEN "sleeping" ELSE "done",
              !.result = error.code,
              !.told = told,
              !.doubts = IF k.pc \in {"sending", "sent", "polling"} /\ ~told THEN @ + 1 ELSE @]

Returned(k) == [k EXCEPT !.pc = "done", !.result = "ok"]

-----------------------------------------------------------------------------
(* A caller's steps *)

(* The method is called: a bad argument it checks ends it before any await. *)
Begin(c, m) ==
    /\ call[c].pc = "idle" /\ m \in Offered[c]
    /\ LET k == [Idle EXCEPT !.m = m, !.attempt = 1] IN
       \/ /\ m.checks # {}
          /\ call' = [call EXCEPT ![c] = Thrown(k, c, Error("INVALID_PARAMETERS", "none"), FALSE)]
       \/ /\ m.kind = "local"
          /\ call' = [call EXCEPT ![c] =
                        IF m.breaks = "always"
                        THEN Thrown(k, c, Error("CONTRACT_ERROR", "none"), FALSE) ELSE Returned(k)]
       \/ /\ m.kind # "local"
          /\ call' = [call EXCEPT ![c] = [k EXCEPT !.pc = "loading"]]
    /\ UNCHANGED <<wire, queue, ledger, seq>>

(* The answer of a read. *)
ReadAnswered(c) ==
    LET k == call[c] IN
    /\ k.pc = "loading" /\ k.m.kind = "read"
    /\ call' = [call EXCEPT ![c] =
                  IF k.m.breaks = "extract"
                  THEN Thrown(k, c, Error("CONTRACT_ERROR", "none"), FALSE) ELSE Returned(k)]
    /\ UNCHANGED <<wire, queue, ledger, seq>>

(* The transaction a caller builds on the account it has just read.  Every   *)
(* build() on the same account object takes the next sequence number, those  *)
(* of registerCustodian that are thrown away included.                       *)
Built(c, dropped) ==
    [by |-> c, n |-> call[c].attempt, seq |-> seq[Source[c]] + dropped + 1,
     signed |-> call[c].m.client # "batch"]

(* The factory reads the account twice; details are checked in between. *)
FirstAccountRead(c) ==
    LET k == call[c] IN
    /\ k.pc = "loading" /\ k.m.kind = "write" /\ k.m.client = "factory"
    /\ k.m.fn = "create_asset"
    /\ \/ call' = [call EXCEPT ![c] = [k EXCEPT !.pc = "building"]]
       \/ /\ k.m.late # {}
          /\ call' = [call EXCEPT ![c] = Thrown(k, c, Error("INVALID_PARAMETERS", "none"), FALSE)]
    /\ UNCHANGED <<wire, queue, ledger, seq>>

AccountRead(c) ==
    LET k == call[c] IN
    /\ k.m.kind = "write"
    /\ k.pc = IF k.m.fn = "create_asset" THEN "building" ELSE "loading"
    /\ \/ /\ k.m.breaks = "convert"
          /\ call' = [call EXCEPT ![c] = Thrown(k, c, Error("CONTRACT_ERROR", "none"), FALSE)]
          /\ UNCHANGED wire
       \/ /\ k.m.breaks # "convert" /\ k.m.client \in RpcClients \ CanSign
          /\ call' = [call EXCEPT ![c] =
                        Thrown(k, c, Error(IF k.m.client = "token" THEN "UNAUTHORIZED"
                                           ELSE "CONTRACT_ERROR", "none"), FALSE)]
          /\ UNCHANGED wire
       \/ /\ k.m.breaks # "convert" /\ k.m.client \notin RpcClients \ CanSign
          /\ \E dropped \in IF k.m.breaks = "stale" THEN VerificationTypes ELSE {0} :
               /\ wire' = wire \cup {Built(c, dropped)}
               /\ call' = [call EXCEPT ![c].pc = "sending", ![c].tx = Built(c, dropped)]
    /\ UNCHANGED <<queue, ledger, seq>>

InLedger(tx) == \E e \in ledger : e.tx = tx
Succeeded(tx) == [tx |-> tx, ok |-> TRUE] \in ledger

(* sendTransaction() answered.  Only the status ERROR is an error: the hash  *)
(* is returned for TRY_AGAIN_LATER too.  Then the answer is taken apart, or  *)
(* the factory asks for the transaction; the batch builder stops here.       *)
Answered(c) ==
    LET k == call[c] IN
    /\ k.pc = "sent" /\ k.m.client # "custody"
    /\ call' = [call EXCEPT ![c] =
                  CASE k.answer = "ERROR" -> Thrown(k, c, Error("TRANSACTION_FAILED", "none"), TRUE)
                    [] k.answer # "ERROR" /\ k.m.client = "factory" -> [k EXCEPT !.pc = "polling"]
                    [] k.answer # "ERROR" /\ k.m.client # "factory" /\ k.m.breaks = "extract" ->
                         Thrown(k, c, Error("CONTRACT_ERROR", "none"), FALSE)
                    [] OTHER -> Returned(k)]
    /\ UNCHANGED <<wire, queue, ledger, seq>>

\* Mutant: a transaction no ledger holds yet is taken for a success.
PolledTooEarly(c) ==
    LET k == call[c] IN
    /\ k.pc = "polling"
    /\ call' = [call EXCEPT ![c] =
                  IF Succeeded(k.tx) \/ ~InLedger(k.tx) THEN Returned(k)
                  ELSE Thrown(k, c, Error("TRANSACTION_FAILED", "none"), TRUE)]
    /\ UNCHANGED <<wire, queue, ledger, seq>>

\* Mutant: a transaction no ledger holds yet is sent again as if it had failed.
PolledAndSentAgain(c) ==
    LET k == call[c] IN
    /\ k.pc = "polling"
    /\ call' = [call EXCEPT ![c] =
                  IF Succeeded(k.tx) THEN Returned(k)
                  ELSE Thrown(k, c, Error("NETWORK_ERROR", "none"), TRUE)]
    /\ UNCHANGED <<wire, queue, ledger, seq>>

(* The factory asks once, at once: a transaction that no ledger holds yet    *)
(* is reported as one that was not successful.                               *)
Polled(c) ==
    LET k == call[c] IN
    /\ k.pc = "polling"
    /\ call' = [call EXCEPT ![c] =
                  IF Succeeded(k.tx) THEN Returned(k)
                  ELSE Thrown(k, c, Error("TRANSACTION_FAILED", "none"), InLedger(k.tx))]
    /\ UNCHANGED <<wire, queue, ledger, seq>>

(* Horizon answers the custody client when the transaction is in a ledger,   *)
(* or when it refuses it.                                                    *)
Confirmed(c) ==
    LET k == call[c] IN
    /\ k.pc = "sent" /\ k.m.client = "custody"
    /\ k.answer = "ERROR" \/ InLedger(k.tx)
    /\ \E code \in {"raw"} \cup (IF InLedger(k.tx) THEN {"tx_failed"} ELSE Refusals) :
         call' = [call EXCEPT ![c] = IF Succeeded(k.tx) THEN Returned(k)
                                     ELSE Thrown(k, c, Error(code, "refused"), TRUE)]
    /\ UNCHANGED <<wire, queue, ledger, seq>>

\* Mutant: no timeout on a submission.
FailsUnlessSending(c, fault) ==
    LET k == call[c] IN
    /\ k.pc \in {"loading", "building", "sent", "polling"}
    /\ \E error \in HandleErrors(k.m.client, k.pc, fault) :
         call' = [call EXCEPT ![c] = IF k.m.breaks = "open" THEN Returned(k)
                                     ELSE Thrown(k, c, error, FALSE)]
    /\ UNCHANGED <<wire, queue, ledger, seq>>

(* The request or its answer is lost, or the server will not serve it. *)
Fails(c, fault) ==
    LET k == call[c] IN
    /\ k.pc \in {"loading", "building", "sending", "sent", "polling"}
    /\ \E error \in HandleErrors(k.m.client, k.pc, fault) :
         call' = [call EXCEPT ![c] = IF k.m.breaks = "open" THEN Returned(k)
                                     ELSE Thrown(k, c, error, FALSE)]
    /\ UNCHANGED <<wire, queue, ledger, seq>>

(* withRetry's delay is over: the next attempt calls the method again, with  *)
(* the same arguments, unless the caller's signal was aborted meanwhile.     *)
Wake(c) ==
    /\ call[c].pc = "sleeping"
    /\ \/ call' = [call EXCEPT ![c].pc = "loading", ![c].attempt = @ + 1, ![c].told = FALSE,
                               ![c].tx = "none", ![c].answer = "none"]
       \/ call' = [call EXCEPT ![c].pc = "done"]
    /\ UNCHANGED <<wire, queue, ledger, seq>>

-----------------------------------------------------------------------------
(* The network and the ledger *)

(* The server's verdict on a transaction, given to the caller if it still    *)
(* waits for this one.  It may refuse any for its fee or its time bounds.    *)
Receive(tx, status) ==
    LET account == Source[tx.by] IN
    /\ tx \in wire /\ wire' = wire \ {tx}
    /\ status \in
         CASE ~tx.signed \/ tx.seq # seq[account] + 1 -> {"ERROR"}
           [] \E q \in queue : Source[q.by] = account -> {"TRY_AGAIN_LATER"}
           [] OTHER -> {"PENDING", "TRY_AGAIN_LATER", "ERROR"}
    /\ queue' = IF status = "PENDING" THEN queue \cup {tx} ELSE queue
    /\ call' = IF call[tx.by].pc = "sending" /\ call[tx.by].tx = tx
               THEN [call EXCEPT ![tx.by].pc = "sent", ![tx.by].answer = status] ELSE call
    /\ UNCHANGED <<ledger, seq>>

Lose(tx) ==
    /\ tx \in wire /\ wire' = wire \ {tx}
    /\ UNCHANGED <<call, queue, ledger, seq>>

(* A ledger closes over a transaction, which succeeds or fails, or the       *)
(* transaction's time bound passes first.                                    *)
Close(tx) ==
    /\ tx \in queue /\ queue' = queue \ {tx}
    /\ \/ /\ \E ok \in BOOLEAN : ledger' = ledger \cup {[tx |-> tx, ok |-> ok]}
          /\ seq' = [seq EXCEPT ![Source[tx.by]] = tx.seq]
       \/ UNCHANGED <<ledger, seq>>
    /\ UNCHANGED <<call, wire>>

Step(c) ==
    \/ ReadAnswered(c) \/ FirstAccountRead(c) \/ AccountRead(c) \/ Answered(c)
    \/ Polled(c) \/ Confirmed(c) \/ Wake(c)
    \/ \E fault \in Faults : Fails(c, fault)

Next ==
    \/ \E c \in Caller : Step(c) \/ \E m \in Offered[c] : Begin(c, m)
    \/ \E tx \in wire : Lose(tx) \/ \E status \in {"PENDING", "TRY_AGAIN_LATER", "ERROR"} : Receive(tx, status)
    \/ \E tx \in queue : Close(tx)

(* Every request is answered or fails, and every delay ends. *)
Fairness == \A c \in Caller : WF_vars(Step(c))

Spec == Init /\ [][Next]_vars /\ Fairness

-----------------------------------------------------------------------------
(* Properties *)

Asked(c) == call[c].pc \notin {"idle", "done"}

(* withRetry repeats a call that learnt the fate of its transaction only     *)
(* when that is safe, as constants.ts:112 puts it: the transaction is in no  *)
(* ledger, and in no queue that could still bring it into one.  What was     *)
(* seen to fail in a ledger is never submitted again (classifyError over     *)
(* every client's errors).                                                   *)
RepeatedOnlyWhenSafe ==
    [][\A c \in Caller :
         call'[c].attempt > call[c].attempt /\ call[c].told =>
            call[c].tx \notin wire \cup queue \cup {e.tx : e \in ledger}]_vars

(* An operation takes effect at most once more than the number of times its  *)
(* caller was left in doubt, whatever the network loses or delays: without a *)
(* lost answer it is done at most once.                                      *)
Done == {e.tx : e \in {x \in ledger : x.ok}}
DoneOncePerDoubt ==
    \A c \in Caller : Cardinality({tx \in Done : tx.by = c}) <= call[c].doubts + 1

(* What the factory and the custody client report as done is in a ledger:    *)
(* an address, a registration or a claim is returned only for a transaction  *)
(* that succeeded (submitTransaction, Horizon's submitTransaction).          *)
ConfirmedMeansDone ==
    \A c \in Caller :
      /\ call[c].result = "ok" /\ call[c].m.kind = "write"
      /\ call[c].m.client \in {"factory", "custody"}
      => Succeeded(call[c].tx)

(* Every call ends, with a result or an error: retries are bounded and no    *)
(* step waits for something that may not come.                               *)
CallsEnd == \A c \in Caller : Asked(c) ~> ~Asked(c)

-----------------------------------------------------------------------------
(* What the repository's words say and the code does not do.  Each was       *)
(* refuted by TLC; the README tells the shortest behaviour that does it.     *)

(* index.ts:237 says the source account signs a batch: whatever reaches the  *)
(* server is signed.                                                         *)
SentSigned == \A tx \in wire : tx.signed
=============================================================================
