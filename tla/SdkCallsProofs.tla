--------------------------- MODULE SdkCallsProofs ----------------------------
(* The SDK's calls, for any callers, methods, retries and signers: a call is *)
(* not repeated once its transaction is known to be in a ledger, and what    *)
(* the factory and the custody client report as done is in a ledger.         *)
EXTENDS SdkCalls, FiniteSetTheorems, TLAPS

Transaction == [by : Caller, n : Nat, seq : Nat, signed : BOOLEAN]

ErrorCodes ==
    {"TIMEOUT", "CONTRACT_ERROR", "TRANSACTION_FAILED", "NETWORK_ERROR",
     "INVALID_PARAMETERS", "UNAUTHORIZED", "raw", "tx_failed"} \cup UnappliedResults

CallRecord ==
    [m : AllMethods \cup {Idle.m},
     pc : {"idle", "loading", "building", "sending", "sent", "polling", "sleeping", "done"},
     attempt : Nat, tx : Transaction \cup {"none"},
     answer : {"none", "PENDING", "TRY_AGAIN_LATER", "ERROR"},
     result : {"none", "ok"} \cup ErrorCodes,
     told : BOOLEAN, doubts : Nat]

CallsTyped ==
    /\ call \in [Caller -> CallRecord] /\ seq \in [Account -> Nat]
    /\ wire \subseteq Transaction /\ queue \subseteq Transaction
    /\ ledger \subseteq [tx : Transaction, ok : BOOLEAN]

\* Every transaction that exists, and those of a caller that took effect or may.
InSomeLedger == {e.tx : e \in ledger}
Known == wire \cup queue \cup InSomeLedger
Possible(c) == {tx \in wire \cup queue \cup Done : tx.by = c}

\* A transaction is in one place.
InOnePlace ==
    /\ wire \cap queue = {} /\ wire \cap InSomeLedger = {} /\ queue \cap InSomeLedger = {}

SentStates == {"sending", "sent", "polling"}

\* The possible transactions of a caller but the one it still waits for, or was
\* told to have succeeded.
Past(c, k) == IF k.pc \in SentStates \/ k.result = "ok" THEN Possible(c) \ {k.tx} ELSE Possible(c)

\* No attempt makes more than one transaction.
OnePerAttempt(c, k) ==
    \A tx \in Known : tx.by = c =>
        tx.n <= k.attempt /\ (k.pc \in {"idle", "loading", "building"} => tx.n < k.attempt)

\* What a call may know of its transaction.  One that knows its fate and still will try
\* again knows that it was refused, and then it is nowhere.
KnowsItsFate(c, k) ==
    /\ k.pc \in SentStates => k.tx.by = c
    /\ k.told => k.pc \in {"sleeping", "done"}
    /\ k.told /\ k.pc = "sleeping" => k.tx.by = c /\ k.tx \notin Known
    /\ k.pc = "sent" /\ k.answer = "ERROR" => k.tx \notin Known

\* What a call may look like.  A result is given at the end only, and by the factory
\* and the custody client only for a transaction seen to succeed; all but one of the
\* possible transactions were left in doubt.
Sound(c, k) ==
    /\ k.pc = "idle" => k.attempt = 0 /\ k.doubts = 0
    /\ k.result = "ok" => k.pc = "done"
    /\ k.result = "ok" /\ k.m.kind = "write" /\ k.m.client \in {"factory", "custody"}
          => Succeeded(k.tx)
    /\ KnowsItsFate(c, k)
    /\ OnePerAttempt(c, k)
    /\ Cardinality(Past(c, k)) <= k.doubts

IInv ==
    /\ CallsTyped /\ InOnePlace
    /\ \A c \in Caller : IsFiniteSet(Possible(c)) /\ Sound(c, call[c])

-----------------------------------------------------------------------------
(* Methods and errors *)

\* Methods without a remark do not break.
LEMMA PlainFields ==
  /\ \A client, fn, checks : Write(client, fn, checks).breaks = "never"
  /\ \A client, fn, checks : Read(client, fn, checks).breaks = "never"
  /\ \A client, checks : Local(client, checks).breaks = "never"
BY DEF Plain, Write, Read, Local

\* Methods with a remark break as it says, and are of the kind they were.
LEMMA BreakingFields ==
  /\ \A client, fn, checks, how : Breaking(Write(client, fn, checks), how).breaks = how
  /\ \A client, fn, checks, how : Breaking(Read(client, fn, checks), how).kind = "read"
  /\ \A client, checks, how : Breaking(Local(client, checks), how).kind = "local"
BY DEF Plain, Write, Read, Local, Breaking

\* The factory's deployments do not break.
LEMMA DeployFields ==
  \A checks, late : Deploy(checks, late).breaks = "never"
BY DEF Plain, Write, Deploy

\* Only questions answer an error with a value of their own.
LEMMA OpenIsRead ==
  ASSUME NEW m \in AllMethods \cup {Idle.m}, m.breaks = "open" PROVE m.kind # "write"
<1>1. CASE m \in TokenMethods
  BY <1>1, PlainFields, BreakingFields, SMT
     DEF TokenMethods, GetTokenInfo, GetBalance, Transfer, Mint, Burn, LockTokens,
         UnlockTokens, Pause, Unpause, Freeze, Unfreeze, GetTokenStats,
         GetTransferHistory, EstimateTransferFee, CheckTransferAllowed
<1>2. CASE m \in MarketMethods
  BY <1>2, PlainFields, BreakingFields, SMT
     DEF MarketMethods, CreateBuyOrder, CreateSellOrder, CancelOrder, MatchOrders,
         GetOrderBook, GetOrder, GetUserOrders, GetRecentTrades, AddSupportedToken,
         SetPauseStatus, UpdateMarketConfig, GetMarketStats, GetPriceHistory,
         EstimateTradingFee, GetMarketDepth
<1>3. CASE m \in ComplianceMethods
  BY <1>3, PlainFields, BreakingFields, SMT
     DEF ComplianceMethods, InitializeRegistry, UpdateKYCStatus, GetKYCStatus,
         AddToBlacklist, RemoveFromBlacklist, AddToWhitelist, RemoveFromWhitelist,
         CheckCompliance, CheckTransferLimits, SetTransferLimits, GetComplianceRules,
         UpdateComplianceRule, GetComplianceStats, GetUserComplianceHistory,
         BatchUpdateKYCStatus, GetAuditTrail
<1>4. CASE m \in DividendMethods
  BY <1>4, PlainFields, BreakingFields, SMT
     DEF DividendMethods, CreateDistribution, ClaimDividend, ClaimAllDividends,
         GetDistribution, GetActiveDistributions, GetClaimInfo,
         CalculateAvailableDividend, UpdateDividendConfig, DeactivateDistribution,
         GetDividendStats, GetUserDividendHistory, EstimateClaimFee
<1>5. CASE m \in FactoryMethods
  BY <1>5, PlainFields, BreakingFields, DeployFields, SMT
     DEF FactoryMethods, DeployRealEstateToken, DeployCommodityToken,
         DeployInvoiceToken, DeploySecurityToken, EstimateDeploymentCost,
         GetAllAssets, EmergencyPauseAll
<1>6. CASE m \in CustodyMethods
  BY <1>6, PlainFields, BreakingFields, SMT
     DEF CustodyMethods, RegisterCustodian, SubmitAttestation, VerifyAssetBacking,
         GetCustodyHistory, InitiateDispute, TriggerInsuranceClaim, GetDispute,
         GetCustodianInfo, ListActiveCustodians, GetVerificationConfig
<1>7. CASE m \in {SubmitBatch, DeployCompleteRWAToken}
  BY <1>7, PlainFields, BreakingFields, SMT DEF SubmitBatch, DeployCompleteRWAToken
<1>8. CASE m = Idle.m
  BY <1>8 DEF Idle, Plain
<1> QED BY <1>1, <1>2, <1>3, <1>4, <1>5, <1>6, <1>7, <1>8 DEF AllMethods

\* Taking one element out of a finite set, or leaving it in, is a matter of one.
LEMMA AllButOne ==
  ASSUME NEW S, IsFiniteSet(S), NEW x
  PROVE  /\ Cardinality(S) \in Nat /\ Cardinality(S \ {x}) \in Nat
         /\ Cardinality(S \ {x}) <= Cardinality(S)
         /\ Cardinality(S) <= Cardinality(S \ {x}) + 1
         /\ x \notin S => S \ {x} = S
<1>1. /\ IsFiniteSet(S \ {x}) /\ Cardinality(S) \in Nat
      /\ Cardinality(S \ {x}) = IF x \in S THEN Cardinality(S) - 1 ELSE Cardinality(S)
  BY FS_RemoveElement, FS_CardinalityType
<1>2. Cardinality(S \ {x}) \in Nat
  BY <1>1, FS_CardinalityType
<1>3. x \notin S => S \ {x} = S
  OBVIOUS
<1> QED BY <1>1, <1>2, <1>3

\* What the end of an attempt leaves of a call.
LEMMA ThrownFields ==
  ASSUME NEW k \in CallRecord, NEW c \in Caller, NEW code \in ErrorCodes, NEW fault,
         NEW told \in BOOLEAN
  PROVE  LET t == Thrown(k, c, Error(code, fault), told) IN
         /\ t \in CallRecord /\ t.pc \in {"sleeping", "done"}
         /\ t.pc = "sleeping" => Retryable(Error(code, fault))
         /\ t.result # "ok" /\ t.told = told
         /\ t.attempt = k.attempt /\ t.tx = k.tx /\ t.answer = k.answer
         /\ t.doubts = IF k.pc \in SentStates /\ ~told THEN k.doubts + 1 ELSE k.doubts
<1> DEFINE t == Thrown(k, c, Error(code, fault), told)
<1>1. t = [k EXCEPT !.pc = IF Retryable(Error(code, fault)) /\ k.attempt < MaxAttempts[c]
                           THEN "sleeping" ELSE "done",
                    !.result = code, !.told = told,
                    !.doubts = IF k.pc \in SentStates /\ ~told THEN @ + 1 ELSE @]
  BY DEF Thrown, Error, SentStates
<1> HIDE DEF t
<1>2. t.pc \in {"sleeping", "done"} /\ (t.pc = "sleeping" => Retryable(Error(code, fault)))
  BY <1>1 DEF CallRecord
<1>3. t.result = code /\ t.told = told /\ t.attempt = k.attempt /\ t.tx = k.tx /\ t.answer = k.answer
  BY <1>1 DEF CallRecord
<1> DEFINE pc == IF Retryable(Error(code, fault)) /\ k.attempt < MaxAttempts[c]
                 THEN "sleeping" ELSE "done"
           doubts == IF k.pc \in SentStates /\ ~told THEN k.doubts + 1 ELSE k.doubts
<1>4. t.doubts = doubts
  BY <1>1 DEF CallRecord
<1>5. t \in CallRecord
  <2>1. pc \in {"sleeping", "done"} /\ doubts \in Nat /\ k.doubts \in Nat
    BY DEF CallRecord
  <2>2. t = [k EXCEPT !.pc = pc, !.result = code, !.told = told, !.doubts = doubts]
    BY <1>1
  <2> HIDE DEF pc, doubts
  <2> QED BY <2>1, <2>2 DEF CallRecord, ErrorCodes
<1> QED BY <1>2, <1>3, <1>4, <1>5 DEF t, ErrorCodes, UnappliedResults

-----------------------------------------------------------------------------
(* Steps of one caller *)

\* A step that changes one call only keeps the invariant if the call is sound.
LEMMA OneCallSteps ==
  ASSUME IInv, NEW c \in Caller, NEW k \in CallRecord, Sound(c, k),
         call' = [call EXCEPT ![c] = k], UNCHANGED <<wire, queue, ledger, seq>>
  PROVE  IInv'
<1>1. CallsTyped'
  BY DEF IInv, CallsTyped
<1>2. InOnePlace'
  BY DEF IInv, InOnePlace, InSomeLedger
<1>3. ASSUME NEW d \in Caller PROVE (IsFiniteSet(Possible(d)) /\ Sound(d, call[d]))'
  <2>1. Possible(d)' = Possible(d) /\ Known' = Known /\ Done' = Done
    BY DEF Possible, Known, InSomeLedger, Done
  <2>2. IsFiniteSet(Possible(d)) /\ Sound(d, call[d])
    BY <1>3 DEF IInv
  <2>3. Sound(d, call'[d])
    BY <1>3, <2>2 DEF IInv, CallsTyped
  <2>4. \A x : Past(d, x)' = Past(d, x)
    BY <2>1 DEF Past
  <2> QED BY <2>1, <2>2, <2>3, <2>4, Zenon
          DEF Sound, KnowsItsFate, Past, OnePerAttempt, Succeeded
<1> QED BY <1>1, <1>2, <1>3 DEF IInv

\* An attempt that throws leaves the call sound: what it sent is a doubt more, unless
\* it was told, and then the transaction can take effect no more.
LEMMA ThrowingIsSound ==
  ASSUME NEW c \in Caller, NEW k \in CallRecord, NEW code \in ErrorCodes, NEW fault,
         NEW told \in BOOLEAN, IsFiniteSet(Possible(c)), k.result # "ok",
         \A tx \in Known : tx.by = c => tx.n <= k.attempt,
         Cardinality(Past(c, k)) <= k.doubts,
         told => /\ k.pc \in SentStates /\ k.tx \notin Possible(c) /\ k.tx.by = c
                 /\ Retryable(Error(code, fault)) => k.tx \notin Known
  PROVE  /\ Thrown(k, c, Error(code, fault), told) \in CallRecord
         /\ Sound(c, Thrown(k, c, Error(code, fault), told))
<1> DEFINE t == Thrown(k, c, Error(code, fault), told)
<1>1. /\ t \in CallRecord /\ t.pc \in {"sleeping", "done"}
      /\ t.pc = "sleeping" => Retryable(Error(code, fault))
      /\ t.result # "ok" /\ t.told = told
      /\ t.attempt = k.attempt /\ t.tx = k.tx /\ t.answer = k.answer
      /\ t.doubts = IF k.pc \in SentStates /\ ~told THEN k.doubts + 1 ELSE k.doubts
  BY ThrownFields
<1> HIDE DEF t
<1>2. Past(c, t) = Possible(c)
  BY <1>1 DEF Past, SentStates
<1>3. Cardinality(Possible(c)) <= t.doubts
  <2>1. /\ Cardinality(Possible(c)) \in Nat /\ Cardinality(Possible(c) \ {k.tx}) \in Nat
        /\ Cardinality(Possible(c)) <= Cardinality(Possible(c) \ {k.tx}) + 1
        /\ k.tx \notin Possible(c) => Possible(c) \ {k.tx} = Possible(c)
    BY AllButOne
  <2>2. k.doubts \in Nat
    BY DEF CallRecord
  <2>3. CASE k.pc \in SentStates
    <3>1. Cardinality(Possible(c) \ {k.tx}) <= k.doubts
      BY <2>3 DEF Past
    <3>2. CASE told
      BY <1>1, <2>1, <2>3, <3>1, <3>2
    <3>3. CASE ~told
      <4>1. t.doubts = k.doubts + 1
        BY <1>1, <2>3, <3>3
      <4> QED BY <2>1, <2>2, <3>1, <4>1
    <3> QED BY <3>2, <3>3
  <2>4. CASE k.pc \notin SentStates
    <3>1. Past(c, k) = Possible(c) /\ t.doubts = k.doubts
      BY <1>1, <2>4 DEF Past
    <3> QED BY <3>1
  <2> QED BY <2>3, <2>4
<1>4. OnePerAttempt(c, t)
  BY <1>1 DEF OnePerAttempt
<1>5. KnowsItsFate(c, t)
  BY <1>1 DEF KnowsItsFate, SentStates
<1>6. Sound(c, t)
  BY <1>1, <1>2, <1>3, <1>4, <1>5 DEF Sound
<1> QED BY <1>1, <1>6 DEF t

\* What is known of a call that is under way.
LEMMA UnderWay ==
  ASSUME IInv, NEW c \in Caller, call[c].pc # "done"
  PROVE  /\ call[c] \in CallRecord /\ call[c].result # "ok" /\ IsFiniteSet(Possible(c))
         /\ \A tx \in Known : tx.by = c => tx.n <= call[c].attempt
         /\ Cardinality(Past(c, call[c])) <= call[c].doubts
BY DEF IInv, CallsTyped, Sound, OnePerAttempt

\* A step that throws for a reason that says nothing of the transaction.
LEMMA ThrowingKeeps ==
  ASSUME IInv, NEW c \in Caller, call[c].pc # "done", NEW code \in ErrorCodes, NEW fault,
         call' = [call EXCEPT ![c] = Thrown(call[c], c, Error(code, fault), FALSE)],
         UNCHANGED <<wire, queue, ledger, seq>>
  PROVE  IInv'
BY UnderWay, ThrowingIsSound, OneCallSteps, Zenon

\* A step that throws because the transaction was refused or failed.
LEMMA TellingKeeps ==
  ASSUME IInv, NEW c \in Caller, call[c].pc \in SentStates, NEW code \in ErrorCodes, NEW fault,
         call[c].tx \notin Possible(c),
         Retryable(Error(code, fault)) => call[c].tx \notin Known,
         call' = [call EXCEPT ![c] = Thrown(call[c], c, Error(code, fault), TRUE)],
         UNCHANGED <<wire, queue, ledger, seq>>
  PROVE  IInv'
<1>1. call[c].pc # "done"
  BY DEF SentStates
<1>2. call[c].tx.by = c
  BY DEF IInv, Sound, KnowsItsFate
<1> QED BY <1>1, <1>2, UnderWay, ThrowingIsSound, OneCallSteps, Zenon

\* A call that returns is sound when what it returns for a transaction is no more
\* than its client promises.
LEMMA ReturningKeeps ==
  ASSUME IInv, NEW c \in Caller, call[c].pc # "done",
         call[c].m.kind = "write" /\ call[c].m.client \in {"factory", "custody"}
            => Succeeded(call[c].tx),
         call' = [call EXCEPT ![c] = Returned(call[c])], UNCHANGED <<wire, queue, ledger, seq>>
  PROVE  IInv'
<1> DEFINE k == call[c]
           r == Returned(call[c])
<1>1. /\ k \in CallRecord /\ k.result # "ok" /\ IsFiniteSet(Possible(c))
      /\ \A tx \in Known : tx.by = c => tx.n <= k.attempt
      /\ Cardinality(Past(c, k)) <= k.doubts
  BY UnderWay
<1>2. /\ r \in CallRecord /\ r.pc = "done" /\ r.result = "ok" /\ r.m = k.m /\ r.tx = k.tx
      /\ r.attempt = k.attempt /\ r.doubts = k.doubts
  BY <1>1 DEF Returned, CallRecord
<1> HIDE DEF r
<1>3. Cardinality(Past(c, r)) <= r.doubts
  <2>1. Past(c, r) = Possible(c) \ {k.tx}
    BY <1>2 DEF Past
  <2>2. /\ Cardinality(Possible(c)) \in Nat /\ Cardinality(Possible(c) \ {k.tx}) \in Nat
        /\ Cardinality(Possible(c) \ {k.tx}) <= Cardinality(Possible(c))
    BY <1>1, AllButOne
  <2>3. k.doubts \in Nat
    BY <1>1 DEF CallRecord
  <2>4. CASE Past(c, k) = Possible(c)
    BY <1>1, <1>2, <2>1, <2>2, <2>3, <2>4
  <2>5. CASE Past(c, k) = Possible(c) \ {k.tx}
    BY <1>1, <1>2, <2>1, <2>5
  <2> QED BY <2>4, <2>5 DEF Past
<1>4. OnePerAttempt(c, r)
  BY <1>1, <1>2 DEF OnePerAttempt
<1>5. Sound(c, r)
  BY <1>2, <1>3, <1>4 DEF Sound, KnowsItsFate, SentStates
<1> QED BY <1>2, <1>5, OneCallSteps DEF r

\* A caller without a call has tried and doubted nothing.
LEMMA IdleFields ==
  /\ Idle \in CallRecord /\ Idle.pc = "idle" /\ Idle.attempt = 0 /\ Idle.doubts = 0
  /\ Idle.result = "none" /\ Idle.told = FALSE /\ Idle.tx = "none" /\ Idle.answer = "none"
<1> DEFINE m == Plain("none", "none", "none", {})
<1>1. Idle.m = m
  BY DEF Idle
<1> HIDE DEF m
<1>2. Idle = [m |-> m, pc |-> "idle", attempt |-> 0, tx |-> "none", answer |-> "none",
              result |-> "none", told |-> FALSE, doubts |-> 0]
  BY DEF Idle, m
<1>3. m \in AllMethods \cup {Idle.m}
  BY <1>1
<1> QED BY <1>2, <1>3 DEF CallRecord

\* The invariant holds in the beginning.
LEMMA InitHolds == Init => IInv
<1> SUFFICES ASSUME Init PROVE IInv
  OBVIOUS
<1>1. /\ Idle \in CallRecord /\ Idle.pc = "idle" /\ Idle.attempt = 0 /\ Idle.doubts = 0
      /\ Idle.result = "none" /\ Idle.told = FALSE
  BY IdleFields
<1>2. CallsTyped
  BY <1>1 DEF Init, CallsTyped
<1>3. Known = {} /\ Done = {}
  BY DEF Init, Known, Done, InSomeLedger
<1>4. InOnePlace
  BY <1>3 DEF InOnePlace, Known
<1>5. ASSUME NEW c \in Caller PROVE IsFiniteSet(Possible(c)) /\ Sound(c, call[c])
  <2>1. Possible(c) = {} /\ call[c] = Idle
    BY <1>3 DEF Init, Possible
  <2>2. Past(c, Idle) = {}
    BY <2>1 DEF Past
  <2>3. IsFiniteSet({}) /\ Cardinality({}) = 0
    BY FS_EmptySet
  <2>4. OnePerAttempt(c, Idle)
    BY <1>3 DEF OnePerAttempt
  <2> QED BY <1>1, <2>1, <2>2, <2>3, <2>4 DEF Sound, KnowsItsFate, SentStates
<1> QED BY <1>2, <1>4, <1>5 DEF IInv

\* The beginning of a call keeps the invariant.
LEMMA BeginKeeps ==
  ASSUME IInv, NEW c \in Caller, NEW m \in Offered[c], Begin(c, m) PROVE IInv'
<1> DEFINE k == [Idle EXCEPT !.m = m, !.attempt = 1]
<1>1. call[c].pc = "idle" /\ UNCHANGED <<wire, queue, ledger, seq>> /\ m \in AllMethods
  BY CallsAssumption DEF Begin
<1>2. Sound(c, call[c]) /\ IsFiniteSet(Possible(c)) /\ call[c] \in CallRecord
  BY DEF IInv, CallsTyped
<1>3. /\ k \in CallRecord /\ k.pc = "idle" /\ k.attempt = 1 /\ k.doubts = 0 /\ k.m = m
      /\ k.result = "none" /\ k.told = FALSE /\ k.tx = "none" /\ k.answer = "none"
  BY <1>1, IdleFields DEF CallRecord
<1> HIDE DEF k
<1>4. \A tx \in Known : tx.by = c => tx.n <= k.attempt /\ tx.n < k.attempt
  <2>1. \A tx \in Known : tx \in Transaction
    BY DEF IInv, CallsTyped, Known, InSomeLedger
  <2>2. \A tx \in Known : tx.by = c => tx.n < 0
    BY <1>1, <1>2 DEF Sound, OnePerAttempt
  <2> QED BY <1>3, <2>1, <2>2 DEF Transaction
<1>5. Past(c, k) = Possible(c) /\ Cardinality(Possible(c)) <= k.doubts
  BY <1>1, <1>2, <1>3 DEF Sound, Past, SentStates
<1>6. ASSUME NEW code \in ErrorCodes, NEW fault,
             call' = [call EXCEPT ![c] = Thrown(k, c, Error(code, fault), FALSE)]
      PROVE  IInv'
  <2>1. /\ Thrown(k, c, Error(code, fault), FALSE) \in CallRecord
        /\ Sound(c, Thrown(k, c, Error(code, fault), FALSE))
    BY <1>2, <1>3, <1>4, <1>5, ThrowingIsSound
  <2> QED BY <1>1, <1>6, <2>1, OneCallSteps
<1>7. ASSUME call' = [call EXCEPT ![c] = Returned(k)], m.kind # "write" PROVE IInv'
  <2> DEFINE r == Returned(k)
  <2>1. /\ r \in CallRecord /\ r.pc = "done" /\ r.result = "ok" /\ r.m = m /\ r.tx = "none"
        /\ r.attempt = k.attempt /\ r.doubts = 0
    BY <1>3 DEF Returned, CallRecord
  <2> HIDE DEF r
  <2>2. Cardinality(Past(c, r)) <= r.doubts
    BY <1>2, <1>3, <1>5, <2>1, AllButOne DEF Past
  <2>3. OnePerAttempt(c, r)
    BY <1>4, <2>1 DEF OnePerAttempt
  <2>4. Sound(c, r)
    BY <1>7, <2>1, <2>2, <2>3 DEF Sound, KnowsItsFate, SentStates
  <2> QED BY <1>1, <1>7, <2>1, <2>4, OneCallSteps DEF r
<1>8. ASSUME call' = [call EXCEPT ![c] = [k EXCEPT !.pc = "loading"]] PROVE IInv'
  <2> DEFINE l == [k EXCEPT !.pc = "loading"]
  <2>1. /\ l \in CallRecord /\ l.pc = "loading" /\ l.result = "none" /\ l.attempt = k.attempt
        /\ l.doubts = k.doubts /\ l.told = FALSE
    BY <1>3 DEF CallRecord
  <2> HIDE DEF l
  <2>2. Past(c, l) = Possible(c)
    BY <2>1 DEF Past, SentStates
  <2>3. OnePerAttempt(c, l)
    BY <1>4, <2>1 DEF OnePerAttempt
  <2>4. Sound(c, l)
    BY <1>5, <2>1, <2>2, <2>3 DEF Sound, KnowsItsFate, SentStates
  <2> QED BY <1>1, <1>8, <2>1, <2>4, OneCallSteps DEF l
<1> QED BY <1>6, <1>7, <1>8 DEF Begin, k, ErrorCodes

\* The answer to a read keeps the invariant.
LEMMA ReadAnsweredKeeps == ASSUME IInv, NEW c \in Caller, ReadAnswered(c) PROVE IInv'
<1>1. /\ call[c].pc # "done" /\ call[c].m.kind # "write"
      /\ UNCHANGED <<wire, queue, ledger, seq>>
  BY DEF ReadAnswered
<1>2. \/ call' = [call EXCEPT ![c] = Thrown(call[c], c, Error("CONTRACT_ERROR", "none"), FALSE)]
      \/ call' = [call EXCEPT ![c] = Returned(call[c])]
  BY DEF ReadAnswered
<1> QED BY <1>1, <1>2, ThrowingKeeps, ReturningKeeps DEF ErrorCodes

\* Whatever a client makes of a fault has one of the codes.
LEMMA HandledCodes ==
  ASSUME NEW client, NEW pc, NEW fault, NEW error \in HandleErrors(client, pc, fault)
  PROVE  \E code \in ErrorCodes : error = Error(code, fault)
BY DEF HandleErrors, ErrorCodes

\* A fault leaves a doubt, except in a question that answers it.
LEMMA FailsKeeps ==
  ASSUME IInv, NEW c \in Caller, NEW fault \in Faults, Fails(c, fault) PROVE IInv'
<1>1. call[c].pc # "done" /\ UNCHANGED <<wire, queue, ledger, seq>>
  BY DEF Fails
<1>2. CASE call[c].m.breaks = "open"
  <2>1. call' = [call EXCEPT ![c] = Returned(call[c])]
    BY <1>2 DEF Fails
  <2>2. call[c].m \in AllMethods \cup {Idle.m}
    BY DEF IInv, CallsTyped, CallRecord
  <2>3. call[c].m.kind # "write"
    BY <1>2, <2>2, OpenIsRead
  <2> QED BY <1>1, <2>1, <2>3, ReturningKeeps
<1>3. CASE call[c].m.breaks # "open"
  <2>1. PICK error \in HandleErrors(call[c].m.client, call[c].pc, fault) :
             call' = [call EXCEPT ![c] = Thrown(call[c], c, error, FALSE)]
    BY <1>3 DEF Fails
  <2>2. \E code \in ErrorCodes : error = Error(code, fault)
    BY HandledCodes
  <2> QED BY <1>1, <2>1, <2>2, ThrowingKeeps
<1> QED BY <1>2, <1>3

\* A call that goes on, with nothing sent and nothing known of what was.
LEMMA GoingOnKeeps ==
  ASSUME IInv, NEW c \in Caller, NEW k \in CallRecord, call[c].pc # "done",
         k.result = call[c].result, k.doubts = call[c].doubts, k.told => call[c].told,
         k.pc = "loading" => ~k.told,
         \/ /\ call[c].pc = "loading" /\ k.pc = "building" /\ k.attempt = call[c].attempt
         \/ /\ call[c].pc = "sleeping" /\ k.pc = "loading" /\ k.attempt = call[c].attempt + 1
         \/ /\ call[c].pc = "sleeping" /\ k.pc = "done" /\ k.attempt = call[c].attempt
         \/ /\ call[c].pc = "sent" /\ k.pc = "polling" /\ k.attempt = call[c].attempt
            /\ k.tx = call[c].tx,
         call' = [call EXCEPT ![c] = k], UNCHANGED <<wire, queue, ledger, seq>>
  PROVE  IInv'
<1>1. /\ call[c] \in CallRecord /\ call[c].result # "ok" /\ IsFiniteSet(Possible(c))
      /\ \A tx \in Known : tx.by = c => tx.n <= call[c].attempt
      /\ Cardinality(Past(c, call[c])) <= call[c].doubts
  BY UnderWay
<1>2. OnePerAttempt(c, call[c])
  BY DEF IInv, Sound
<1>3. \A tx \in Known : tx.n \in Nat
  BY DEF IInv, CallsTyped, Known, InSomeLedger, Transaction
<1>4. call[c].attempt \in Nat
  BY <1>1 DEF CallRecord
<1>5. OnePerAttempt(c, k)
  BY <1>2, <1>3, <1>4 DEF OnePerAttempt
<1>6. Past(c, k) = Past(c, call[c])
  BY <1>1 DEF Past, SentStates
<1>7. KnowsItsFate(c, k)
  <2>1. KnowsItsFate(c, call[c])
    BY DEF IInv, Sound
  <2> QED BY <2>1 DEF KnowsItsFate, SentStates
<1>8. Sound(c, k)
  BY <1>1, <1>5, <1>6, <1>7 DEF Sound
<1> QED BY <1>8, OneCallSteps

\* The first reading of the account keeps the invariant.
LEMMA FirstAccountReadKeeps == ASSUME IInv, NEW c \in Caller, FirstAccountRead(c) PROVE IInv'
<1>1. call[c].pc = "loading" /\ UNCHANGED <<wire, queue, ledger, seq>> /\ call[c] \in CallRecord
  BY DEF FirstAccountRead, IInv, CallsTyped
<1>2. CASE call' = [call EXCEPT ![c] = [call[c] EXCEPT !.pc = "building"]]
  <2> DEFINE k == [call[c] EXCEPT !.pc = "building"]
  <2>1. /\ k \in CallRecord /\ k.pc = "building" /\ k.result = call[c].result
        /\ k.doubts = call[c].doubts /\ k.attempt = call[c].attempt /\ k.told = call[c].told
    BY <1>1 DEF CallRecord
  <2> HIDE DEF k
  <2> QED BY <1>1, <1>2, <2>1, GoingOnKeeps DEF k
<1>3. CASE call' = [call EXCEPT ![c] =
                      Thrown(call[c], c, Error("INVALID_PARAMETERS", "none"), FALSE)]
  BY <1>1, <1>3, ThrowingKeeps DEF ErrorCodes
<1> QED BY <1>2, <1>3 DEF FirstAccountRead

\* A call that begins its next attempt has forgotten the last one's transaction, not its
\* doubts.
LEMMA AwokenFields ==
  ASSUME NEW x \in CallRecord
  PROVE  LET k == [x EXCEPT !.pc = "loading", !.attempt = @ + 1, !.told = FALSE,
                            !.tx = "none", !.answer = "none"] IN
         /\ k \in CallRecord /\ k.pc = "loading" /\ k.result = x.result /\ ~k.told
         /\ k.doubts = x.doubts /\ k.attempt = x.attempt + 1
<1> DEFINE n == x.attempt + 1
           k == [x EXCEPT !.pc = "loading", !.attempt = n, !.told = FALSE,
                          !.tx = "none", !.answer = "none"]
<1>1. n \in Nat
  BY DEF CallRecord
<1> HIDE DEF n
<1>2. k.pc = "loading" /\ k.result = x.result /\ k.doubts = x.doubts /\ k.attempt = n /\ ~k.told
  BY DEF CallRecord
<1>3. k \in CallRecord
  BY <1>1 DEF CallRecord
<1> QED BY <1>2, <1>3 DEF n

\* The end of a pause between attempts keeps the invariant.
LEMMA WakeKeeps == ASSUME IInv, NEW c \in Caller, Wake(c) PROVE IInv'
<1>1. /\ call[c].pc = "sleeping" /\ UNCHANGED <<wire, queue, ledger, seq>>
      /\ call[c] \in CallRecord /\ call \in [Caller -> CallRecord]
  BY DEF Wake, IInv, CallsTyped
<1>2. CASE call' = [call EXCEPT ![c].pc = "loading", ![c].attempt = @ + 1, ![c].told = FALSE,
                                ![c].tx = "none", ![c].answer = "none"]
  <2> DEFINE k == [call[c] EXCEPT !.pc = "loading", !.attempt = @ + 1, !.told = FALSE,
                                  !.tx = "none", !.answer = "none"]
  <2>1. call' = [call EXCEPT ![c] = k]
    BY <1>1, <1>2
  <2>2. /\ k \in CallRecord /\ k.pc = "loading" /\ k.result = call[c].result /\ ~k.told
        /\ k.doubts = call[c].doubts /\ k.attempt = call[c].attempt + 1
    BY <1>1, AwokenFields
  <2> HIDE DEF k
  <2> QED BY <1>1, <2>1, <2>2, GoingOnKeeps
<1>3. CASE call' = [call EXCEPT ![c].pc = "done"]
  <2> DEFINE k == [call[c] EXCEPT !.pc = "done"]
  <2>1. call' = [call EXCEPT ![c] = k]
    BY <1>1, <1>3
  <2>2. /\ k \in CallRecord /\ k.pc = "done" /\ k.result = call[c].result /\ k.told = call[c].told
        /\ k.doubts = call[c].doubts /\ k.attempt = call[c].attempt
    BY <1>1 DEF CallRecord
  <2> HIDE DEF k
  <2> QED BY <1>1, <2>1, <2>2, GoingOnKeeps
<1> QED BY <1>2, <1>3 DEF Wake

\* A transaction that is in a ledger without success can take effect no more.
LEMMA FailedIsImpossible ==
  ASSUME IInv, NEW c, NEW tx, InLedger(tx), ~Succeeded(tx) PROVE tx \notin Possible(c)
<1>1. tx \in InSomeLedger
  BY DEF InLedger, InSomeLedger
<1>2. tx \notin wire /\ tx \notin queue
  BY <1>1 DEF IInv, InOnePlace
<1>3. ASSUME tx \in Done PROVE FALSE
  <2>1. PICK e \in ledger : e.ok /\ e.tx = tx
    BY <1>3 DEF Done
  <2>2. e \in [tx : Transaction, ok : BOOLEAN]
    BY DEF IInv, CallsTyped
  <2>3. e = [tx |-> tx, ok |-> TRUE]
    BY <2>1, <2>2
  <2> QED BY <2>1, <2>3 DEF Succeeded
<1> QED BY <1>2, <1>3 DEF Possible

\* What failed on the chain is not tried again.
LEMMA FailureIsFinal ==
  /\ ~Retryable(Error("TRANSACTION_FAILED", "none")) /\ ~Retryable(Error("raw", "refused"))
  /\ ~Retryable(Error("tx_failed", "refused"))
BY DEF Retryable, Error, RetryableResults

\* What is nowhere can take effect no more.
LEMMA NowhereIsImpossible ==
  ASSUME NEW c, NEW tx, tx \notin Known PROVE tx \notin Possible(c)
<1>1. Done \subseteq InSomeLedger
  BY DEF Done, InSomeLedger
<1> QED BY <1>1 DEF Known, Possible

\* The answer to a submission keeps the invariant.
LEMMA AnsweredKeeps == ASSUME IInv, NEW c \in Caller, Answered(c) PROVE IInv'
<1>1. /\ call[c].pc = "sent" /\ call[c].m.client # "custody"
      /\ UNCHANGED <<wire, queue, ledger, seq>> /\ call[c] \in CallRecord
  BY DEF Answered, IInv, CallsTyped
<1>2. CASE call[c].answer = "ERROR"
  <2>1. call' = [call EXCEPT ![c] =
                   Thrown(call[c], c, Error("TRANSACTION_FAILED", "none"), TRUE)]
    BY <1>2 DEF Answered
  <2>2. call[c].tx \notin Possible(c)
    BY <1>1, <1>2, NowhereIsImpossible DEF IInv, Sound, KnowsItsFate
  <2> QED BY <1>1, <2>1, <2>2, TellingKeeps, FailureIsFinal DEF SentStates, ErrorCodes
<1>3. CASE call[c].answer # "ERROR" /\ call[c].m.client = "factory"
  <2> DEFINE k == [call[c] EXCEPT !.pc = "polling"]
  <2>1. k \in CallRecord /\ k.pc = "polling" /\ k.result = call[c].result
        /\ k.doubts = call[c].doubts /\ k.attempt = call[c].attempt /\ k.tx = call[c].tx
        /\ k.told = call[c].told
    BY <1>1 DEF CallRecord
  <2>2. call' = [call EXCEPT ![c] = k]
    BY <1>3 DEF Answered
  <2> HIDE DEF k
  <2> QED BY <1>1, <2>1, <2>2, GoingOnKeeps
<1>4. CASE call[c].answer # "ERROR" /\ call[c].m.client # "factory"
  <2>1. \/ call' = [call EXCEPT ![c] = Thrown(call[c], c, Error("CONTRACT_ERROR", "none"), FALSE)]
        \/ call' = [call EXCEPT ![c] = Returned(call[c])]
    BY <1>4 DEF Answered
  <2> QED BY <1>1, <1>4, <2>1, ThrowingKeeps, ReturningKeeps DEF ErrorCodes
<1> QED BY <1>2, <1>3, <1>4

\* The answer to a poll keeps the invariant.
LEMMA PolledKeeps == ASSUME IInv, NEW c \in Caller, Polled(c) PROVE IInv'
<1>1. call[c].pc = "polling" /\ UNCHANGED <<wire, queue, ledger, seq>>
  BY DEF Polled
<1>2. CASE Succeeded(call[c].tx)
  <2>1. call' = [call EXCEPT ![c] = Returned(call[c])]
    BY <1>2 DEF Polled
  <2> QED BY <1>1, <1>2, <2>1, ReturningKeeps
<1>3. CASE ~Succeeded(call[c].tx)
  <2>1. call' = [call EXCEPT ![c] =
          Thrown(call[c], c, Error("TRANSACTION_FAILED", "none"), InLedger(call[c].tx))]
    BY <1>3 DEF Polled
  <2>2. CASE InLedger(call[c].tx)
    <3>1. InLedger(call[c].tx) = TRUE
      BY <2>2 DEF InLedger
    <3> QED BY <1>1, <1>3, <2>1, <2>2, <3>1, FailedIsImpossible, TellingKeeps, FailureIsFinal
            DEF SentStates, ErrorCodes
  <2>3. CASE ~InLedger(call[c].tx)
    <3>1. InLedger(call[c].tx) = FALSE
      BY <2>3 DEF InLedger
    <3> QED BY <1>1, <2>1, <3>1, ThrowingKeeps DEF ErrorCodes
  <2> QED BY <2>2, <2>3
<1> QED BY <1>2, <1>3

\* A confirmation keeps the invariant.
LEMMA ConfirmedKeeps == ASSUME IInv, NEW c \in Caller, Confirmed(c) PROVE IInv'
<1>1. call[c].pc = "sent" /\ UNCHANGED <<wire, queue, ledger, seq>>
  BY DEF Confirmed
<1>2. CASE Succeeded(call[c].tx)
  <2>1. call' = [call EXCEPT ![c] = Returned(call[c])]
    BY <1>2 DEF Confirmed
  <2> QED BY <1>1, <1>2, <2>1, ReturningKeeps
<1>3. CASE ~Succeeded(call[c].tx)
  <2>1. PICK code \in {"raw"} \cup (IF InLedger(call[c].tx) THEN {"tx_failed"} ELSE Refusals) :
             call' = [call EXCEPT ![c] = Thrown(call[c], c, Error(code, "refused"), TRUE)]
    BY <1>3 DEF Confirmed
  <2>2. code \in ErrorCodes
    BY <2>1, CallsAssumption DEF ErrorCodes
  <2>3. CASE InLedger(call[c].tx)
    <3>1. call[c].tx \notin Possible(c)
      BY <1>3, <2>3, FailedIsImpossible
    <3>2. ~Retryable(Error(code, "refused"))
      BY <2>1, <2>3, FailureIsFinal
    <3> QED BY <1>1, <2>1, <2>2, <3>1, <3>2, TellingKeeps DEF SentStates
  <2>4. CASE ~InLedger(call[c].tx)
    <3>1. call[c].tx \notin Known
      BY <1>1, <2>4 DEF Confirmed, IInv, Sound, KnowsItsFate
    <3>2. call[c].tx \notin Possible(c)
      BY <3>1, NowhereIsImpossible
    <3> QED BY <1>1, <2>1, <2>2, <3>1, <3>2, TellingKeeps DEF SentStates
  <2> QED BY <2>3, <2>4
<1> QED BY <1>2, <1>3

\* An attempt makes the one transaction it has: no other is possible yet.
LEMMA SendingKeeps ==
  ASSUME IInv, NEW c \in Caller, NEW dropped \in Nat, call[c].pc \in {"loading", "building"},
         wire' = wire \cup {Built(c, dropped)}, UNCHANGED <<queue, ledger, seq>>,
         call' = [call EXCEPT ![c].pc = "sending", ![c].tx = Built(c, dropped)]
  PROVE  IInv'
<1> DEFINE tx == Built(c, dropped)
           k == [call[c] EXCEPT !.pc = "sending", !.tx = tx]
<1>1. /\ call[c] \in CallRecord /\ call[c].result # "ok" /\ IsFiniteSet(Possible(c))
      /\ Cardinality(Past(c, call[c])) <= call[c].doubts
  BY UnderWay
<1>2. tx \in Transaction /\ tx.by = c /\ tx.n = call[c].attempt
  <2>1. call[c].attempt \in Nat
    BY <1>1 DEF CallRecord
  <2>2. seq[Source[c]] \in Nat
    BY DEF IInv, CallsTyped, Account
  <2> QED BY <2>1, <2>2 DEF Built, Transaction
<1>3. tx \notin Known
  <2>1. OnePerAttempt(c, call[c]) /\ call[c].attempt \in Nat
    BY <1>1 DEF IInv, Sound, CallRecord
  <2> QED BY <1>2, <2>1 DEF OnePerAttempt
<1>4. call' = [call EXCEPT ![c] = k]
  BY DEF IInv, CallsTyped
<1> HIDE DEF tx
<1>5. /\ k \in CallRecord /\ k.pc = "sending" /\ k.tx = tx /\ k.result = call[c].result
      /\ k.told = call[c].told
      /\ k.doubts = call[c].doubts /\ k.attempt = call[c].attempt
  BY <1>1, <1>2 DEF CallRecord
<1> HIDE DEF k
<1>6. wire' = wire \cup {tx}
  BY DEF tx
<1>7. CallsTyped'
  <2>1. call' \in [Caller -> CallRecord]
    BY <1>4, <1>5 DEF IInv, CallsTyped
  <2>2. wire' \subseteq Transaction
    BY <1>2, <1>6 DEF IInv, CallsTyped
  <2>3. seq' \in [Account -> Nat]
    BY DEF IInv, CallsTyped, Account
  <2> QED BY <2>1, <2>2, <2>3 DEF IInv, CallsTyped
<1>8. /\ Done' = Done /\ InSomeLedger' = InSomeLedger
      /\ Known' = Known \cup {tx} /\ tx \notin Done
  <2>1. Done' = Done /\ InSomeLedger' = InSomeLedger
    BY DEF Done, InSomeLedger
  <2>2. Done \subseteq InSomeLedger
    BY DEF Done, InSomeLedger
  <2> QED BY <1>3, <1>6, <2>1, <2>2 DEF Known
<1>9. InOnePlace'
  BY <1>3, <1>6, <1>8 DEF IInv, InOnePlace, Known
<1>10. ASSUME NEW d \in Caller, d # c PROVE (IsFiniteSet(Possible(d)) /\ Sound(d, call[d]))'
  <2>1. Possible(d)' = Possible(d)
    BY <1>2, <1>6, <1>8, <1>10 DEF Possible
  <2>2. call'[d] = call[d]
    BY <1>4, <1>10 DEF IInv, CallsTyped
  <2>3. IsFiniteSet(Possible(d)) /\ Sound(d, call[d])
    BY DEF IInv
  <2>4. OnePerAttempt(d, call[d])'
    BY <1>2, <1>8, <1>10, <2>2, <2>3 DEF Sound, OnePerAttempt
  <2>5. Past(d, call[d])' = Past(d, call[d])
    BY <2>1, <2>2 DEF Past
  <2>6. \A t : (Succeeded(t))' <=> Succeeded(t)
    BY DEF Succeeded
  <2>7. KnowsItsFate(d, call[d])'
    BY <1>2, <1>8, <1>10, <2>2, <2>3 DEF Sound, KnowsItsFate, SentStates
  <2> QED BY <2>1, <2>2, <2>3, <2>4, <2>5, <2>6, <2>7 DEF Sound
<1>11. (IsFiniteSet(Possible(c)) /\ Sound(c, call[c]))'
  <2>1. Possible(c)' = Possible(c) \cup {tx} /\ tx \notin Possible(c)
    BY <1>2, <1>3, <1>6, <1>8 DEF Possible, Known
  <2>2. IsFiniteSet(Possible(c)')
    BY <1>1, <2>1, FS_AddElement
  <2>3. call'[c] = k
    BY <1>4 DEF IInv, CallsTyped
  <2>4. Past(c, call[c])' = Possible(c)
    BY <1>5, <2>1, <2>3 DEF Past, SentStates
  <2>5. Past(c, call[c]) = Possible(c)
    BY <1>1 DEF Past, SentStates
  <2>6. OnePerAttempt(c, call[c])'
    <3>1. OnePerAttempt(c, call[c]) /\ call[c].attempt \in Nat
      BY <1>1 DEF IInv, Sound, CallRecord
    <3> QED BY <1>2, <1>5, <1>8, <2>3, <3>1 DEF OnePerAttempt
  <2>7. KnowsItsFate(c, call[c])'
    <3>1. ~call[c].told
      BY DEF IInv, Sound, KnowsItsFate
    <3> QED BY <1>2, <1>5, <2>3, <3>1 DEF KnowsItsFate
  <2> QED BY <1>1, <1>5, <2>2, <2>3, <2>4, <2>5, <2>6, <2>7 DEF Sound
<1> QED BY <1>7, <1>9, <1>10, <1>11 DEF IInv

\* The reading of the account that sends the transaction keeps the invariant.
LEMMA AccountReadKeeps == ASSUME IInv, NEW c \in Caller, AccountRead(c) PROVE IInv'
<1>1. call[c].pc \in {"loading", "building"} /\ UNCHANGED <<queue, ledger, seq>>
  BY DEF AccountRead
<1>2. CASE UNCHANGED wire /\ \E code \in ErrorCodes :
             call' = [call EXCEPT ![c] = Thrown(call[c], c, Error(code, "none"), FALSE)]
  BY <1>1, <1>2, ThrowingKeeps
<1>3. CASE \E dropped \in Nat :
             /\ wire' = wire \cup {Built(c, dropped)}
             /\ call' = [call EXCEPT ![c].pc = "sending", ![c].tx = Built(c, dropped)]
  BY <1>1, <1>3, SendingKeeps
<1> QED BY <1>2, <1>3, CallsAssumption DEF AccountRead, ErrorCodes

-----------------------------------------------------------------------------
(* Steps of the network and the ledger *)

\* A step that makes no transaction, and lets a caller learn its verdict at most.
LEMMA NetworkKeeps ==
  ASSUME IInv, CallsTyped', InOnePlace', Known' \subseteq Known, ledger \subseteq ledger',
         \A d \in Caller : (Possible(d))' \subseteq Possible(d),
         \A d \in Caller :
            \/ call'[d] = call[d]
            \/ /\ call[d].pc = "sending" /\ call'[d].pc = "sent" /\ call'[d].tx = call[d].tx
               /\ call'[d].m = call[d].m /\ call'[d].result = call[d].result
               /\ call'[d].doubts = call[d].doubts /\ call'[d].attempt = call[d].attempt
               /\ call'[d].answer = "ERROR" => call[d].tx \notin Known'
               /\ call'[d].told = call[d].told
  PROVE  IInv'
<1>1. ASSUME NEW d \in Caller PROVE (IsFiniteSet(Possible(d)) /\ Sound(d, call[d]))'
  <2>1. /\ IsFiniteSet(Possible(d)) /\ Sound(d, call[d]) /\ call[d] \in CallRecord
        /\ (Possible(d))' \subseteq Possible(d)
    BY DEF IInv, CallsTyped
  <2>2. IsFiniteSet((Possible(d))')
    BY <2>1, FS_Subset
  <2>3. (Past(d, call[d]))' \subseteq Past(d, call[d])
    BY <2>1 DEF Past, SentStates
  <2>4. IsFiniteSet(Past(d, call[d]))
    BY <2>1, FS_Subset DEF Past
  <2>5. /\ Cardinality((Past(d, call[d]))') <= Cardinality(Past(d, call[d]))
        /\ Cardinality((Past(d, call[d]))') \in Nat /\ Cardinality(Past(d, call[d])) \in Nat
    BY <2>3, <2>4, FS_Subset, FS_CardinalityType
  <2>6. call[d].doubts \in Nat /\ Cardinality(Past(d, call[d])) <= call[d].doubts
    BY <2>1 DEF Sound, CallRecord
  <2>7. \A t : Succeeded(t) => (Succeeded(t))'
    BY DEF Succeeded
  <2>8. OnePerAttempt(d, call[d])'
    BY <2>1 DEF Sound, OnePerAttempt
  <2>9. Cardinality((Past(d, call[d]))') <= call'[d].doubts
    BY <2>5, <2>6
  <2>10. CASE call'[d] = call[d]
    <3>1. KnowsItsFate(d, call[d])'
      BY <2>1, <2>10 DEF Sound, KnowsItsFate, SentStates
    <3> QED BY <2>1, <2>2, <2>7, <2>8, <2>9, <2>10, <3>1 DEF Sound, Succeeded
  <2>11. CASE /\ call[d].pc = "sending" /\ call'[d].pc = "sent" /\ call'[d].tx = call[d].tx
              /\ call'[d].m = call[d].m /\ call'[d].result = call[d].result
              /\ call'[d].doubts = call[d].doubts /\ call'[d].attempt = call[d].attempt
              /\ call'[d].answer = "ERROR" => call[d].tx \notin Known'
               /\ call'[d].told = call[d].told
    <3>1. KnowsItsFate(d, call[d])'
      BY <2>1, <2>11 DEF Sound, KnowsItsFate, SentStates
    <3> QED BY <2>1, <2>2, <2>8, <2>9, <2>11, <3>1 DEF Sound
  <2> QED BY <2>10, <2>11
<1> QED BY <1>1 DEF IInv

\* A transaction lost on the way keeps the invariant.
LEMMA LoseKeeps == ASSUME IInv, NEW tx \in wire, Lose(tx) PROVE IInv'
<1>1. wire' = wire \ {tx} /\ UNCHANGED <<call, queue, ledger, seq>>
  BY DEF Lose
<1>2. CallsTyped'
  BY <1>1 DEF IInv, CallsTyped
<1>3. InSomeLedger' = InSomeLedger /\ Done' = Done
  BY <1>1 DEF InSomeLedger, Done
<1>4. InOnePlace' /\ Known' \subseteq Known
  BY <1>1, <1>3 DEF IInv, InOnePlace, Known
<1>5. \A d \in Caller : (Possible(d))' \subseteq Possible(d)
  BY <1>1, <1>3 DEF Possible
<1> QED BY <1>1, <1>2, <1>4, <1>5, NetworkKeeps

\* A transaction leaves the queue for a ledger, or for nowhere.
LEMMA LedgerClosesKeeps == ASSUME IInv, NEW tx \in queue, Close(tx) PROVE IInv'
<1>1. queue' = queue \ {tx} /\ UNCHANGED <<call, wire>> /\ tx \in Transaction
  BY DEF Close, IInv, CallsTyped
<1>2. CASE UNCHANGED <<ledger, seq>>
  <2>1. CallsTyped'
    BY <1>1, <1>2 DEF IInv, CallsTyped
  <2>2. InSomeLedger' = InSomeLedger /\ Done' = Done
    BY <1>2 DEF InSomeLedger, Done
  <2>3. InOnePlace' /\ Known' \subseteq Known
    BY <1>1, <2>2 DEF IInv, InOnePlace, Known
  <2>4. \A d \in Caller : (Possible(d))' \subseteq Possible(d)
    BY <1>1, <2>2 DEF Possible
  <2> QED BY <1>1, <1>2, <2>1, <2>3, <2>4, NetworkKeeps
<1>3. ASSUME NEW ok \in BOOLEAN, ledger' = ledger \cup {[tx |-> tx, ok |-> ok]},
             seq' = [seq EXCEPT ![Source[tx.by]] = tx.seq]
      PROVE  IInv'
  <2> DEFINE e == [tx |-> tx, ok |-> ok]
  <2>0. /\ e \in [tx : Transaction, ok : BOOLEAN] /\ e.tx = tx
        /\ ledger' = ledger \cup {e} /\ tx.seq \in Nat
    BY <1>1, <1>3 DEF Transaction
  <2> HIDE DEF e
  <2>1. CallsTyped'
    <3>1. seq' \in [Account -> Nat]
      BY <1>3, <2>0 DEF IInv, CallsTyped, Account
    <3>2. ledger' \subseteq [tx : Transaction, ok : BOOLEAN]
      BY <2>0 DEF IInv, CallsTyped
    <3> QED BY <1>1, <3>1, <3>2 DEF IInv, CallsTyped
  <2>2. InSomeLedger' = InSomeLedger \cup {tx}
    BY <2>0 DEF InSomeLedger
  <2>3. Done' \subseteq Done \cup {tx}
    BY <2>0 DEF Done
  <2>4. InOnePlace' /\ Known' \subseteq Known
    BY <1>1, <2>2 DEF IInv, InOnePlace, Known
  <2>5. \A d \in Caller : (Possible(d))' \subseteq Possible(d)
    BY <1>1, <2>3 DEF Possible
  <2> QED BY <1>1, <1>3, <2>1, <2>4, <2>5, NetworkKeeps
<1> QED BY <1>2, <1>3 DEF Close

\* A transaction that the server refuses is nowhere after that.
LEMMA ReceiveKeeps ==
  ASSUME IInv, NEW tx \in wire, NEW verdict \in {"PENDING", "TRY_AGAIN_LATER", "ERROR"},
         Receive(tx, verdict)
  PROVE  IInv'
<1>1. /\ wire' = wire \ {tx} /\ UNCHANGED <<ledger, seq>> /\ tx \in Transaction
      /\ queue' = IF verdict = "PENDING" THEN queue \cup {tx} ELSE queue
  BY DEF Receive, IInv, CallsTyped
<1>2. call' = IF call[tx.by].pc = "sending" /\ call[tx.by].tx = tx
              THEN [call EXCEPT ![tx.by].pc = "sent", ![tx.by].answer = verdict] ELSE call
  BY DEF Receive
<1>3. tx.by \in Caller /\ call \in [Caller -> CallRecord]
  BY <1>1 DEF Transaction, IInv, CallsTyped
<1>4. CallsTyped'
  <2>1. call' \in [Caller -> CallRecord]
    BY <1>2, <1>3 DEF CallRecord
  <2> QED BY <1>1, <2>1 DEF IInv, CallsTyped
<1>5. InSomeLedger' = InSomeLedger /\ Done' = Done
  BY <1>1 DEF InSomeLedger, Done
<1>6. InOnePlace' /\ Known' \subseteq Known
  BY <1>1, <1>5 DEF IInv, InOnePlace, Known
<1>7. \A d \in Caller : (Possible(d))' \subseteq Possible(d)
  BY <1>1, <1>5 DEF Possible
<1>8. verdict = "ERROR" => tx \notin Known'
  <2>1. tx \notin queue /\ tx \notin InSomeLedger
    BY DEF IInv, InOnePlace
  <2> QED BY <1>1, <1>5, <2>1 DEF Known
<1>9. ASSUME NEW d \in Caller
      PROVE  \/ call'[d] = call[d]
             \/ /\ call[d].pc = "sending" /\ call'[d].pc = "sent" /\ call'[d].tx = call[d].tx
                /\ call'[d].m = call[d].m /\ call'[d].result = call[d].result
                /\ call'[d].doubts = call[d].doubts /\ call'[d].attempt = call[d].attempt
                /\ call'[d].answer = "ERROR" => call[d].tx \notin Known'
               /\ call'[d].told = call[d].told
  <2>1. CASE d = tx.by /\ call[d].pc = "sending" /\ call[d].tx = tx
    <3> DEFINE k == [call[d] EXCEPT !.pc = "sent", !.answer = verdict]
    <3>1. call'[d] = k
      BY <1>2, <1>3, <2>1
    <3>2. /\ k.pc = "sent" /\ k.tx = call[d].tx /\ k.m = call[d].m /\ k.answer = verdict
          /\ k.result = call[d].result /\ k.doubts = call[d].doubts
          /\ k.attempt = call[d].attempt /\ k.told = call[d].told
      BY <1>3 DEF CallRecord
    <3> QED BY <1>8, <2>1, <3>1, <3>2
  <2>2. CASE ~(d = tx.by /\ call[d].pc = "sending" /\ call[d].tx = tx)
    BY <1>2, <1>3, <2>2
  <2> QED BY <2>1, <2>2
<1> QED BY <1>1, <1>4, <1>6, <1>7, <1>9, NetworkKeeps

\* Every step of a caller keeps the invariant.
LEMMA CallerKeeps == ASSUME IInv, NEW c \in Caller, Step(c) PROVE IInv'
BY ReadAnsweredKeeps, FirstAccountReadKeeps, AccountReadKeeps, AnsweredKeeps, PolledKeeps,
   ConfirmedKeeps, WakeKeeps, FailsKeeps DEF Step

\* Every step of a caller, of the network and of the ledger keeps the invariant.
LEMMA NextKeeps == IInv /\ [Next]_vars => IInv'
<1> SUFFICES ASSUME IInv, [Next]_vars PROVE IInv'
  OBVIOUS
<1>1. CASE UNCHANGED vars
  <2>1. UNCHANGED <<call, wire, queue, ledger, seq>>
    BY <1>1 DEF vars
  <2>2. CallsTyped' /\ InOnePlace'
    BY <2>1 DEF IInv, CallsTyped, InOnePlace, InSomeLedger
  <2>3. Known' \subseteq Known /\ \A d \in Caller : (Possible(d))' \subseteq Possible(d)
    BY <2>1 DEF Known, Possible, InSomeLedger, Done
  <2> QED BY <2>1, <2>2, <2>3, NetworkKeeps
<1>2. ASSUME NEW c \in Caller, Step(c) PROVE IInv'
  BY <1>2, CallerKeeps
<1>3. ASSUME NEW c \in Caller, NEW m \in Offered[c], Begin(c, m) PROVE IInv'
  BY <1>3, BeginKeeps
<1>4. ASSUME NEW tx \in wire, Lose(tx) PROVE IInv'
  BY <1>4, LoseKeeps
<1>5. ASSUME NEW tx \in wire, NEW verdict \in {"PENDING", "TRY_AGAIN_LATER", "ERROR"},
             Receive(tx, verdict)
      PROVE  IInv'
  BY <1>5, ReceiveKeeps
<1>6. ASSUME NEW tx \in queue, Close(tx) PROVE IInv'
  BY <1>6, LedgerClosesKeeps
<1> QED BY <1>1, <1>2, <1>3, <1>4, <1>5, <1>6 DEF Next

\* The invariant holds always.
LEMMA Inductive == Spec => []IInv
BY InitHolds, NextKeeps, PTL DEF Spec

-----------------------------------------------------------------------------
(* Theorems *)

\* An operation takes effect at most once more than its caller was left in doubt.
THEOREM AlwaysDoneOncePerDoubt == Spec => []DoneOncePerDoubt
<1>1. IInv => DoneOncePerDoubt
  <2> SUFFICES ASSUME IInv, NEW c \in Caller
               PROVE  Cardinality({tx \in Done : tx.by = c}) <= call[c].doubts + 1
    BY DEF DoneOncePerDoubt
  <2> DEFINE mine == {tx \in Done : tx.by = c}
  <2>1. /\ IsFiniteSet(Possible(c)) /\ Cardinality(Past(c, call[c])) <= call[c].doubts
        /\ call[c].doubts \in Nat
    BY DEF IInv, CallsTyped, Sound, CallRecord
  <2>2. mine \in SUBSET Possible(c)
    BY DEF Possible
  <2> HIDE DEF mine
  <2>3. Cardinality(mine) <= Cardinality(Possible(c)) /\ Cardinality(mine) \in Nat
    BY <2>1, <2>2, FS_Subset, FS_CardinalityType
  <2>4. /\ Cardinality(Possible(c)) \in Nat /\ Cardinality(Possible(c) \ {call[c].tx}) \in Nat
        /\ Cardinality(Possible(c)) <= Cardinality(Possible(c) \ {call[c].tx}) + 1
    BY <2>1, AllButOne
  <2>5. CASE Past(c, call[c]) = Possible(c)
    BY <2>1, <2>3, <2>4, <2>5 DEF mine
  <2>6. CASE Past(c, call[c]) = Possible(c) \ {call[c].tx}
    BY <2>1, <2>3, <2>4, <2>6 DEF mine
  <2> QED BY <2>5, <2>6 DEF Past
<1> QED BY Inductive, <1>1, PTL

\* What the factory and the custody client report as done is in a ledger.
THEOREM ConfirmedIsAlwaysDone == Spec => []ConfirmedMeansDone
<1>1. IInv => ConfirmedMeansDone
  BY DEF IInv, Sound, ConfirmedMeansDone
<1> QED BY Inductive, <1>1, PTL

\* A call that ends an attempt does not begin another.
LEMMA EndingIsNoAttempt ==
  ASSUME NEW k \in CallRecord, NEW c \in Caller
  PROVE  /\ Returned(k).attempt = k.attempt
         /\ \A code \in ErrorCodes, told \in BOOLEAN : \A fault :
               Thrown(k, c, Error(code, fault), told).attempt = k.attempt
<1>1. Returned(k).attempt = k.attempt
  BY DEF Returned, CallRecord
<1> QED BY <1>1, ThrownFields

\* Only withRetry's delay, and the call itself, begin an attempt: the delay that of a
\* call whose transaction is nowhere, if it knows its fate.
LEMMA AttemptsBegin ==
  ASSUME IInv, [Next]_vars, NEW c \in Caller, call'[c].attempt > call[c].attempt
  PROVE  call[c].told => call[c].tx \notin Known
<1>1. call \in [Caller -> CallRecord] /\ call[c].attempt \in Nat
  BY DEF IInv, CallsTyped, CallRecord
<1>2. ~(call'[c].attempt = call[c].attempt)
  BY <1>1
<1>3. ASSUME NEW d \in Caller, NEW k, call' = [call EXCEPT ![d] = k]
      PROVE  d = c /\ call'[c] = k
  BY <1>1, <1>2, <1>3
<1>4. ASSUME NEW d \in Caller, NEW code \in ErrorCodes, NEW fault, NEW told \in BOOLEAN,
             call' = [call EXCEPT ![d] = Thrown(call[d], d, Error(code, fault), told)]
      PROVE  FALSE
  BY <1>1, <1>2, <1>3, <1>4, EndingIsNoAttempt
<1>5. ASSUME NEW d \in Caller, call' = [call EXCEPT ![d] = Returned(call[d])] PROVE FALSE
  BY <1>1, <1>2, <1>3, <1>5, EndingIsNoAttempt
<1>6. ASSUME NEW d \in Caller, NEW pc, call' = [call EXCEPT ![d].pc = pc] PROVE FALSE
  BY <1>1, <1>2, <1>6 DEF CallRecord
<1>7. ASSUME NEW d \in Caller, Wake(d) PROVE call[c].told => call[c].tx \notin Known
  <2>1. d = c
    BY <1>1, <1>2, <1>7 DEF Wake
  <2> QED BY <1>7, <2>1 DEF Wake, IInv, Sound, KnowsItsFate
<1>8. ASSUME NEW d \in Caller, NEW m \in Offered[d], Begin(d, m) PROVE ~call[c].told
  <2>1. d = c
    BY <1>1, <1>2, <1>8 DEF Begin
  <2> QED BY <1>8, <2>1 DEF Begin, IInv, Sound, KnowsItsFate
<1>9. ASSUME NEW d \in Caller, ReadAnswered(d) PROVE FALSE
  BY <1>4, <1>5, <1>9 DEF ReadAnswered, ErrorCodes
<1>10. ASSUME NEW d \in Caller, FirstAccountRead(d) PROVE FALSE
  <2>1. \/ call' = [call EXCEPT ![d] = [call[d] EXCEPT !.pc = "building"]]
        \/ call' = [call EXCEPT ![d] =
                       Thrown(call[d], d, Error("INVALID_PARAMETERS", "none"), FALSE)]
    BY <1>10 DEF FirstAccountRead
  <2>2. CASE call' = [call EXCEPT ![d] = [call[d] EXCEPT !.pc = "building"]]
    BY <1>1, <1>2, <2>2 DEF CallRecord
  <2> QED BY <1>4, <2>1, <2>2 DEF ErrorCodes
<1>11. ASSUME NEW d \in Caller, AccountRead(d) PROVE FALSE
  <2>1. CASE \E code \in ErrorCodes :
               call' = [call EXCEPT ![d] = Thrown(call[d], d, Error(code, "none"), FALSE)]
    BY <1>4, <2>1
  <2>2. CASE \E dropped : call' = [call EXCEPT ![d].pc = "sending", ![d].tx = Built(d, dropped)]
    BY <1>1, <1>2, <2>2 DEF CallRecord
  <2> QED BY <1>11, <2>1, <2>2 DEF AccountRead, ErrorCodes
<1>12. ASSUME NEW d \in Caller, Answered(d) PROVE FALSE
  <2>1. CASE call' = [call EXCEPT ![d] = [call[d] EXCEPT !.pc = "polling"]]
    BY <1>1, <1>2, <2>1 DEF CallRecord
  <2>2. CASE call[d].answer = "ERROR"
    BY <1>4, <1>12, <2>2 DEF Answered, ErrorCodes
  <2>3. CASE call[d].answer # "ERROR" /\ call[d].m.client = "factory"
    BY <1>12, <2>1, <2>3 DEF Answered
  <2>4. CASE call[d].answer # "ERROR" /\ call[d].m.client # "factory"
    BY <1>4, <1>5, <1>12, <2>4 DEF Answered, ErrorCodes
  <2> QED BY <2>2, <2>3, <2>4
<1>13. ASSUME NEW d \in Caller, Polled(d) PROVE FALSE
  <2>1. InLedger(call[d].tx) \in BOOLEAN
    BY DEF InLedger
  <2> QED BY <1>4, <1>5, <1>13, <2>1 DEF Polled, ErrorCodes
<1>14. ASSUME NEW d \in Caller, Confirmed(d) PROVE FALSE
  BY <1>4, <1>5, <1>14, CallsAssumption DEF Confirmed, ErrorCodes
<1>15. ASSUME NEW d \in Caller, NEW fault \in Faults, Fails(d, fault) PROVE FALSE
  <2>1. \A error \in HandleErrors(call[d].m.client, call[d].pc, fault) :
           \E code \in ErrorCodes : error = Error(code, fault)
    BY HandledCodes
  <2>2. PICK error \in HandleErrors(call[d].m.client, call[d].pc, fault) :
           call' = [call EXCEPT ![d] = IF call[d].m.breaks = "open" THEN Returned(call[d])
                                       ELSE Thrown(call[d], d, error, FALSE)]
    BY <1>15 DEF Fails
  <2>3. PICK code \in ErrorCodes : error = Error(code, fault)
    BY <2>1, <2>2
  <2>4. CASE call[d].m.breaks = "open"
    BY <1>5, <2>2, <2>4
  <2>5. CASE call[d].m.breaks # "open"
    BY <1>4, <2>2, <2>3, <2>5
  <2> QED BY <2>4, <2>5
<1>16. ASSUME NEW tx \in wire, NEW verdict, Receive(tx, verdict) PROVE FALSE
  <2>1. \/ call' = call
        \/ call' = [call EXCEPT ![tx.by].pc = "sent", ![tx.by].answer = verdict]
    BY <1>16 DEF Receive
  <2> QED BY <1>1, <1>2, <2>1 DEF CallRecord
<1>17. ASSUME UNCHANGED call PROVE FALSE
  BY <1>2, <1>17
<1> QED BY <1>7, <1>8, <1>9, <1>10, <1>11, <1>12, <1>13, <1>14, <1>15, <1>16, <1>17
        DEF Next, Step, Lose, Close, vars

\* A call that knows the fate of its transaction is repeated only if that transaction is
\* in no ledger and on no way into one.
THEOREM RepeatedOnlyIfNowhere == Spec => RepeatedOnlyWhenSafe
<1> DEFINE A == \A c \in Caller :
                  call'[c].attempt > call[c].attempt /\ call[c].told =>
                     call[c].tx \notin wire \cup queue \cup {e.tx : e \in ledger}
<1>1. IInv /\ [Next]_vars => [A]_vars
  BY AttemptsBegin DEF Known, InSomeLedger
<1> QED BY Inductive, <1>1, PTL DEF Spec, RepeatedOnlyWhenSafe
=============================================================================
