------------------------------ MODULE SdkMethods ------------------------------
(* What each method of the SDK's clients does, as data: which arguments it   *)
(* checks before it talks to anyone, whether it asks the network, which      *)
(* contract function it calls, and which of the helpers it relies on throws. *)
(* SdkCalls gives the descriptions their behaviour.                          *)
(*                                                                           *)
(*   client  the class the method belongs to: it fixes how a transaction is  *)
(*           signed and submitted and how an error is reported               *)
(*   kind    "write" builds and sends a transaction, "read" asks once,       *)
(*           "local" answers by itself                                       *)
(*   fn      the contract function called, or what is asked                  *)
(*   checks  arguments validated first, with InvalidParametersError          *)
(*   late    arguments validated after the account was read                  *)
(*   breaks  "convert": the argument converter throws "not implemented"      *)
(*           "extract": the converter of the answer does                     *)
(*           "always":  the body does;  "open": an error becomes an answer   *)
(*           "stale":   transactions are built on the account and dropped    *)

Plain(client, kind, fn, checks) ==
    [client |-> client, kind |-> kind, fn |-> fn, checks |-> checks,
     late |-> {}, breaks |-> "never"]
Write(client, fn, checks) == Plain(client, "write", fn, checks)
Read(client, fn, checks) == Plain(client, "read", fn, checks)
Local(client, checks) == Plain(client, "local", "none", checks)
Breaking(m, how) == [m EXCEPT !.breaks = how]

-----------------------------------------------------------------------------
(* TokenClient *)

GetTokenInfo == Read("token", "get_token_info", {})
GetBalance == Read("token", "get_balance", {"address"})
Transfer == Write("token", "transfer", {"from", "to", "amount", "fee", "timeout"})
Mint == Write("token", "mint", {"admin", "to", "amount"})
Burn == Write("token", "burn", {"owner", "amount"})
LockTokens == Write("token", "lock_tokens", {"owner", "amount", "lockPeriod"})
UnlockTokens == Write("token", "unlock_tokens", {"owner", "amount"})
Pause == Write("token", "pause", {"admin"})
Unpause == Write("token", "unpause", {"admin"})
Freeze == Write("token", "freeze", {"admin"})
Unfreeze == Write("token", "unfreeze", {"admin"})
GetTokenStats == Read("token", "get_token_info", {})
GetTransferHistory == Read("token", "payments", {"address", "limit"})
EstimateTransferFee == Local("token", {"from", "to", "amount"})
CheckTransferAllowed ==
    Breaking(Read("token", "check_transfer_compliance", {"from", "to", "amount"}), "open")

TokenMethods ==
    {GetTokenInfo, GetBalance, Transfer, Mint, Burn, LockTokens, UnlockTokens, Pause,
     Unpause, Freeze, Unfreeze, GetTokenStats, GetTransferHistory,
     EstimateTransferFee, CheckTransferAllowed}

-----------------------------------------------------------------------------
(* MarketClient *)

OrderFields == {"trader", "tokenAddress", "amount", "price"}
CreateBuyOrder == Breaking(Write("market", "create_buy_order", OrderFields), "extract")
CreateSellOrder == Breaking(Write("market", "create_sell_order", OrderFields), "extract")
CancelOrder == Write("market", "cancel_order", {"trader", "orderId"})
MatchOrders == Write("market", "match_orders", {"caller", "tokenAddress"})
GetOrderBook == Breaking(Read("market", "get_order_book", {"tokenAddress"}), "extract")
GetOrder == Breaking(Read("market", "get_order", {"orderId"}), "extract")
GetUserOrders == Breaking(Read("market", "get_user_orders", {"user"}), "extract")
GetRecentTrades ==
    Breaking(Read("market", "get_recent_trades", {"tokenAddress", "limit"}), "extract")
AddSupportedToken == Write("market", "add_supported_token", {"admin", "tokenAddress"})
SetPauseStatus == Write("market", "set_pause_status", {"admin"})
UpdateMarketConfig ==
    Breaking(Write("market", "update_config", {"admin", "feeRate"}), "convert")
GetMarketStats == Local("market", {})
GetPriceHistory == Breaking(Local("market", {}), "always")
EstimateTradingFee == Local("market", {"amount", "price"})
GetMarketDepth ==
    Breaking(Read("market", "get_order_book", {"tokenAddress", "depth"}), "extract")

MarketMethods ==
    {CreateBuyOrder, CreateSellOrder, CancelOrder, MatchOrders, GetOrderBook, GetOrder,
     GetUserOrders, GetRecentTrades, AddSupportedToken, SetPauseStatus,
     UpdateMarketConfig, GetMarketStats, GetPriceHistory, EstimateTradingFee,
     GetMarketDepth}

-----------------------------------------------------------------------------
(* ComplianceClient *)

InitializeRegistry ==
    Write("compliance", "initialize",
          {"deployer", "admin", "kycRequired", "transferRestrictions", "fee", "timeout"})
UpdateKYCStatus ==
    Breaking(Write("compliance", "update_kyc_status", {"admin", "user"}), "convert")
GetKYCStatus == Breaking(Read("compliance", "get_kyc_status", {"user"}), "extract")
AddToBlacklist == Write("compliance", "add_to_blacklist", {"admin", "address", "reason"})
RemoveFromBlacklist == Write("compliance", "remove_from_blacklist", {"admin", "address"})
AddToWhitelist == Write("compliance", "add_to_whitelist", {"admin", "address"})
RemoveFromWhitelist == Write("compliance", "remove_from_whitelist", {"admin", "address"})
CheckCompliance == Read("compliance", "check_compliance", {"from", "to", "amount"})
CheckTransferLimits == Read("compliance", "check_transfer_limits", {"user"})
SetTransferLimits ==
    Breaking(Write("compliance", "set_transfer_limits",
                   {"admin", "user", "dailyLimit", "monthlyLimit", "annualLimit"}),
             "convert")
GetComplianceRules == Breaking(Read("compliance", "get_compliance_rules", {}), "extract")
UpdateComplianceRule ==
    Breaking(Write("compliance", "update_compliance_rule", {"admin", "ruleId", "name"}),
             "convert")
GetComplianceStats == Local("compliance", {})
GetUserComplianceHistory == Breaking(Local("compliance", {}), "always")
BatchUpdateKYCStatus ==
    Breaking(Write("compliance", "update_kyc_status", {"admin", "updates", "user"}),
             "convert")
GetAuditTrail == Local("compliance", {})

ComplianceMethods ==
    {InitializeRegistry, UpdateKYCStatus, GetKYCStatus, AddToBlacklist,
     RemoveFromBlacklist, AddToWhitelist, RemoveFromWhitelist, CheckCompliance,
     CheckTransferLimits, SetTransferLimits, GetComplianceRules, UpdateComplianceRule,
     GetComplianceStats, GetUserComplianceHistory, BatchUpdateKYCStatus, GetAuditTrail}

-----------------------------------------------------------------------------
(* DividendClient *)

CreateDistribution ==
    Breaking(Write("dividend", "create_distribution",
                   {"admin", "tokenAddress", "amount", "claimDeadline"}), "extract")
ClaimDividend ==
    Breaking(Write("dividend", "claim_dividend", {"claimer", "distributionId"}), "extract")
ClaimAllDividends == Breaking(Write("dividend", "claim_all_dividends", {"claimer"}), "extract")
GetDistribution == Breaking(Read("dividend", "get_distribution", {"distributionId"}), "extract")
GetActiveDistributions ==
    Breaking(Read("dividend", "get_active_distributions", {"tokenAddress"}), "extract")
GetClaimInfo ==
    Breaking(Read("dividend", "get_claim_info", {"distributionId", "claimer"}), "extract")
CalculateAvailableDividend ==
    Read("dividend", "calculate_available_dividend", {"distributionId", "claimer"})
UpdateDividendConfig ==
    Breaking(Write("dividend", "update_config", {"admin", "feeRate"}), "convert")
DeactivateDistribution ==
    Write("dividend", "deactivate_distribution", {"admin", "distributionId"})
GetDividendStats == Local("dividend", {})
GetUserDividendHistory == Breaking(Local("dividend", {}), "always")
EstimateClaimFee == Local("dividend", {})

DividendMethods ==
    {CreateDistribution, ClaimDividend, ClaimAllDividends, GetDistribution,
     GetActiveDistributions, GetClaimInfo, CalculateAvailableDividend,
     UpdateDividendConfig, DeactivateDistribution, GetDividendStats,
     GetUserDividendHistory, EstimateClaimFee}

-----------------------------------------------------------------------------
(* AssetFactory: the account is read, the rest of the details checked, and   *)
(* the account read again to build the transaction.                          *)

Deploy(checks, late) == [Write("factory", "create_asset", checks) EXCEPT !.late = late]
DeployRealEstateToken ==
    Deploy({"propertyAddress", "locationOracle", "appraisalValue", "rentalYieldRate"}, {})
DeployCommodityToken ==
    Deploy({"commodityType", "physicalRedemptionWindow"}, {"purityGrade"})
DeployInvoiceToken ==
    Deploy({"invoiceNumber", "invoiceAmount"}, {"dueDate", "creditRating"})
DeploySecurityToken == Deploy({"equityType"}, {"regulationFramework"})
EstimateDeploymentCost == Local("factory", {"assetClass"})
GetAllAssets == Breaking(Read("factory", "registry", {}), "open")
EmergencyPauseAll == Write("factory", "emergency_pause_all", {})

FactoryMethods ==
    {DeployRealEstateToken, DeployCommodityToken, DeployInvoiceToken,
     DeploySecurityToken, EstimateDeploymentCost, GetAllAssets, EmergencyPauseAll}

-----------------------------------------------------------------------------
(* CustodyClient, the batch builder and the deployment workflow *)

RegisterCustodian ==
    Breaking(Write("custody", "register_custodian",
                   {"name", "jurisdiction", "licenseNumber", "bondRequired",
                    "insuranceProvider"}), "stale")
SubmitAttestation == Write("custody", "submit_attestation", {"assetId"})
VerifyAssetBacking == Local("custody", {"tokenAddress"})
GetCustodyHistory == Local("custody", {"assetId"})
InitiateDispute == Write("custody", "dispute_attestation", {"reason", "bondAmount"})
TriggerInsuranceClaim ==
    Write("custody", "trigger_insurance_claim", {"assetId", "claimReason", "evidenceHash"})
GetDispute == Breaking(Local("custody", {"disputeId"}), "always")
GetCustodianInfo == Breaking(Local("custody", {}), "always")
ListActiveCustodians == Breaking(Local("custody", {}), "always")
GetVerificationConfig == Breaking(Local("custody", {}), "always")

CustodyMethods ==
    {RegisterCustodian, SubmitAttestation, VerifyAssetBacking, GetCustodyHistory,
     InitiateDispute, TriggerInsuranceClaim, GetDispute, GetCustodianInfo,
     ListActiveCustodians, GetVerificationConfig}

SubmitBatch == Write("batch", "batch", {"source", "operations", "fee", "timeout"})

(* deployCompleteRWAToken calls a factory method that does not exist, so     *)
(* whatever it was given it fails before its first step.                     *)
DeployCompleteRWAToken == Breaking(Local("sdk", {"deployer", "fee", "timeout"}), "always")

AllMethods ==
    TokenMethods \cup MarketMethods \cup ComplianceMethods \cup DividendMethods
      \cup FactoryMethods \cup CustodyMethods \cup {SubmitBatch, DeployCompleteRWAToken}
=============================================================================
