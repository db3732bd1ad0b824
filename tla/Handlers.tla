-------------------------------- MODULE Handlers --------------------------------
(***************************************************************************)
(* The handlers of the HTTP server: app/api/server.go.                     *)
(*                                                                         *)
(* A handler reads its parameters, answers an error if a number among them *)
(* cannot be read, and otherwise passes them to one method of a service.   *)
(* The tables give, for the method a handler calls, the parameters in the  *)
(* order of the call; a parameter has the name the service gives it.  A    *)
(* handler that calls one of two methods is two rows.  Names of caches,    *)
(* texts and the layout of the answers are left out.                       *)
(***************************************************************************)
EXTENDS Sequences, TLC

Paging == <<"limit", "token">>

\* The rows of several handlers with the same parameters.
Each(methods, params) == [m \in methods |-> params]

\* data looks the method of the URL up among the dynamic endpoints; the limit
\* comes from there.
GeneralHandlers ==
  "DynamicEndpointData" :> <<"name", "rowLimit">> @@ "Search" :> <<"value">> @@
  "Coins" :> <<>> @@ "CirculatingSupply" :> <<"frozen">>

EpochsHandlers ==
  Each({"Upgrades", "Epochs"}, Paging) @@
  Each({"EpochsCount", "LastEpoch"}, <<>>) @@
  Each({"Epoch", "EpochBlocksCount"}, <<"epoch">>)

EpochBlocksHandlers ==
  Each({"EpochBlocks", "EpochFlips"}, <<"epoch">> \o Paging) @@
  Each({"EpochFlipsCount", "EpochFlipStatesSummary",
        "EpochFlipWrongWordsSummary"}, <<"epoch">>)

EpochIdentitiesHandlers ==
  "EpochIdentitiesCount" :> <<"epoch", "prevStates", "states">> @@
  "EpochIdentities" :> <<"epoch", "prevStates", "states">> \o Paging

EpochStatesHandlers ==
  Each({"EpochIdentityStatesSummary", "EpochIdentityStatesInterimSummary",
        "EpochInvitesSummary", "EpochInviteStatesSummary",
        "EpochInvitesCount"}, <<"epoch">>) @@
  "EpochInvites" :> <<"epoch">> \o Paging

EpochTxsHandlers ==
  Each({"EpochTxsCount", "EpochCoins", "EpochRewardsSummary",
        "EpochBadAuthorsCount"}, <<"epoch">>) @@
  Each({"EpochTxs", "EpochBadAuthors"}, <<"epoch">> \o Paging)

EpochRewardsHandlers ==
  Each({"EpochIdentitiesRewardsCount", "EpochFundPayments",
        "EpochRewardBounds"}, <<"epoch">>) @@
  Each({"EpochIdentitiesRewards", "EpochDelegateeTotalRewards"},
       <<"epoch">> \o Paging)

EpochIdentityAnswersHandlers ==
  Each({"EpochIdentity", "EpochIdentityShortFlipsToSolve",
        "EpochIdentityLongFlipsToSolve", "EpochIdentityShortAnswers",
        "EpochIdentityLongAnswers", "EpochIdentityFlips"},
       <<"epoch", "address">>)

EpochIdentityRewardsHandlers ==
  Each({"EpochIdentityFlipsWithRewardFlag", "EpochIdentityReportedFlipRewards",
        "EpochIdentityBadAuthor", "EpochIdentityRewards",
        "EpochIdentityInvitesWithRewardFlag",
        "EpochIdentitySavedInviteRewards"}, <<"epoch", "address">>)

EpochIdentityProofHandlers ==
  Each({"EpochIdentityAvailableInvites", "EpochIdentityInviteeWithRewardFlag",
        "EpochIdentityValidationSummary",
        "EpochAddressDelegateeTotalRewards"}, <<"epoch", "address">>) @@
  "IdentityWithProof" :> <<"address", "epoch">> @@
  "EpochDelegateeRewards" :> <<"epoch", "address">> \o Paging

\* The id of a block is its height if it is a number and else its hash.
BlockHandlers ==
  Each({"BlockByHeight", "BlockTxsCountByHeight", "BlockCoinsByHeight"},
       <<"height">>) @@
  Each({"BlockByHash", "BlockTxsCountByHash", "BlockCoinsByHash"}, <<"hash">>) @@
  "BlockTxsByHeight" :> <<"height">> \o Paging @@
  "BlockTxsByHash" :> <<"hash">> \o Paging @@
  "LastBlock" :> <<>>

IdentityHandlers ==
  Each({"Identity", "IdentityAge", "IdentityCurrentFlipCids",
        "IdentityEpochsCount", "IdentityFlipsCount", "IdentityFlipStates"},
       <<"address">>) @@
  Each({"IdentityEpochs", "IdentityFlips"}, <<"address">> \o Paging)

IdentityRewardsHandlers ==
  Each({"IdentityFlipQualifiedAnswers", "IdentityInvitesCount",
        "IdentityTxsCount", "IdentityRewardsCount"}, <<"address">>) @@
  Each({"IdentityInvites", "IdentityTxs", "IdentityRewards"},
       <<"address">> \o Paging)

FlipHandlers ==
  "IdentityEpochRewardsCount" :> <<"address">> @@
  "IdentityEpochRewards" :> <<"address">> \o Paging @@
  Each({"Flip", "FlipContent", "FlipEpochAdjacentFlips"}, <<"hash">>) @@
  "FlipAnswers" :> <<"hash", "isShort">>

AddressHandlers ==
  Each({"Address", "AddressPenaltiesCount", "AddressStatesCount",
        "AddressBadAuthorsCount", "AddressBalanceUpdatesCount"},
       <<"address">>) @@
  Each({"AddressPenalties", "AddressStates", "AddressBadAuthors",
        "AddressBalanceUpdates"}, <<"address">> \o Paging) @@
  Each({"AddressTotalLatestMiningReward", "AddressTotalLatestBurntCoins"},
       <<"afterTime", "address">>)

AddressTokensHandlers ==
  "AddressBalanceUpdatesSummary" :> <<"address">> @@
  Each({"AddressDelegateeTotalRewards", "AddressMiningRewardSummaries",
        "AddressTokens", "AddressDelegations"}, <<"address">> \o Paging) @@
  "AddressToken" :> <<"address", "tokenAddress">>

\* memPoolTxs reads a continuation token and leaves it.
TransactionHandlers ==
  Each({"Transaction", "TransactionRaw"}, <<"hash">>) @@
  "TransactionEvents" :> <<"hash">> \o Paging @@
  Each({"BalancesCount", "Staking", "MemPoolTxsCount"}, <<>>) @@
  "Balances" :> <<"sortBy">> \o Paging @@
  "MemPoolTxs" :> <<"limit">>

OracleVotingHandlers ==
  "OracleVotingContracts" :>
     <<"author", "oracle", "states", "all", "sortBy">> \o Paging @@
  "AddressOracleVotingContracts" :> <<"address">> \o Paging @@
  Each({"TimeLockContract", "OracleLockContract",
        "RefundableOracleLockContract"}, <<"address">>) @@
  "OracleVotingContract" :> <<"address", "oracle">>

\* verifyContract refuses a body that cannot be read or is too large.
ContractHandlers ==
  Each({"MultisigContract", "Contract", "ContractVerifiedCodeFile"},
       <<"address">>) @@
  "EstimatedOracleRewards" :> <<>> @@
  "AddressContractTxBalanceUpdates" :>
     <<"address", "contractAddress">> \o Paging @@
  "VerifyContract" :> <<"address", "data">> @@
  "ContractTxBalanceUpdates" :> <<"contractAddress">> \o Paging

OnlineHandlers ==
  Each({"GetOnlineIdentitiesCount", "GetOnlineCount", "MinersHistory",
        "ValidatorsCount", "OnlineValidatorsCount", "ForkCommitteeCount"}, <<>>) @@
  Each({"GetOnlineIdentities", "Validators", "OnlineValidators"}, Paging) @@
  "GetOnlineIdentity" :> <<"address">> @@
  "PeersHistory" :> <<"limit">> @@
  "SignatureAddress" :> <<"value", "signature">>

UpgradeHandlers ==
  "UpgradeVotings" :> Paging @@
  "UpgradeVoting" :> <<>> @@
  Each({"UpgradeVotingHistory", "Upgrade"}, <<"upgrade">>) @@
  "ForkChangeLog" :> <<"version">>

PoolHandlers ==
  "PoolsCount" :> <<>> @@
  "Pools" :> Paging @@
  Each({"Pool", "PoolDelegatorsCount", "Token"}, <<"address">>) @@
  Each({"PoolDelegators", "PoolSizeHistory", "TokenHolders"},
       <<"address">> \o Paging)

AllHandlers ==
  GeneralHandlers @@ EpochsHandlers @@ EpochBlocksHandlers @@
  EpochIdentitiesHandlers @@ EpochStatesHandlers @@ EpochTxsHandlers @@
  EpochRewardsHandlers @@ EpochIdentityAnswersHandlers @@
  EpochIdentityRewardsHandlers @@ EpochIdentityProofHandlers @@ BlockHandlers @@
  IdentityHandlers @@ IdentityRewardsHandlers @@ FlipHandlers @@
  AddressHandlers @@ AddressTokensHandlers @@ TransactionHandlers @@
  OracleVotingHandlers @@ ContractHandlers @@ OnlineHandlers @@
  UpgradeHandlers @@ PoolHandlers

================================================================================
