--------------------------------- MODULE Caches ---------------------------------
(***************************************************************************)
(* The methods of the cached accessor: app/db/cached/accessor.go.          *)
(*                                                                         *)
(* A method passes its arguments on to the accessor of the database, in    *)
(* their order, and most keep the answer in the cache of a name under a    *)
(* key.  A row gives the arguments, the name and the arguments the key is  *)
(* made of.  A row also tells whether the mempool is asked for what the    *)
(* database does not have.  How a key is printed is abstracted to the      *)
(* values it is printed from.                                              *)
(***************************************************************************)
EXTENDS Sequences, TLC

Page == <<"limit", "token">>

Row(m, formals, key) ==
  [formals |-> formals, cache |-> m, key |-> key, fallback |-> ""]

\* Methods that keep their answer under their own name and all arguments.
Own(methods, formals) == [m \in methods |-> Row(m, formals, formals)]
\* Methods that keep nothing.
Passed(methods, formals) ==
  [m \in methods |-> [Row(m, formals, formals) EXCEPT !.cache = ""]]

\* CirculatingSupply and ActiveAddressesCount are kept whatever they are asked
\* for: the former is only asked for the configured addresses.
EpochCaches ==
  "CirculatingSupply" :> Row("CirculatingSupply", <<"frozen">>, <<>>) @@
  "ActiveAddressesCount" :> Row("ActiveAddressesCount", <<"afterTime">>, <<>>) @@
  Own({"Search"}, <<"value">>) @@
  Own({"Coins", "EpochsCount", "LastEpoch"}, <<>>) @@
  Own({"Epochs"}, Page) @@
  Own({"Epoch", "EpochBlocksCount", "EpochFlipsCount", "EpochFlipAnswersSummary",
       "EpochFlipStatesSummary", "EpochFlipWrongWordsSummary",
       "EpochIdentityStatesSummary", "EpochIdentityStatesInterimSummary",
       "EpochInvitesSummary", "EpochInviteStatesSummary"}, <<"epoch">>) @@
  Own({"EpochBlocks", "EpochFlips"}, <<"epoch">> \o Page) @@
  Own({"EpochIdentitiesCount"}, <<"epoch", "prevStates", "states">>) @@
  Own({"EpochIdentities"}, <<"epoch", "prevStates", "states">> \o Page)

EpochListCaches ==
  Own({"EpochInvitesCount", "EpochTxsCount", "EpochCoins", "EpochRewardsSummary",
       "EpochBadAuthorsCount", "EpochIdentitiesRewardsCount",
       "EpochFundPayments", "EpochRewardBounds"}, <<"epoch">>) @@
  Own({"EpochInvites", "EpochTxs", "EpochBadAuthors", "EpochIdentitiesRewards",
       "EpochDelegateeTotalRewards"}, <<"epoch">> \o Page)

EpochIdentityCaches ==
  Own({"EpochIdentity", "EpochIdentityShortFlipsToSolve",
       "EpochIdentityLongFlipsToSolve", "EpochIdentityShortAnswers",
       "EpochIdentityLongAnswers", "EpochIdentityFlips",
       "EpochIdentityFlipsWithRewardFlag", "EpochIdentityReportedFlipRewards",
       "EpochIdentityRewards", "EpochIdentityBadAuthor",
       "EpochIdentityInvitesWithRewardFlag", "EpochIdentitySavedInviteRewards",
       "EpochIdentityAvailableInvites", "EpochIdentityInviteeWithRewardFlag",
       "EpochIdentityValidationSummary", "EpochAddressDelegateeTotalRewards"},
      <<"epoch", "address">>) @@
  Own({"EpochDelegateeRewards"}, <<"epoch", "address">> \o Page)

BlockCaches ==
  Own({"BlockByHeight", "BlockTxsCountByHeight", "BlockCoinsByHeight"},
      <<"height">>) @@
  Own({"BlockByHash", "BlockTxsCountByHash", "BlockCoinsByHash"}, <<"hash">>) @@
  Own({"BlockTxsByHeight"}, <<"height">> \o Page) @@
  Own({"BlockTxsByHash"}, <<"hash">> \o Page) @@
  Own({"LastBlock"}, <<>>) @@
  Own({"Flip", "FlipContent", "FlipEpochAdjacentFlips"}, <<"hash">>) @@
  Own({"FlipAnswers"}, <<"hash", "isShort">>)

IdentityCaches ==
  Own({"Identity", "IdentityAge", "IdentityCurrentFlipCids",
       "IdentityEpochsCount", "IdentityFlipsCount",
       "IdentityFlipQualifiedAnswers", "IdentityFlipStates",
       "IdentityInvitesCount", "IdentityTxsCount", "IdentityRewardsCount",
       "IdentityEpochRewardsCount"}, <<"address">>) @@
  Own({"IdentityEpochs", "IdentityFlips", "IdentityInvites", "IdentityTxs",
       "IdentityRewards", "IdentityEpochRewards"}, <<"address">> \o Page)

AddressCaches ==
  Own({"Address", "AddressPenaltiesCount", "AddressStatesCount",
       "AddressBadAuthorsCount", "AddressBalanceUpdatesCount",
       "AddressBalanceUpdatesSummary"}, <<"address">>) @@
  Own({"AddressPenalties", "AddressStates", "AddressBadAuthors",
       "AddressBalanceUpdates", "AddressDelegateeTotalRewards",
       "AddressMiningRewardSummaries", "AddressTokens",
       "AddressDelegations"}, <<"address">> \o Page) @@
  Own({"AddressTotalLatestMiningReward", "AddressTotalLatestBurntCoins"},
      <<"afterTime", "address">>) @@
  Own({"AddressToken"}, <<"address", "tokenAddress">>)

\* A transaction the database does not have is looked for in the mempool, and
\* what is found there is kept like the other answers.
TransactionCaches ==
  "Transaction" :> [Row("Transaction", <<"hash">>, <<"hash">>) EXCEPT
                      !.fallback = "GetTransaction"] @@
  "TransactionRaw" :> [Row("TransactionRaw", <<"hash">>, <<"hash">>) EXCEPT
                         !.fallback = "GetTransactionRaw"] @@
  Own({"TransactionEvents"}, <<"hash">> \o Page) @@
  Own({"BalancesCount"}, <<>>) @@
  Own({"Balances"}, <<"sortBy">> \o Page) @@
  Own({"TotalLatestMiningRewardsCount", "TotalLatestBurntCoinsCount"},
      <<"afterTime">>) @@
  Own({"TotalLatestMiningRewards", "TotalLatestBurntCoins"},
      <<"afterTime", "startIndex", "limit">>)

\* The lists of votings and the contracts of an address are never kept.
ContractCaches ==
  Own({"Contract", "ContractVerifiedCodeFile", "TimeLockContract",
       "MultisigContract", "OracleLockContract",
       "RefundableOracleLockContract"}, <<"address">>) @@
  Own({"ContractTxBalanceUpdates"}, <<"contractAddress">> \o Page) @@
  Own({"AddressOracleVotingContracts"}, <<"address">> \o Page) @@
  Passed({"OracleVotingContracts"},
         <<"author", "oracle", "states", "all", "sortBy">> \o Page) @@
  Passed({"OracleVotingContract"}, <<"address", "oracle">>) @@
  Passed({"EstimatedOracleRewards"}, <<>>) @@
  Passed({"AddressContractTxBalanceUpdates"},
         <<"address", "contractAddress">> \o Page)

PoolCaches ==
  Own({"Upgrades", "UpgradeVotings", "Pools"}, Page) @@
  Own({"UpgradeVotingHistory", "Upgrade"}, <<"upgrade">>) @@
  Own({"PoolsCount", "MinersHistory"}, <<>>) @@
  Own({"Pool", "PoolDelegatorsCount", "Token"}, <<"address">>) @@
  Own({"PoolDelegators", "PoolSizeHistory", "TokenHolders"},
      <<"address">> \o Page) @@
  Own({"PeersHistory"}, <<"limit">>) @@
  Passed({"DynamicEndpoints"}, <<>>) @@
  Own({"DynamicEndpointData"}, <<"name", "rowLimit">>)

AllCaches ==
  EpochCaches @@ EpochListCaches @@ EpochIdentityCaches @@ BlockCaches @@
  IdentityCaches @@ AddressCaches @@ TransactionCaches @@ ContractCaches @@
  PoolCaches

================================================================================
