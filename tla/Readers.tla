--------------------------------- MODULE Readers ---------------------------------
(***************************************************************************)
(* The readers of the database: app/db/postgres.                           *)
(*                                                                         *)
(* A reader checks some of its arguments (a continuation token, names of   *)
(* states) before it asks the database, then runs its queries one after    *)
(* another.  "row" reads one row, "list" every row, "page" a row more than *)
(* the limit, whose key becomes the next token.  A row gives the arguments *)
(* of the reader in order, those it checks and, for each query, the kind   *)
(* and the arguments bound to the query or chosen by.  Queries,            *)
(* columns and the arithmetic on what is read are left out.                *)
(***************************************************************************)
EXTENDS Naturals, Sequences, TLC

Query(kind, args) == [kind |-> kind, args |-> args]
Reader(formals, checked, queries) ==
  [formals |-> formals, checked |-> checked, queries |-> queries]

\* Readers with one query that binds all arguments.
Single(kind, methods, formals) ==
  [m \in methods |-> Reader(formals, {}, <<Query(kind, formals)>>)]
Row1(methods, formals) == Single("row", methods, formals)
Rows(methods, formals) == Single("list", methods, formals)
Pages(methods, formals) ==
  LET all == formals \o <<"limit", "token">>
  IN [m \in methods |-> Reader(all, {"token"}, <<Query("page", all)>>)]

AddressReaders ==
  Row1({"Address", "AddressPenaltiesCount", "AddressStatesCount",
        "AddressBadAuthorsCount"}, <<"address">>) @@
  Pages({"AddressPenalties", "AddressStates", "AddressBadAuthors"},
        <<"address">>) @@
  Row1({"AddressTotalLatestMiningReward", "AddressTotalLatestBurntCoins"},
       <<"afterTime", "address">>)

AddressBalanceReaders ==
  Row1({"AddressBalanceUpdatesCount"}, <<"address">>) @@
  Pages({"AddressBalanceUpdates"}, <<"address">>) @@
  Pages({"AddressContractTxBalanceUpdates"}, <<"address", "contractAddress">>)

AddressListReaders ==
  Row1({"AddressBalanceUpdatesSummary"}, <<"address">>) @@
  Pages({"AddressDelegateeTotalRewards", "AddressMiningRewardSummaries",
         "AddressTokens"}, <<"address">>) @@
  Row1({"AddressToken"}, <<"address", "tokenAddress">>)

AddressDelegationsReader == Pages({"AddressDelegations"}, <<"address">>)

\* Balances chooses one of two queries by sortBy.
BalancesReaders ==
  Row1({"BalancesCount"}, <<>>) @@
  Pages({"Balances"}, <<"sortBy">>) @@
  Row1({"TotalLatestMiningRewardsCount", "TotalLatestBurntCoinsCount"},
       <<"afterTime">>) @@
  Rows({"TotalLatestMiningRewards", "TotalLatestBurntCoins"},
       <<"afterTime", "startIndex", "limit">>)

BlockReaders ==
  Row1({"BlockByHeight", "BlockTxsCountByHeight", "BlockCoinsByHeight"},
       <<"height">>) @@
  Row1({"BlockByHash", "BlockTxsCountByHash", "BlockCoinsByHash"}, <<"hash">>) @@
  Row1({"LastBlock"}, <<>>) @@
  Pages({"BlockTxsByHeight"}, <<"height">>) @@
  Pages({"BlockTxsByHash"}, <<"hash">>)

ContractReaders ==
  Row1({"Contract", "ContractVerifiedCodeFile"}, <<"address">>) @@
  Pages({"ContractTxBalanceUpdates"}, <<"contractAddress">>)

LockReaders ==
  Row1({"TimeLockContract", "OracleLockContract", "RefundableOracleLockContract",
        "MultisigContract"}, <<"address">>) @@
  Rows({"OracleVotingContract"}, <<"address", "oracle">>)

\* The lists of votings parse their token, if at all, with the other filters,
\* and hand it to the query as it came.
OracleVotingReaders ==
  LET all == <<"author", "oracle", "states", "all", "sortBy", "limit", "token">>
      ofAddress == <<"address", "limit", "token">>
  IN "OracleVotingContracts" :>
       Reader(all, {"states", "sortBy", "token"}, <<Query("page", all)>>) @@
     "AddressOracleVotingContracts" :>
       Reader(ofAddress, {}, <<Query("page", ofAddress)>>)

\* The rewards are computed from the size of the network, without a query.
EstimatedRewardsReader == "EstimatedOracleRewards" :> Reader(<<>>, {}, <<>>)

DynamicReaders ==
  Rows({"DynamicEndpoints"}, <<>>) @@
  Rows({"DynamicEndpointData"}, <<"name", "rowLimit">>)

EpochReaders ==
  Row1({"LastEpoch"}, <<>>) @@
  Row1({"Epoch", "EpochBlocksCount", "EpochFlipsCount"}, <<"epoch">>) @@
  Pages({"EpochBlocks", "EpochFlips"}, <<"epoch">>) @@
  Rows({"EpochFlipAnswersSummary", "EpochFlipStatesSummary",
        "EpochFlipWrongWordsSummary"}, <<"epoch">>)

EpochIdentitiesReaders ==
  LET filter == <<"epoch", "prevStates", "states">>
      all == filter \o <<"limit", "token">>
  IN "EpochIdentitiesCount" :>
       Reader(filter, {"prevStates", "states"}, <<Query("row", filter)>>) @@
     "EpochIdentities" :>
       Reader(all, {"prevStates", "states", "token"}, <<Query("page", all)>>)

EpochSummaryReaders ==
  Rows({"EpochIdentityStatesSummary", "EpochIdentityStatesInterimSummary",
        "EpochInviteStatesSummary"}, <<"epoch">>) @@
  Row1({"EpochInvitesSummary", "EpochInvitesCount", "EpochTxsCount",
        "EpochCoins", "EpochRewardsSummary", "EpochBadAuthorsCount"},
       <<"epoch">>) @@
  Pages({"EpochInvites", "EpochTxs", "EpochBadAuthors"}, <<"epoch">>)

EpochRewardsReaders ==
  Row1({"EpochIdentitiesRewardsCount"}, <<"epoch">>) @@
  Pages({"EpochIdentitiesRewards", "EpochDelegateeTotalRewards"}, <<"epoch">>) @@
  Rows({"EpochFundPayments", "EpochRewardBounds"}, <<"epoch">>)

EpochDelegateeReaders ==
  Pages({"EpochDelegateeRewards"}, <<"epoch", "address">>) @@
  Rows({"EpochAddressDelegateeTotalRewards"}, <<"epoch", "address">>)

EpochIdentityReaders ==
  Row1({"EpochIdentity"}, <<"epoch", "address">>) @@
  Rows({"EpochIdentityShortFlipsToSolve", "EpochIdentityLongFlipsToSolve",
        "EpochIdentityShortAnswers", "EpochIdentityLongAnswers",
        "EpochIdentityFlips", "EpochIdentityFlipsWithRewardFlag"},
       <<"epoch", "address">>)

EpochIdentityRewardReaders ==
  Rows({"EpochIdentityReportedFlipRewards", "EpochIdentityRewards",
        "EpochIdentityInvitesWithRewardFlag", "EpochIdentitySavedInviteRewards",
        "EpochIdentityAvailableInvites"}, <<"epoch", "address">>) @@
  Row1({"EpochIdentityBadAuthor", "EpochIdentityInviteeWithRewardFlag"},
       <<"epoch", "address">>)

EpochValidationReader ==
  Row1({"EpochIdentityValidationSummary"}, <<"epoch", "address">>)

EpochsReaders == Row1({"EpochsCount"}, <<>>) @@ Pages({"Epochs"}, <<>>)

FlipReaders ==
  Row1({"Flip", "FlipEpochAdjacentFlips"}, <<"hash">>) @@
  "FlipContent" :> Reader(<<"hash">>, {},
     <<Query("list", <<"hash">>), Query("list", <<"hash">>)>>) @@
  Rows({"FlipAnswers"}, <<"hash", "isShort">>)

IdentityReaders ==
  "Identity" :> Reader(<<"address">>, {},
     <<Query("row", <<"address">>), Query("list", <<"address">>)>>) @@
  Row1({"IdentityAge", "IdentityEpochsCount", "IdentityInvitesCount",
        "IdentityTxsCount"}, <<"address">>) @@
  Rows({"IdentityCurrentFlipCids", "IdentityFlipStates",
        "IdentityFlipQualifiedAnswers"}, <<"address">>) @@
  Pages({"IdentityEpochs", "IdentityInvites", "IdentityTxs"}, <<"address">>)

IdentityRewardReaders ==
  Row1({"IdentityRewardsCount", "IdentityEpochRewardsCount",
        "IdentityFlipsCount"}, <<"address">>) @@
  Pages({"IdentityRewards", "IdentityEpochRewards", "IdentityFlips"},
        <<"address">>)

MinersReader == Rows({"MinersHistory"}, <<>>)

PeersReader == Rows({"PeersHistory"}, <<"limit">>)

PoolsReaders ==
  Row1({"PoolsCount"}, <<>>) @@
  Pages({"Pools"}, <<>>) @@
  Row1({"Pool", "PoolDelegatorsCount"}, <<"address">>) @@
  Pages({"PoolDelegators"}, <<"address">>)

PoolHistoryReader == Pages({"PoolSizeHistory"}, <<"address">>)

\* Search asks for every kind of entity in turn; for the height of a block and
\* an epoch only if the value is a number, which it is taken to be.
SearchReader ==
  "Search" :> Reader(<<"value">>, {},
     [i \in 1..6 |-> Query("row", <<"value">>)])

CoinsReaders ==
  Row1({"Coins"}, <<>>) @@
  Row1({"CirculatingSupply"}, <<"frozen">>) @@
  Row1({"ActiveAddressesCount"}, <<"afterTime">>)

TransactionReaders ==
  Row1({"Transaction", "TransactionRaw"}, <<"hash">>) @@
  Pages({"TransactionEvents"}, <<"hash">>)

TokensReaders ==
  Row1({"Token"}, <<"address">>) @@ Pages({"TokenHolders"}, <<"address">>)

UpgradesReaders ==
  Pages({"Upgrades", "UpgradeVotings"}, <<>>) @@
  Rows({"UpgradeVotingHistory"}, <<"upgrade">>) @@
  Row1({"Upgrade"}, <<"upgrade">>)

AllReaders ==
  AddressReaders @@ AddressBalanceReaders @@ AddressListReaders @@
  AddressDelegationsReader @@ BalancesReaders @@ BlockReaders @@
  ContractReaders @@ LockReaders @@ OracleVotingReaders @@
  EstimatedRewardsReader @@ DynamicReaders @@ EpochReaders @@
  EpochIdentitiesReaders @@ EpochSummaryReaders @@ EpochRewardsReaders @@
  EpochDelegateeReaders @@ EpochIdentityReaders @@
  EpochIdentityRewardReaders @@ EpochValidationReader @@ EpochsReaders @@
  FlipReaders @@ IdentityReaders @@ IdentityRewardReaders @@ MinersReader @@
  PeersReader @@ PoolsReaders @@ PoolHistoryReader @@ SearchReader @@
  CoinsReaders @@ TransactionReaders @@ TokensReaders @@ UpgradesReaders

================================================================================
