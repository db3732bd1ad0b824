-------------------------------- MODULE Services --------------------------------
(***************************************************************************)
(* The services behind the handlers: app/api/service.go and                *)
(* app/service/contracts_service.go, and the client of the indexer node    *)
(* with its two mempools: indexer/.                                        *)
(*                                                                         *)
(* A method of a service asks its sources one after another.  A step names *)
(* the source, the method asked, the arguments in the order of the call    *)
(* and the duty: "must" is taken and fails the method if it fails, "may"   *)
(* is passed over or ignored when it fails, "rest" is passed over when     *)
(* nothing is left to ask for, and else a must.  A method that is not here *)
(* is that of the embedded accessor of the database.                       *)
(***************************************************************************)
EXTENDS Sequences, TLC

Step(duty, from, method, args) ==
  [duty |-> duty, from |-> from, method |-> method, args |-> args]
Must(from, method, args) == Step("must", from, method, args)
May(from, method, args) == Step("may", from, method, args)
Rest(from, method, args) == Step("rest", from, method, args)

\* Methods of the indexer node that a service passes through, renamed by some.
ThroughIndexer ==
  [m \in {"ValidatorsCount", "OnlineValidatorsCount", "ForkCommitteeCount",
          "UpgradeVoting"} |-> <<Must("indexer", m, <<>>)>>] @@
  [m \in {"Validators", "OnlineValidators"} |->
     <<Must("indexer", m, <<"limit", "token">>)>>] @@
  "GetOnlineIdentitiesCount" :> <<Must("indexer", "OnlineIdentitiesCount", <<>>)>> @@
  "GetOnlineIdentities" :>
     <<Must("indexer", "OnlineIdentities", <<"limit", "token">>)>> @@
  "GetOnlineIdentity" :> <<Must("indexer", "OnlineIdentity", <<"address">>)>> @@
  "GetOnlineCount" :> <<Must("indexer", "OnlineCount", <<>>)>>

\* Search and the lists that begin with what the mempool holds.  A failure of
\* the mempool is ignored; only its own two methods answer it.
SearchProgram ==
  <<Must("db", "Search", <<"value">>), May("mempool", "GetTransaction", <<"value">>)>>

WithMempool ==
  "Search" :> SearchProgram @@
  "IdentityTxs" :>
     <<May("mempool", "GetAddressTransactions", <<"address", "limit">>),
       Rest("db", "IdentityTxs", <<"address", "limit", "token">>)>> @@
  "MemPoolTxs" :> <<Must("mempool", "GetTransactions", <<"limit">>)>> @@
  "MemPoolTxsCount" :> <<Must("mempool", "GetTransactionsCount", <<>>)>>

\* The upgrades get the address of their change log, if it is known.
WithChangeLog ==
  [m \in {"Upgrades", "UpgradeVotings"} |->
     <<Must("db", m, <<"limit", "token">>), May("changeLog", "Url", <<>>)>>] @@
  "Upgrade" :> <<Must("db", "Upgrade", <<"upgrade">>), May("changeLog", "Url", <<>>)>> @@
  "ForkChangeLog" :> <<Must("changeLog", "ForkChangeLog", <<"version">>)>>

\* Staking asks for the rewards of the epoch before the last, if there is one.
StakingProgram ==
  <<Must("indexer", "Staking", <<>>),
    Must("db", "LastEpoch", <<>>),
    Rest("db", "EpochRewardsSummary", <<"epochBefore">>)>>

WithIndexer ==
  "Staking" :> StakingProgram @@
  "IdentityWithProof" :>
     <<Must("indexer", "IdentityWithProof", <<"epoch", "address">>)>> @@
  [m \in {"MultisigContract", "Pool"} |->
     <<Must("db", m, <<"address">>), Must("indexer", m, <<"address">>)>>] @@
  "VerifyContract" :> <<Must("indexer", "VerifyContract", <<"address", "data">>)>>

SignatureAddressProgram ==
  "SignatureAddress" :> <<Must("local", "SignatureAddress", <<"value", "signature">>)>>

\* contracts_service.go.  The mempool is asked for the first page only, and for
\* the contracts an author deploys only when all pending ones are asked for.
OracleVotingProgram ==
  "OracleVotingContracts" :>
     <<May("contractsMempool", "GetOracleVotingContractDeploys", <<"author">>),
       Rest("db", "OracleVotingContracts",
            <<"author", "oracle", "states", "all", "sortBy", "limit", "token">>)>>

ContractTxsPrograms ==
  "OracleVotingContract" :>
     <<Must("db", "OracleVotingContract", <<"address", "oracle">>)>> @@
  "AddressContractTxBalanceUpdates" :>
     <<May("contractsMempool", "GetAddressContractTxs",
           <<"address", "contractAddress">>),
       Rest("db", "AddressContractTxBalanceUpdates",
            <<"address", "contractAddress", "limit", "token">>)>> @@
  "ContractTxBalanceUpdates" :>
     <<Must("db", "ContractTxBalanceUpdates", <<"contractAddress", "limit", "token">>)>>

Overridden ==
  ThroughIndexer @@ WithMempool @@ WithChangeLog @@ WithIndexer @@
  SignatureAddressProgram @@ OracleVotingProgram @@ ContractTxsPrograms

--------------------------------------------------------------------------------
(* What the client puts into the URL of a request to the indexer, in the   *)
(* order of its arguments.  The mempools only rename its methods.          *)

IndexerOnline ==
  [m \in {"OnlineIdentitiesCount", "OnlineCount", "ValidatorsCount",
          "OnlineValidatorsCount", "ForkCommitteeCount"} |-> <<>>] @@
  [m \in {"OnlineIdentities", "Validators", "OnlineValidators"} |->
     <<"limit", "token">>] @@
  "OnlineIdentity" :> <<"address">>

IndexerMempool ==
  [m \in {"MemPoolTransaction", "MemPoolTransactionRaw"} |-> <<"hash">>] @@
  "MemPoolAddressTransactions" :> <<"address", "limit">> @@
  "MemPoolTransactions" :> <<"limit">> @@
  "MemPoolTransactionsCount" :> <<>> @@
  "MemPoolOracleVotingContractDeploys" :> <<"author">> @@
  "MemPoolAddressContractTxs" :> <<"address", "contractAddress">> @@
  "UpgradeVoting" :> <<>> @@
  "IdentityWithProof" :> <<"epoch", "address">> @@
  "Staking" :> <<>> @@
  [m \in {"MultisigContract", "Pool"} |-> <<"address">>] @@
  "VerifyContract" :> <<"address", "data">>

MemPoolMethods ==
  "GetTransaction" :> "MemPoolTransaction" @@
  "GetTransactionRaw" :> "MemPoolTransactionRaw" @@
  "GetAddressTransactions" :> "MemPoolAddressTransactions" @@
  "GetTransactions" :> "MemPoolTransactions" @@
  "GetTransactionsCount" :> "MemPoolTransactionsCount"

ContractsMemPoolMethods ==
  "GetOracleVotingContractDeploys" :> "MemPoolOracleVotingContractDeploys" @@
  "GetAddressContractTxs" :> "MemPoolAddressContractTxs"

\* The method of the client behind that of a source, and its arguments.
ClientFormals ==
  [m \in DOMAIN MemPoolMethods |-> IndexerMempool[MemPoolMethods[m]]] @@
  [m \in DOMAIN ContractsMemPoolMethods |->
     IndexerMempool[ContractsMemPoolMethods[m]]] @@
  IndexerOnline @@ IndexerMempool

================================================================================
