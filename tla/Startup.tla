------------------------------ MODULE Startup ------------------------------
(***************************************************************************)
(* Starting proxy replicas: loading and validating a configuration,        *)
(* choosing the mode, dialing the backends and, in coordinated mode,       *)
(* agreeing on the routing through the fingerprint kept in the coordinator *)
(* (cmd/proxy/main.go, pkg/config/config.go, pkg/server/tls.go and         *)
(* NewCoordinatedProxy).  Replicas start, fail, crash and restart with any *)
(* configuration of Configs, concurrently.                                 *)
(***************************************************************************)
EXTENDS Routing, FiniteSets

CONSTANTS Replicas,  \* proxy processes
          Configs,   \* the configuration files they may be started with
          MaxKey,    \* keys are 0..MaxKey
          MaxLate,   \* bound on Txns in flight that nobody waits for
          Nil        \* a nil *Backend, no configuration

VARIABLES phase,        \* where each process is in main()
          conf,         \* the configuration it loaded
          fingerprint,  \* value of coordinatedConfigKey, <<>> when absent
          late          \* bootstrap Txns whose caller gave up waiting

startupVars == <<phase, conf, fingerprint, late>>

TLSConfig == [enabled : BOOLEAN, cert : BOOLEAN, key : BOOLEAN, ca : BOOLEAN,
              serverName : BOOLEAN, clientAuth : BOOLEAN]

ShardConfig == [start : Nat, startBytes : Nat, end : 0..MaxKey, endBytes : 0..MaxKey,
                address : STRING, tls : TLSConfig]

ASSUME ConfigsAssumption ==
  /\ MaxKey \in Nat /\ Nil \notin Configs
  /\ \A c \in Configs : c.shards \in Seq(ShardConfig)
-----------------------------------------------------------------------------
(***************************************************************************)
(* Configuration.  A TLS file name or server name is abstracted to whether *)
(* it is set.                                                              *)
(***************************************************************************)
TLSIsEnabled(t) ==
  t.enabled \/ t.cert \/ t.key \/ t.ca \/ t.serverName \/ t.clientAuth

ValidTLS(t, frontend) ==
  /\ t.cert = t.key
  /\ frontend => /\ TLSIsEnabled(t) => t.cert
                 /\ t.clientAuth => t.ca
                 /\ ~t.serverName
  /\ ~frontend => ~t.clientAuth

\* Mutant: TLS settings of legacy shards are accepted and ignored.
ValidShard_IgnoresTLS(c, s) == s.address # "" /\ ValidTLS(s.tls, FALSE)

ValidShard(c, s) ==
  /\ s.address # ""
  /\ ValidTLS(s.tls, FALSE)
  /\ c.coordinator = Nil => ~TLSIsEnabled(s.tls)

\* Configurations.Validate
Validate(c) ==
  /\ ValidTLS(c.tls, TRUE)
  /\ IF c.backend # Nil
     THEN /\ c.backend.endpoint # ""
          /\ Len(c.shards) = 0 /\ c.coordinator = Nil
          /\ ValidTLS(c.backend.tls, FALSE)
     ELSE /\ c.coordinator # Nil => /\ c.coordinator.endpoint # ""
                                    /\ ValidTLS(c.coordinator.tls, FALSE)
          /\ Len(c.shards) > 0
          /\ \A i \in 1..Len(c.shards) : ValidShard(c, c.shards[i])
          /\ ValidBoundaries(c.shards)

\* buildBackends tests Coordinator first, then Backend; shards alone are legacy.
Mode(c) == CASE c.coordinator # Nil -> "coordinated"
             [] c.coordinator = Nil /\ c.backend # Nil -> "backend"
             [] OTHER -> "legacy"

\* Whether the connection to shard i is encrypted: TransportCredentials picks
\* plaintext exactly when TLS is not enabled; NewShardClientImpl always does.
DialsSecurely(c, i) == Mode(c) = "coordinated" /\ TLSIsEnabled(c.shards[i].tls)
-----------------------------------------------------------------------------
StartupInit ==
  /\ phase = [r \in Replicas |-> "down"]
  /\ conf = [r \in Replicas |-> Nil]
  /\ fingerprint = <<>>
  /\ late = {}

Goto(r, p) == phase' = [phase EXCEPT ![r] = p]

\* exitWithErr, or the process dies.
Exit(r) == Goto(r, "down") /\ conf' = [conf EXCEPT ![r] = Nil]

\* main: NewConfigurationsFromFile reads and validates the file.
LoadConfig(r, c) ==
  /\ phase[r] = "down"
  /\ Validate(c)
  /\ Goto(r, "loaded")
  /\ conf' = [conf EXCEPT ![r] = c]
  /\ UNCHANGED <<fingerprint, late>>

Routes(r) == CoordinatedShards(conf[r].shards)

\* NewCoordinatedProxy up to the Txn.
AcceptsRoutes(r) ==
  /\ Contiguous(Routes(r))
  /\ DistinctEndpoints(Routes(r), conf[r].coordinator.endpoint)

\* buildBackends: the connections are made; only coordinated mode goes on to
\* talk to a server before serving.
BuildBackends(r) ==
  /\ phase[r] = "loaded"
  /\ IF Mode(conf[r]) # "coordinated"
     THEN Goto(r, "built") /\ UNCHANGED conf
     ELSE IF AcceptsRoutes(r)
          THEN Goto(r, "bootstrap") /\ UNCHANGED conf
          ELSE Exit(r)
  /\ UNCHANGED <<fingerprint, late>>

\* Mutant: the fingerprint is put unconditionally.
Initialized_Overwrites(f) == f

\* What the coordinator does with the Txn of NewCoordinatedProxy: put the
\* fingerprint if version(coordinatedConfigKey) = 0, read it otherwise.
\* SHA-256 over the JSON of the routes is taken to be injective.
Initialized(f) == IF fingerprint = <<>> THEN f ELSE fingerprint

\* Mutant: the stored fingerprint is not compared.
Bootstrap_Unchecked(r) ==
  /\ phase[r] = "bootstrap"
  /\ fingerprint' = Initialized(Routes(r))
  /\ Goto(r, "built")
  /\ UNCHANGED <<conf, late>>

\* NewCoordinatedProxy: the Txn and the comparison of its answer.
Bootstrap(r) ==
  /\ phase[r] = "bootstrap"
  /\ fingerprint' = Initialized(Routes(r))
  /\ IF fingerprint' = Routes(r)
     THEN Goto(r, "built") /\ UNCHANGED conf
     ELSE Exit(r)
  /\ UNCHANGED late

\* The 10 s context of buildBackends expires, or the connection breaks: the
\* process exits, but the Txn may have been, or may still be, applied.
BootstrapFails(r) ==
  /\ phase[r] = "bootstrap"
  /\ Cardinality(late) < MaxLate
  /\ late' = late \cup {Routes(r)}
  /\ Exit(r)
  /\ UNCHANGED fingerprint

\* main: NewGrpcServer and Serve.
Serve(r) ==
  /\ phase[r] = "built"
  /\ Goto(r, "serving")
  /\ UNCHANGED <<conf, fingerprint, late>>

\* A dial or listener error, or a crash, at any time.
Crash(r) ==
  /\ phase[r] # "down"
  /\ Exit(r)
  /\ UNCHANGED <<fingerprint, late>>

\* The coordinator executes a Txn nobody waits for any more.
LateBootstrap(f) ==
  /\ late' = late \ {f}
  /\ fingerprint' = Initialized(f)
  /\ UNCHANGED <<phase, conf>>

LoseBootstrap(f) ==
  /\ late' = late \ {f}
  /\ UNCHANGED <<phase, conf, fingerprint>>

StartupNext ==
  \/ \E r \in Replicas :
       \/ \E c \in Configs : LoadConfig(r, c)
       \/ BuildBackends(r) \/ Bootstrap(r) \/ BootstrapFails(r)
       \/ Serve(r) \/ Crash(r)
  \/ \E f \in late : LateBootstrap(f) \/ LoseBootstrap(f)

StartupSpec == StartupInit /\ [][StartupNext]_startupVars
-----------------------------------------------------------------------------
(***************************************************************************)
(* Properties.                                                             *)
(***************************************************************************)
\* Replicas keep their types; the coordinator's fingerprint is the routing of a
\* validated configuration.
TypeOK ==
  /\ phase \in [Replicas -> {"down", "loaded", "bootstrap", "built", "serving"}]
  /\ conf \in [Replicas -> Configs \cup {Nil}]
  /\ fingerprint \in {<<>>} \cup {CoordinatedShards(c.shards) : c \in Configs}
  /\ late \subseteq {CoordinatedShards(c.shards) : c \in Configs}

Ready(r) == phase[r] \in {"built", "serving"}

Coordinated(r) == conf[r] # Nil /\ Mode(conf[r]) = "coordinated"

Sharded(r) == conf[r] # Nil /\ Mode(conf[r]) # "backend"

\* NewCoordinatedProxy: "routing fingerprint mismatch".  Whatever the replicas
\* are started with, and however their bootstraps race, time out or are
\* applied late, two of them that serve coordinated mode route alike.
AgreedRouting ==
  \A r, q \in Replicas :
     Ready(r) /\ Coordinated(r) /\ Ready(q) /\ Coordinated(q)
       => Routes(r) = Routes(q)

\* The Txn of NewCoordinatedProxy writes coordinatedConfigKey only when its
\* version is 0: the routing that stored references were made under is never
\* replaced, not even by a bootstrap its caller gave up on.
FingerprintIsFinal ==
  [][fingerprint # <<>> => fingerprint' = fingerprint]_startupVars

\* Configurations.Validate and NewCoordinatedProxy check boundaries each in
\* their own way; what the first lets through, after the rewriting that
\* buildBackends does in between, the second does not refuse.
ValidatedBoundariesAreAccepted ==
  \A r \in Replicas : Coordinated(r) => Contiguous(Routes(r))

\* ShardImpl.Contains, GetShardClis and CoordinatedProxy.shard on what a
\* validated configuration becomes: every key has exactly one owner, and both
\* modes find it.
KeysHaveOneOwner ==
  \A r \in Replicas, k \in 1..MaxKey : Sharded(r) =>
     LET owners == {i \in 1..Len(Routes(r)) : Owns(Routes(r)[i], k)}
     IN  /\ owners = {ShardOf(Routes(r), k)}
         /\ owners = GetShardClis(LegacyShards(conf[r].shards), k, Empty)

\* CoordinatedProxy.mutationShard refuses a delete exactly when it covers a key
\* of another shard.
MutationsStayInOneShard ==
  \A r \in Replicas, key \in 1..MaxKey, end \in 0..MaxKey : Sharded(r) =>
     (MutationAllowed(Routes(r), key, end)
        <=> \A k \in 1..MaxKey : InRange(k, key, end) =>
               Owns(Routes(r)[ShardOf(Routes(r), key)], k))

\* Legacy GetShardClis, with its early break, asks exactly the shards that own
\* a key of the request (and the one that owns its first key).
RangesReachTheirOwners ==
  \A r \in Replicas, key \in 1..MaxKey, end \in 0..MaxKey : Sharded(r) =>
     GetShardClis(LegacyShards(conf[r].shards), key, end)
       = {i \in 1..Len(Routes(r)) :
            \E k \in 1..MaxKey : /\ k = key \/ InRange(k, key, end)
                                 /\ Owns(Routes(r)[i], k)}

\* Validate: "shard TLS requires coordinated mode".  No shard whose
\* configuration asks for TLS is talked to in plaintext.
TLSIsHonoured ==
  \A r \in Replicas : Ready(r) /\ Sharded(r) =>
     \A i \in 1..Len(conf[r].shards) :
        TLSIsEnabled(conf[r].shards[i].tls) => DialsSecurely(conf[r], i)
=============================================================================
