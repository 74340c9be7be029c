--------------------------------- MODULE Fleet ---------------------------------
(***************************************************************************)
(* The poller fleet: one box per continent, each running some shards of    *)
(* its general pool.  Which agencies a shard polls is decided, in each     *)
(* process for itself, from the feeds.yaml its box has checked out, the    *)
(* agency's timezone, its pin and its hash (shard.py, region.py,           *)
(* loader.build_feeds); which of them it can authenticate, from the keys   *)
(* that were in the box's .env when the container was created.  Deploys,   *)
(* key rotations (refresh_env.py) and restarts reach the boxes and their   *)
(* containers one at a time, in any order.                                 *)
(***************************************************************************)
EXTENDS Integers, FiniteSets

CONSTANTS
  Agencies,
  Timezones,       \* agency -> its box in TIMEZONE_TO_CONTINENT, or Unmapped
  Pins,            \* agency -> shard_pin, or NoPin
  HashOf,          \* agency -> the sha256 of its id, as a number
  KeyOf,           \* agency -> the env var of its credentials, or NoKey
  Boxes,
  ContinentOf,     \* box -> --continent
  ShardCount,      \* box -> --shard-count
  ShardsOf,        \* box -> the shard indices its services run
  Unmapped, NoPin, NoKey,
  MaxConfigs,      \* bound: edits of feeds.yaml
  MaxVersion       \* bound: rotations of a key

ASSUME FleetAssumption ==
  /\ HashOf \in [Agencies -> Nat]
  /\ Pins \in [Agencies -> Nat \cup {NoPin}]
  /\ NoPin \notin Nat
  /\ ShardCount \in [Boxes -> Nat \ {0}]
  /\ ShardsOf \in [Boxes -> SUBSET Nat]
  /\ MaxConfigs \in Nat
  /\ MaxVersion \in Nat

Keys == {KeyOf[a] : a \in Agencies} \ {NoKey}
Processes == {p \in Boxes \X UNION {ShardsOf[b] : b \in Boxes} : p[2] \in ShardsOf[p[1]]}

VARIABLES
  configured,   \* the agencies of feeds.yaml at the head of main, as built
  edits,
  secret,       \* the shared secret: key -> version, 0 when it is not there
  checkout,     \* box -> the agencies of the feeds.yaml it has checked out
  dotenv,       \* box -> key -> version in its .env, 0 when it is not there
  container,    \* process -> the environment its container was created with
  polled,       \* process -> the agencies whose feeds it polls
  clients       \* process -> the agencies it has a client for

fleetVars == <<configured, edits, secret, checkout, dotenv, container, polled, clients>>

-----------------------------------------------------------------------------
ShardFor(a, count) == HashOf[a] % count

\* Mutant of BelongsToShard: a pinned agency stays in the shard of its hash.
BelongsUnlessPinned(a, index, count) ==
  \/ Pins[a] = index
  \/ index < count /\ ShardFor(a, count) = index

\* Mutant of BelongsToShard: indices counted from one.
BelongsShifted(a, index, count) ==
  IF Pins[a] # NoPin THEN index = Pins[a]
  ELSE index < count /\ ShardFor(a, count) = index + 1

BelongsToShard(a, index, count) ==
  IF Pins[a] # NoPin THEN index = Pins[a]
  ELSE index < count /\ ShardFor(a, count) = index

BelongsToContinent(a, continent) == Timezones[a] = continent

\* build_feeds.  One agency of the shard in no known timezone raises.
BuildFeeds(config, p) ==
  LET mine == {a \in config : BelongsToShard(a, p[2], ShardCount[p[1]])} IN
  IF \E a \in mine : Timezones[a] = Unmapped THEN {}
  ELSE {a \in mine : BelongsToContinent(a, ContinentOf[p[1]])}

\* build_agency_clients: an agency without its key is skipped, with its log.
BuildAgencyClients(config, env, p) ==
  {a \in BuildFeeds(config, p) : KeyOf[a] = NoKey \/ env[KeyOf[a]] > 0}

\* Mutant of AgencyEnvKeys: the keys of every continent.
EnvKeysEverywhere(config, continent) == {KeyOf[a] : a \in config} \ {NoKey}

AgencyEnvKeys(config, continent) ==
  {KeyOf[a] : a \in {c \in config : BelongsToContinent(c, continent)}} \ {NoKey}

-----------------------------------------------------------------------------
NoKeys == [k \in Keys |-> 0]

FleetInit ==
  /\ configured = {}
  /\ edits = 0
  /\ secret = NoKeys
  /\ checkout = [b \in Boxes |-> {}]
  /\ dotenv = [b \in Boxes |-> NoKeys]
  /\ container = [p \in Processes |-> NoKeys]
  /\ polled = [p \in Processes |-> {}]
  /\ clients = [p \in Processes |-> {}]

EditConfig(a) ==
  /\ edits < MaxConfigs
  /\ edits' = edits + 1
  /\ configured' = IF a \in configured THEN configured \ {a} ELSE configured \cup {a}
  /\ UNCHANGED <<secret, checkout, dotenv, container, polled, clients>>

\* Mutant of MergeSecret: the secret is replaced by the key given.
PutSecret(k) ==
  /\ secret[k] < MaxVersion
  /\ secret' = [NoKeys EXCEPT ![k] = secret[k] + 1]
  /\ UNCHANGED <<configured, edits, checkout, dotenv, container, polled, clients>>

\* refresh_env.py KEY: a new key, or a new value of one, into the secret.
MergeSecret(k) ==
  /\ secret[k] < MaxVersion
  /\ secret' = [secret EXCEPT ![k] = @ + 1]
  /\ UNCHANGED <<configured, edits, checkout, dotenv, container, polled, clients>>

\* Mutant of RefreshEnv: the file has the keys it needs and no others.
RefreshEnvSparse(b) ==
  /\ \A a \in configured : Timezones[a] # Unmapped
  /\ dotenv' = [dotenv EXCEPT ![b] =
       [k \in AgencyEnvKeys(configured, ContinentOf[b]) |-> secret[k]]]
  /\ UNCHANGED <<configured, edits, secret, checkout, container, polled, clients>>

\* A box's refresh, up to the mv: the keys of its continent in the image
\* built last.  An agency in no known timezone fails the whole refresh.
RefreshEnv(b) ==
  /\ \A a \in configured : Timezones[a] # Unmapped
  /\ dotenv' = [dotenv EXCEPT ![b] = [k \in Keys |->
       IF k \in AgencyEnvKeys(configured, ContinentOf[b]) THEN secret[k] ELSE 0]]
  /\ UNCHANGED <<configured, edits, secret, checkout, container, polled, clients>>

\* deploy.yml on one box, up to the pull.
CheckOut(b) ==
  /\ checkout' = [checkout EXCEPT ![b] = configured]
  /\ UNCHANGED <<configured, edits, secret, dotenv, container, polled, clients>>

Start(p, env) ==
  /\ polled' = [polled EXCEPT ![p] = BuildFeeds(checkout[p[1]], p)]
  /\ clients' = [clients EXCEPT ![p] = BuildAgencyClients(checkout[p[1]], env, p)]

\* compose up recreates one container, at a deploy or at a refresh.
Recreate(p) ==
  /\ container' = [container EXCEPT ![p] = dotenv[p[1]]]
  /\ Start(p, dotenv[p[1]])
  /\ UNCHANGED <<configured, edits, secret, checkout, dotenv>>

\* restart: unless-stopped, autoheal: the environment stays, but feeds.yaml
\* is mounted from the checkout and is read anew.
Restart(p) ==
  /\ Start(p, container[p])
  /\ UNCHANGED <<configured, edits, secret, checkout, dotenv, container>>

FleetNext ==
  \/ \E a \in Agencies : EditConfig(a)
  \/ \E k \in Keys : MergeSecret(k)
  \/ \E b \in Boxes : RefreshEnv(b) \/ CheckOut(b)
  \/ \E p \in Processes : Recreate(p) \/ Restart(p)

FleetSpec == FleetInit /\ [][FleetNext]_fleetVars

-----------------------------------------------------------------------------
\* The types; an environment has a value for every key.
FleetTypeOK ==
  /\ configured \subseteq Agencies
  /\ edits \in 0..MaxConfigs
  /\ secret \in [Keys -> 0..MaxVersion]
  /\ checkout \in [Boxes -> SUBSET Agencies]
  /\ dotenv \in [Boxes -> [Keys -> 0..MaxVersion]]
  /\ container \in [Processes -> [Keys -> 0..MaxVersion]]
  /\ polled \in [Processes -> SUBSET Agencies]
  /\ clients \in [Processes -> SUBSET Agencies]

\* compose.prod.yml, deploy.yml: no agency is double-landed.  At every point
\* of a rollout, with boxes on different versions of feeds.yaml and
\* containers recreated or restarted one by one, no two processes of the
\* fleet poll the same agency (and its rate limit is one process's).
OneHome ==
  \A p, q \in Processes : p # q => polled[p] \cap polled[q] = {}

\* No agency falls between the shards: once its box runs the feeds.yaml that
\* has it, some process of the box polls it, if its box runs its whole pool,
\* and its pin, and no agency of the file breaks the build.
EveryAgencyHasAHome ==
  \A b \in Boxes :
    (/\ \A p \in Processes : p[1] = b => polled[p] = BuildFeeds(checkout[b], p)
     /\ 0..(ShardCount[b] - 1) \subseteq ShardsOf[b]
     /\ \A a \in checkout[b] : Timezones[a] # Unmapped)
    => \A a \in checkout[b] :
         Timezones[a] = ContinentOf[b] /\ Pins[a] \in ShardsOf[b] \cup {NoPin}
           => \E p \in Processes : p[1] = b /\ a \in polled[p]

\* agency_env_keys: a box never has another region's credentials on disk, or
\* in a container.
RegionKeysOnly ==
  \A b \in Boxes, k \in Keys :
    (\A a \in Agencies : KeyOf[a] = k => Timezones[a] # ContinentOf[b])
    => /\ dotenv[b][k] = 0
       /\ \A p \in Processes : p[1] = b => container[p][k] = 0

\* What holds of the fleet at every point of a rollout: each agency is polled
\* by one process at most, by one at least once its box has settled, and with
\* keys that never leave their region.
FleetConsistent == FleetTypeOK /\ OneHome /\ EveryAgencyHasAHome /\ RegionKeysOnly

\* refresh_env.py: no refresh takes back a key that a feed of the box, still
\* configured, is polled with, nor puts an older value in its place.
NoKeyLost ==
  [][\A b \in Boxes : dotenv'[b] # dotenv[b] =>
       \A p \in Processes, a \in configured :
         p[1] = b /\ a \in clients[p] /\ KeyOf[a] # NoKey
           => dotenv'[b][KeyOf[a]] >= dotenv[b][KeyOf[a]]]_fleetVars

=============================================================================
