--------------------------- MODULE TopologyConfig ---------------------------
(***************************************************************************)
(* RawBucketConfig::build (topology.rs): a CCCP bucket configuration       *)
(* becomes endpoints and vBucket routes, for a requested network and TLS   *)
(* mode, or is refused.  An address is a host and a port; port 0 is a      *)
(* port the configuration does not give.  Of the header (revisions, bucket *)
(* name, node locator, hash algorithm) only whether it is supported is     *)
(* kept.  JSON, the syntax of network names, and splitting and joining of  *)
(* host:port strings are left out.                                         *)
(***************************************************************************)
EXTENDS Integers, Sequences, SequencesExt

CONSTANTS
  RawConfigs,   \* decoded configurations a server may send
  Networks,     \* requested networks: "auto", "default" or a name
  Source,       \* address of the node that sent the configuration
  Error,        \* a DcpError::Topology
  None          \* a route entry of -1

VARIABLES raw, request, result

vars == <<raw, request, result>>

Requests == [network : Networks, tls : BOOLEAN]

Host(address) == address[1]

\* nodesExt entries with the KV service, in order.
KvNodes(nodes) == SelectSeq(nodes, LAMBDA n : n.services.kv # 0 \/ n.services.kv_ssl # 0)

\* node_endpoint: the address of a node in a network.
NodeEndpoint(node, network, tls) ==
  LET known == network = "default" \/ network \in DOMAIN node.alternate
      place == IF network = "default" THEN node ELSE node.alternate[network]
      services == IF place.services = None THEN node.services ELSE place.services
      port == IF tls THEN services.kv_ssl ELSE services.kv
      host == IF place.hostname = None THEN Host(Source) ELSE place.hostname
  IN IF ~known THEN Error ELSE IF port = 0 THEN Error ELSE <<host, port>>

\* resolve_network.
ResolveNetwork(network, nodes, server_count, tls) ==
  LET kv == KvNodes(nodes)
      first == SubSeq(kv, 1, IF Len(kv) < server_count THEN Len(kv) ELSE server_count)
      source_is_default ==
        \E i \in DOMAIN first : NodeEndpoint(first[i], "default", tls) = Source
      all_external == /\ Len(first) = server_count
                      /\ \A i \in DOMAIN first : "external" \in DOMAIN first[i].alternate
  IN IF network # "auto" THEN network
     ELSE IF ~source_is_default /\ all_external /\ nodes # <<>> THEN "external"
     ELSE "default"

\* The stable identity of a node.
Identity(node, legacy, address) == IF node.uuid = None THEN legacy ELSE node.uuid

\* build_endpoints: the KV nodes are paired with the serverList, which only carries
\* plain default addresses.
BuildEndpoints(nodes, server_list, network, tls) ==
  LET kv == KvNodes(nodes)
      endpoint(i) == LET address == NodeEndpoint(kv[i], network, tls) IN
        [id |-> Identity(kv[i], server_list[i], address), address |-> address,
         canonical_address |-> NodeEndpoint(kv[i], "default", tls)]
      built == [i \in DOMAIN server_list |-> endpoint(i)]
  IN IF server_list = <<>> THEN Error
     ELSE IF nodes = <<>>
     THEN IF tls \/ network # "default" THEN Error
          ELSE [i \in DOMAIN server_list |->
                  [id |-> server_list[i], address |-> server_list[i],
                   canonical_address |-> server_list[i]]]
     ELSE IF Len(kv) < Len(server_list) THEN Error
     ELSE IF \E i \in DOMAIN built : Error \in {built[i].address, built[i].canonical_address}
     THEN Error
     ELSE built

\* Mutant of RouteNode: an index past the last endpoint names the last one.
RouteNode_clamped(index, endpoints) ==
  IF index = -1 THEN None
  ELSE IF index < 0 THEN Error
  ELSE endpoints[IF index < Len(endpoints) THEN index + 1 ELSE Len(endpoints)].id

\* route_node.
RouteNode(index, endpoints) ==
  IF index = -1 THEN None
  ELSE IF index \notin 0..(Len(endpoints) - 1) THEN Error
  ELSE endpoints[index + 1].id

\* build_vbucket_routes: one row per vBucket, its active node first.
BuildVBucketRoutes(map, endpoints) ==
  LET nodes(row) == [i \in DOMAIN row |-> RouteNode(row[i], endpoints)]
      valid(row) == /\ Len(row) = map.num_replicas + 1
                    /\ nodes(row)[1] # None
                    /\ \A i \in DOMAIN row : nodes(row)[i] # Error
      route(row) == [active |-> nodes(row)[1],
                     replicas |-> SelectSeq(Tail(nodes(row)), LAMBDA n : n # None)]
  IN IF map.v_bucket_map = <<>> \/ map.num_replicas < 0 THEN Error
     ELSE IF \E i \in DOMAIN map.v_bucket_map : ~valid(map.v_bucket_map[i]) THEN Error
     ELSE [v \in 0..(Len(map.v_bucket_map) - 1) |-> route(map.v_bucket_map[v + 1])]

\* Two endpoints with one identity.
DuplicateIdentities(endpoints) ==
  \E i, j \in DOMAIN endpoints : i # j /\ endpoints[i].id = endpoints[j].id

\* RawBucketConfig::build.
Build(config, q) ==
  LET servers == config.map.server_list
      network == ResolveNetwork(q.network, config.nodes_ext, Len(servers), q.tls)
      endpoints == BuildEndpoints(config.nodes_ext, servers, network, q.tls)
      routes == BuildVBucketRoutes(config.map, endpoints)
  IN IF ~config.supported THEN Error
     ELSE IF endpoints = Error THEN Error
     ELSE IF DuplicateIdentities(endpoints) \/ routes = Error THEN Error
     ELSE [network |-> network, vbuckets |-> routes,
           endpoints |-> [id \in {endpoints[i].id : i \in DOMAIN endpoints} |->
              endpoints[CHOOSE i \in DOMAIN endpoints : endpoints[i].id = id]]]

\* A configuration arrives.
Init ==
  /\ raw \in RawConfigs
  /\ request \in Requests
  /\ result = None

FromJson ==
  /\ result = None
  /\ result' = Build(raw, request)
  /\ UNCHANGED <<raw, request>>

Next == FromJson

Spec == Init /\ [][Next]_vars

----------------------------------------------------------------------------
(* Properties.                                                             *)

Accepted == result \notin {None, Error}

\* What is accepted routes every vBucket to nodes that have an endpoint, and to the
\* ones the map named: an index that means no node is never taken for one.
RoutesFollowMap ==
  Accepted =>
    LET rows == raw.map.v_bucket_map
        kv == KvNodes(raw.nodes_ext)
        named(index) == IF kv # <<>> /\ kv[index + 1].uuid # None
                        THEN kv[index + 1].uuid
                        ELSE raw.map.server_list[index + 1]
        present(row) == SelectSeq(row, LAMBDA index : index # -1)
        valid(row) == \A i \in DOMAIN row : row[i] \in -1..(Len(raw.map.server_list) - 1)
    IN /\ DOMAIN result.vbuckets = 0..(Len(rows) - 1)
       /\ \A v \in DOMAIN result.vbuckets :
            LET row == rows[v + 1]
                route == result.vbuckets[v] IN
            /\ valid(row)
            /\ <<route.active>> \o route.replicas =
                 [i \in DOMAIN present(row) |-> named(present(row)[i])]
            /\ {route.active} \cup ToSet(route.replicas) \subseteq DOMAIN result.endpoints

\* A client with TLS never dials a plain port, nor the other way round, and dials every
\* server of the map in the resolved network.
AddressesAreSelected ==
  Accepted =>
    /\ \A id \in DOMAIN result.endpoints :
         \E i \in DOMAIN raw.map.server_list :
           IF raw.nodes_ext = <<>>
           THEN ~request.tls /\ result.endpoints[id].address = raw.map.server_list[i]
           ELSE result.endpoints[id].address =
                  NodeEndpoint(KvNodes(raw.nodes_ext)[i], result.network, request.tls)
    /\ Len(raw.map.server_list) = Cardinality(DOMAIN result.endpoints)

\* Node identities and routes do not depend on the network or on TLS: the same cluster
\* seen through another address set is the same topology.
IdentityIsStable ==
  Accepted =>
    \A q \in Requests :
      LET other == Build(raw, q) IN
      other # Error => /\ other.vbuckets = result.vbuckets
                       /\ DOMAIN other.endpoints = DOMAIN result.endpoints

=============================================================================
