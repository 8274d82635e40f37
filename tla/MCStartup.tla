----------------------------- MODULE MCStartup -----------------------------
(***************************************************************************)
(* Replicas that race, crash and restart with good, changed and broken     *)
(* configurations, among them the ways shard boundaries can be written.    *)
(***************************************************************************)
EXTENDS Startup

Off == [enabled |-> FALSE, cert |-> FALSE, key |-> FALSE, ca |-> FALSE,
        serverName |-> FALSE, clientAuth |-> FALSE]
On == [Off EXCEPT !.enabled = TRUE]

\* Two shards split at b.
Split(b, first, second, tls) ==
  <<[start |-> Empty, startBytes |-> Empty, end |-> b, endBytes |-> Empty,
     address |-> first, tls |-> Off],
    [start |-> Empty, startBytes |-> b, end |-> Empty, endBytes |-> Empty,
     address |-> second, tls |-> tls]>>

Coord == [endpoint |-> "c", tls |-> Off]

\* Three shards with the given ends; each starts where the previous one ends,
\* except that the shard gap starts one key later.
Three(ends, gap, asBytes) ==
  LET At(i) == (IF i = 1 THEN Empty ELSE ends[i - 1]) + (IF i = gap THEN 1 ELSE 0)
  IN  [i \in 1..3 |->
         [start |-> IF asBytes THEN Empty ELSE At(i), startBytes |-> At(i),
          end |-> IF asBytes THEN Empty ELSE ends[i],
          endBytes |-> IF asBytes THEN ends[i] ELSE Empty,
          address |-> <<"s1", "s2", "s3">>[i], tls |-> Off]]

Conf(coordinator, backend, shards) ==
  [coordinator |-> coordinator, backend |-> backend, shards |-> shards,
   tls |-> Off]

RaceConfigs ==
  {Conf(Coord, Nil, Split(2, "s1", "s2", On)),
   Conf(Coord, Nil, Split(3, "s1", "s2", Off)),   \* changed boundary
   Conf(Coord, Nil, Split(2, "s2", "s1", Off)),   \* changed shard order
   Conf(Coord, Nil, Split(2, "s1", "s1", Off)),   \* endpoints not distinct
   Conf(Nil, Nil, Split(2, "s1", "s2", Off)),     \* legacy
   Conf(Nil, Nil, Split(2, "s1", "s2", On)),      \* legacy, refused
   Conf(Nil, Coord, <<>>),                        \* backend mode
   Conf(Coord, Coord, <<>>)}                      \* refused

\* Contiguous shards in both modes, an empty shard, ends that decrease, a gap,
\* and an end that is missing.
BoundaryConfigs ==
  {Conf(Coord, Nil, Three(<<2, 4, Empty>>, 0, TRUE)),
   Conf(Nil, Nil, Three(<<2, 3, Empty>>, 0, FALSE))}
  \cup {Conf(c, Nil, Three(e, 0, b)) :
           c \in {Coord, Nil}, b \in BOOLEAN,
           e \in {<<2, 2, Empty>>, <<3, 2, Empty>>, <<2, Empty, Empty>>}}
  \cup {Conf(c, Nil, Three(<<2, 3, Empty>>, g, TRUE)) :
           c \in {Coord, Nil}, g \in 1..3}

MCConfigs == RaceConfigs \cup BoundaryConfigs
=============================================================================
