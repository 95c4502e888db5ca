--------------------------- MODULE MCFundedIndex ----------------------------
(***************************************************************************)
(* A small instance of FundedIndex for TLC.                                *)
(***************************************************************************)
EXTENDS FundedIndex

\* Two buckets of three.
MCHashes == 0..5
MCBuckets == {0, 1}

\* 1 and 4, in different buckets, have the same bits; so have 0 and 2, in the same one.
MCMix == [h \in MCHashes |->
  CASE h \in {1, 4} -> <<4099, 20011>> [] h \in {0, 2} -> <<65535, 65535>>
    [] OTHER -> <<(h * 9973) % 65536, (h * 27644 + 1) % 65536>>]

RECURSIVE Ordered(_)
Ordered(S) == IF S = {} THEN <<>>
              ELSE LET m == CHOOSE x \in S : \A y \in S : x <= y
                   IN <<m>> \o Ordered(S \ {m})
MCSort == [S \in SUBSET MCHashes |-> Ordered(S)]

\* Profiles, modes, sizes of the filter below and above the limits, zeros, a number
\* that does not parse; environments that override.
Empty == [f \in {} |-> 0]
MCFiles ==
  {[lookup |-> "sorted", max_snapshot_age_hours |-> 0],
   [profile |-> "low", cpu_percent |-> 0],
   [bits_per_key |-> 2, lookup |-> "disk"],
   [profile |-> "full", bits_per_key |-> 40, walk_span |-> 0],
   [cpu_percent |-> 300, lookup |-> "hash"],
   [profile |-> "fast", lookup |-> "hashset", heartbeat_minutes |-> 0]}
MCEnvs == {Empty, [cpu_percent |-> 0, threads |-> 0, check_uncompressed |-> "on"]}

MCOldSets == {{0, 2, 3, 5}}

=============================================================================
