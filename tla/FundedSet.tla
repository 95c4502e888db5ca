----------------------------- MODULE FundedSet ------------------------------
(***************************************************************************)
(* What db.rs promises whoever looks a hash up: a set.  Rows are gathered, *)
(* become the keys of the snapshot in one step, are loaded and asked for;  *)
(* no chunk, order, format, filter, bucket or conversion shows.            *)
(***************************************************************************)
CONSTANTS Hashes, Nil

VARIABLES gathered,  \* the rows of the import under way
          kept,      \* the keys of the snapshot, Nil when there is none
          served,    \* the keys lookups are answered by, Nil while there are none
          asked,     \* the key of the lookup under way, or Nil
          answer     \* "none" without a lookup, "open" before there is an answer

svars == <<gathered, kept, served, asked, answer>>

SInit ==
  /\ gathered = {} /\ kept \in (SUBSET Hashes) \cup {Nil} /\ served = Nil
  /\ asked = Nil /\ answer = "none"

\* An import begins with nothing, and with the old set released.
Begin ==
  /\ answer = "none"
  /\ gathered' = {} /\ served' = Nil
  /\ UNCHANGED <<kept, asked, answer>>

Gather(h) ==
  /\ served = Nil
  /\ gathered' = gathered \cup {h}
  /\ UNCHANGED <<kept, served, asked, answer>>

Finish ==
  /\ served = Nil
  /\ kept' = gathered /\ gathered' = {}
  /\ UNCHANGED <<served, asked, answer>>

\* An import into memory may do without a snapshot.
FinishInMemory ==
  /\ served = Nil
  /\ served' = gathered /\ kept' \in {gathered, kept} /\ gathered' = {}
  /\ UNCHANGED <<asked, answer>>

Open ==
  /\ served = Nil /\ kept # Nil
  /\ served' = kept
  /\ UNCHANGED <<gathered, kept, asked, answer>>

Close ==
  /\ answer = "none"
  /\ served' = Nil
  /\ UNCHANGED <<gathered, kept, asked, answer>>

Truth(h) == IF h \in served THEN "yes" ELSE "no"

\* A lookup is answered at once or later, or by an error before it began to search.
Ask(h) ==
  /\ served # Nil /\ answer = "none"
  /\ asked' = h /\ answer' \in {"open", Truth(h), "error"}
  /\ UNCHANGED <<gathered, kept, served>>

Reply ==
  /\ answer = "open"
  /\ answer' = Truth(asked)
  /\ UNCHANGED <<gathered, kept, served, asked>>

Take ==
  /\ answer \in {"yes", "no", "error"}
  /\ asked' = Nil /\ answer' = "none"
  /\ UNCHANGED <<gathered, kept, served>>

SNext ==
  \/ \E h \in Hashes : Gather(h) \/ Ask(h)
  \/ Begin \/ Finish \/ FinishInMemory \/ Open \/ Close \/ Reply \/ Take

SSpec == SInit /\ [][SNext]_svars

=============================================================================
