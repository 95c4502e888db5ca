---------------------------- MODULE FundedStore -----------------------------
(***************************************************************************)
(* What the funded set on disk promises, with an import as one atomic step *)
(* from a whole dump to the snapshot: no chunks, no temporary file, no     *)
(* conversion, no crash.  The snapshot becomes the dump downloaded last,   *)
(* or the bundled pickles, and otherwise stays what it was; and the engine *)
(* answers by the snapshot it opened until it closes it.                   *)
(***************************************************************************)
CONSTANTS Keys, Pickles, Nil

VARIABLES latest,  \* the keys of the last download, Nil when there is no whole one
          kept,    \* the keys of the snapshot, Nil when there is none
          served   \* the keys lookups are answered by, Nil while there are none

fvars == <<latest, kept, served>>

FInit ==
  /\ latest = Nil
  /\ kept \in (SUBSET Keys) \cup {Nil}
  /\ served = Nil

\* A download begins from nothing and may break; an import removes it at its end.
Download ==
  /\ latest' \in (SUBSET Keys) \cup {Nil}
  /\ UNCHANGED <<kept, served>>

Import ==
  /\ kept' \in {latest, Pickles} \ {Nil}
  /\ UNCHANGED <<latest, served>>

Open ==
  /\ served = Nil /\ kept # Nil
  /\ served' = kept
  /\ UNCHANGED <<latest, kept>>

Close ==
  /\ served # Nil
  /\ served' = Nil
  /\ UNCHANGED <<latest, kept>>

FNext == Download \/ Import \/ Open \/ Close

FSpec == FInit /\ [][FNext]_fvars

=============================================================================
