----------------------------- MODULE WatchProofs ----------------------------
(***************************************************************************)
(* Theorems about Watch, for every set of addresses, watchlists, contents  *)
(* of the snapshot and endpoints, and every number of changes and errors.  *)
(***************************************************************************)
EXTENDS Watch, FiniteSetTheorems, TLAPS

\* Whether listener c has this look's message.
Done(c) ==
  \/ pc = "keep"
  \/ c = "stdout" /\ pc \in {"webhook", "serverchan"}
  \/ c = "webhook" /\ pc = "serverchan"

\* The look that listener c's messages add up to.
Shown(c) == IF Done(c) THEN funded ELSE previous

\* Both ways of adding up a listener's messages lead to the set g.
Adds(c, g) == sum[c] = Cardinality(g) /\ (named => life[c] = g)

\* A process begins with nothing; what is reported is the difference to the last
\* look; every listener's messages add up to this look if it has its message, and
\* to the last one if not.
ReportInv ==
  /\ pc = "load" => previous = {} /\ funded = {} /\ added = {} /\ removed = {}
  /\ pc \in {"print", "webhook", "serverchan", "keep"} =>
       added = funded \ previous /\ removed = previous \ funded
  /\ pc \notin Ended => \A c \in Told : Adds(c, Shown(c))

\* The watchlist is one of those considered, and what is watched is finite.
ListInv == lines \in Lists /\ hooks \subseteq {"webhook", "serverchan"} /\ IsFiniteSet(list)

WatchInv == TypeOK /\ ReportInv /\ ListInv

-----------------------------------------------------------------------------

\* A watchlist names finitely many addresses.
LEMMA WatchedFinite ==
  ASSUME NEW ls \in Lists
  PROVE  IsFiniteSet(Watched(ls))
<1>1. ls \in Seq(Lines)
  BY WatchAssumption
<1>2. PICK n \in Nat : DOMAIN ls = 1 .. n
  BY <1>1
<1> DEFINE img == {ls[m] : m \in 1 .. n}
<1>3. ls \in Surjection(1 .. n, img)
  BY <1>1, <1>2, Z3 DEF Surjection
<1>4. IsFiniteSet(img)
  BY <1>3, FS_Surjection, FS_Interval
<1> HIDE DEF img
<1>5. Watched(ls) \in SUBSET img
  BY <1>2 DEF Watched, img
<1> QED
  BY <1>4, <1>5, FS_Subset

\* The differences lead from one set to the other, and so do their sizes.
LEMMA DifferenceApplies ==
  ASSUME NEW f, NEW g, IsFiniteSet(f), IsFiniteSet(g)
  PROVE  /\ (f \cup (g \ f)) \ (f \ g) = g
         /\ Cardinality(f) + Cardinality(g \ f) - Cardinality(f \ g) = Cardinality(g)
<1>1. /\ Cardinality(f \ g) = Cardinality(f) - Cardinality(f \cap g)
      /\ Cardinality(g \ f) = Cardinality(g) - Cardinality(g \cap f)
      /\ IsFiniteSet(f \cap g)
  BY FS_Difference, FS_Intersection
<1>2. /\ Cardinality(f) \in Nat /\ Cardinality(g) \in Nat /\ Cardinality(f \cap g) \in Nat
  BY <1>1, FS_CardinalityType
<1>3. Cardinality(g \cap f) = Cardinality(f \cap g)
  <2>1. g \cap f = f \cap g
    OBVIOUS
  <2> QED
    BY <2>1
<1> DEFINE n == Cardinality(f)
           m == Cardinality(g)
           k == Cardinality(f \cap g)
           more == Cardinality(g \ f)
           less == Cardinality(f \ g)
<1>4. less = n - k /\ more = m - k /\ n \in Nat /\ m \in Nat /\ k \in Nat
  BY <1>1, <1>2, <1>3
<1> HIDE DEF n, m, k, more, less
<1>5. n + more - less = m
  BY <1>4
<1>6. (f \cup (g \ f)) \ (f \ g) = g
  OBVIOUS
<1> QED
  BY <1>5, <1>6 DEF n, m, more, less

\* A message of this look's differences takes a listener from the last look to this one.
LEMMA TellAdds ==
  ASSUME WatchInv, NEW c \in Listeners, Tell(c), Adds(c, previous),
         added = funded \ previous, removed = previous \ funded
  PROVE  /\ sum'[c] = Cardinality(funded) /\ (named => life'[c] = funded)
         /\ \A d \in Listeners \ {c} : sum'[d] = sum[d] /\ life'[d] = life[d]
<1>1. IsFiniteSet(previous) /\ IsFiniteSet(funded)
  BY FS_Subset DEF WatchInv, TypeOK, ListInv
<1>2. sum \in [Listeners -> Int] /\ life \in [Listeners -> SUBSET Addresses]
  BY DEF WatchInv, TypeOK
<1>3. sum'[c] = Cardinality(funded)
  <2>1. sum'[c] = Cardinality(previous) + Cardinality(added) - Cardinality(removed)
    BY <1>2 DEF Tell, Adds
  <2> QED
    BY <2>1, <1>1, DifferenceApplies
<1>4. named => life'[c] = funded
  BY <1>1, <1>2, DifferenceApplies DEF Tell, Adds
<1>5. \A d \in Listeners \ {c} : sum'[d] = sum[d] /\ life'[d] = life[d]
  BY <1>2 DEF Tell
<1> QED
  BY <1>3, <1>4, <1>5

\* Whatever it says, a message leaves sums and sets.
LEMMA TellTypes ==
  ASSUME WatchInv, NEW c \in Listeners, Tell(c) \/ UNCHANGED told
  PROVE  sum' \in [Listeners -> Int] /\ life' \in [Listeners -> SUBSET Addresses]
<1>1. /\ sum \in [Listeners -> Int] /\ life \in [Listeners -> SUBSET Addresses]
      /\ added \subseteq Addresses
  BY DEF WatchInv, TypeOK
<1>2. CASE UNCHANGED told
  BY <1>1, <1>2 DEF told
<1>3. CASE Tell(c)
  <2>1. IsFiniteSet(added) /\ IsFiniteSet(removed)
    BY FS_Subset DEF WatchInv, TypeOK, ListInv
  <2>2. Cardinality(added) \in Nat /\ Cardinality(removed) \in Nat
    BY <2>1, FS_CardinalityType
  <2>3. sum' \in [Listeners -> Int]
    BY <1>1, <1>3, <2>2 DEF Tell
  <2>4. life' \in [Listeners -> SUBSET Addresses]
    BY <1>1, <1>3 DEF Tell
  <2> QED
    BY <2>3, <2>4
<1> QED
  BY <1>2, <1>3

LEMMA WatchInit == Init => WatchInv
<1> SUFFICES ASSUME Init PROVE WatchInv
  OBVIOUS
<1>1. hooks \subseteq {"webhook", "serverchan"}
  BY WatchAssumption DEF Init
<1>2. TypeOK
  <2>1. sum \in [Listeners -> Int] /\ life \in [Listeners -> SUBSET Addresses]
    BY DEF Init
  <2>2. bodies \subseteq Files /\ reading \subseteq Files /\ at \in Nat \ {0}
        /\ writes \in Nat /\ faults \in Nat
    BY DEF Init
  <2> QED
    BY <1>1, <2>1, <2>2 DEF Init, TypeOK, Places, Ended, Listeners
<1>3. ReportInv
  BY <1>1, FS_EmptySet DEF Init, ReportInv, Adds, Shown, Done, Told, Listeners, Ended
<1>4. ListInv
  BY <1>1, FS_EmptySet DEF Init, ListInv
<1> QED
  BY <1>2, <1>3, <1>4 DEF WatchInv

\* What is forgotten has its type, whatever is watched.
LEMMA ForgetTypes ==
  ASSUME Forget, NEW watched
  PROVE  /\ reading' \subseteq Files /\ at' \in Nat \ {0} /\ linked' \in BOOLEAN
         /\ funded' \subseteq watched /\ added' \subseteq watched /\ removed' \subseteq watched
<1>1. reading' \subseteq Files /\ linked' \in BOOLEAN
  BY Zenon DEF Forget
<1>2. at' \in Nat \ {0}
  BY DEF Forget
<1>3. funded' \subseteq watched /\ added' \subseteq watched /\ removed' \subseteq watched
  BY DEF Forget
<1> QED
  BY <1>1, <1>2, <1>3

\* A process that ends has nothing to keep but its types and what it watched.
LEMMA ExitKeeps ==
  ASSUME WatchInv, Exit, UNCHANGED <<options, list, previous, file, bodies, ahead, writes>>,
         sum' \in [Listeners -> Int], life' \in [Listeners -> SUBSET Addresses], faults' \in Nat
  PROVE  WatchInv'
<1>1. TypeOK'
  <2>1. pc' \in Places
    BY DEF Exit, Places, Ended
  <2>2. hooks' \subseteq Listeners /\ once' \in BOOLEAN /\ named' \in BOOLEAN
    BY DEF WatchInv, TypeOK, options
  <2> QED
    BY <2>1, <2>2, ForgetTypes DEF WatchInv, TypeOK, Exit
<1>2. ReportInv' /\ ListInv'
  BY DEF WatchInv, ReportInv, ListInv, Exit, Forget, Ended, options
<1> QED
  BY <1>1, <1>2 DEF WatchInv

\* The watchlist is read before anything is known.
LEMMA LoadKeeps ==
  ASSUME WatchInv, LoadList
  PROVE  WatchInv'
<1>1. CASE Strict(lines)
  <2>1. /\ pc = "load" /\ pc' = "look" /\ list' = Watched(lines)
        /\ UNCHANGED <<options, previous, scan, report, outside, told, faults>>
    BY <1>1 DEF LoadList
  <2>2. /\ previous = {} /\ funded = {} /\ added = {} /\ removed = {}
        /\ list' \subseteq Addresses
    BY <2>1 DEF WatchInv, ReportInv, Watched
  <2>3. IsFiniteSet(list')
    BY <2>1, WatchedFinite DEF WatchInv, ListInv
  <2>4. TypeOK'
    <3>1. /\ previous' \subseteq list' /\ funded' \subseteq list'
          /\ added' \subseteq list' /\ removed' \subseteq list' /\ pc' \in Places
      BY <2>1, <2>2 DEF Places, scan, report
    <3>2. /\ hooks' \subseteq Listeners /\ once' \in BOOLEAN /\ named' \in BOOLEAN
          /\ reading' \subseteq Files /\ at' \in Nat \ {0} /\ linked' \in BOOLEAN
      BY <2>1 DEF WatchInv, TypeOK, options, scan
    <3>3. /\ file' \in Files \cup {Missing} /\ bodies' \subseteq Files /\ ahead' \in BOOLEAN
          /\ sum' \in [Listeners -> Int] /\ life' \in [Listeners -> SUBSET Addresses]
          /\ writes' \in Nat /\ faults' \in Nat
      BY <2>1 DEF WatchInv, TypeOK, outside, told
    <3> QED
      BY <2>2, <3>1, <3>2, <3>3 DEF TypeOK
  <2>5. ReportInv'
    BY <2>1 DEF WatchInv, ReportInv, Adds, Shown, Done, Told, Ended, options, scan, report, told
  <2> QED
    BY <2>1, <2>3, <2>4, <2>5 DEF WatchInv, ListInv, options
<1>2. CASE ~Strict(lines)
  BY <1>2, ExitKeeps DEF LoadList, WatchInv, TypeOK, outside, told
<1> QED
  BY <1>1, <1>2

\* A look begins with the file of that name.
LEMMA OpenKeeps ==
  ASSUME WatchInv, Open
  PROVE  WatchInv'
<1>1. CASE file = Missing
  BY <1>1, ExitKeeps DEF Open, WatchInv, TypeOK, outside, told
<1>2. CASE file # Missing
  <2>1. TypeOK'
    BY <1>2 DEF WatchInv, TypeOK, Open, Places, report, outside, told, options
  <2>2. ReportInv' /\ ListInv'
    BY <1>2 DEF WatchInv, ReportInv, ListInv, Open, Adds, Shown, Done, Told, Ended, options,
       report, told
  <2> QED
    BY <2>1, <2>2 DEF WatchInv
<1> QED
  BY <1>1, <1>2

\* One row, whatever it is made of, adds a watched address or none.
LEMMA ReadKeeps ==
  ASSUME WatchInv, ReadRow
  PROVE  WatchInv'
<1>1. /\ UNCHANGED <<options, pc, list, previous, reading, linked, report, outside, told, faults>>
      /\ pc = "scan" /\ at' = at + 1
  BY DEF ReadRow
<1>2. PICK row : funded' = IF Counts(row, list) THEN funded \cup {row.addr} ELSE funded
  BY DEF ReadRow
<1>3. funded' \subseteq list
  BY <1>2 DEF WatchInv, TypeOK, Counts
<1>4. TypeOK'
  BY <1>1, <1>3 DEF WatchInv, TypeOK, options, report, outside, told
<1>5. ReportInv' /\ ListInv'
  BY <1>1 DEF WatchInv, ReportInv, ListInv, Adds, Shown, Done, Told, Ended, options, report, told
<1> QED
  BY <1>4, <1>5 DEF WatchInv

\* The end of the scan.
LEMMA DifferKeeps ==
  ASSUME WatchInv, Differ
  PROVE  WatchInv'
<1>1. /\ UNCHANGED <<options, list, previous, reading, funded, outside, told, faults>>
      /\ pc = "scan" /\ pc' = "print" /\ at' = 1 /\ linked' = FALSE
      /\ added' = funded \ previous /\ removed' = previous \ funded
  BY DEF Differ
<1>2. TypeOK'
  <2>1. pc' \in Places /\ at' \in Nat \ {0} /\ added' \subseteq list /\ removed' \subseteq list
    BY <1>1 DEF WatchInv, TypeOK, Places
  <2>2. linked' \in BOOLEAN
    BY <1>1, Zenon
  <2> QED
    BY <1>1, <2>1, <2>2 DEF WatchInv, TypeOK, options, outside, told
<1>3. ReportInv' /\ ListInv'
  BY <1>1 DEF WatchInv, ReportInv, ListInv, Adds, Shown, Done, Told, Ended, options, told
<1> QED
  BY <1>2, <1>3 DEF WatchInv

\* The message is printed, or its age cannot be had.
LEMMA AnnounceKeeps ==
  ASSUME WatchInv, Announce
  PROVE  WatchInv'
<1>1. CASE file = Missing \/ ahead
  BY <1>1, ExitKeeps DEF Announce, WatchInv, TypeOK, outside, told
<1>2. CASE ~(file = Missing \/ ahead)
  <2>1. /\ UNCHANGED <<options, list, previous, scan, report, outside, faults>>
        /\ pc = "print" /\ pc' = "webhook" /\ Tell("stdout") /\ "stdout" \in Told
        /\ Told \subseteq Listeners
    BY <1>2 DEF Announce, Told, WatchInv, ListInv, Listeners
  <2>2. /\ sum'["stdout"] = Cardinality(funded) /\ (named => life'["stdout"] = funded)
        /\ \A d \in Listeners \ {"stdout"} : sum'[d] = sum[d] /\ life'[d] = life[d]
    <3>1. Adds("stdout", previous) /\ added = funded \ previous /\ removed = previous \ funded
      BY <2>1 DEF WatchInv, ReportInv, Shown, Done, Ended
    <3> QED
      BY <2>1, <3>1, TellAdds
  <2>3. TypeOK'
    BY <2>1, TellTypes DEF WatchInv, TypeOK, Places, options, scan, outside, report
  <2>4. \A d \in Told : Adds(d, Shown(d))'
    <3>1. Adds("stdout", Shown("stdout"))'
      BY <2>1, <2>2 DEF Adds, Shown, Done, options, scan
    <3>2. ASSUME NEW d \in Told \ {"stdout"} PROVE Adds(d, Shown(d))'
      BY <2>1, <2>2, <3>2 DEF WatchInv, ReportInv, Adds, Shown, Done, Ended, Listeners, options, scan
    <3> QED
      BY <3>1, <3>2
  <2>5. ReportInv' /\ ListInv'
    BY <2>1, <2>4 DEF WatchInv, ReportInv, ListInv, Told, options, scan, report
  <2> QED
    BY <2>3, <2>5 DEF WatchInv
<1> QED
  BY <1>1, <1>2

\* One endpoint has its message, or is not configured.
LEMMA PostKeeps ==
  ASSUME WatchInv, NEW c \in {"webhook", "serverchan"}, Post(c)
  PROVE  WatchInv'
<1>1. /\ UNCHANGED <<options, list, previous, scan, report, outside, faults>>
      /\ pc = c /\ pc' = After(c) /\ c \in Listeners /\ Told \subseteq Listeners
      /\ IF c \in hooks THEN Tell(c) ELSE UNCHANGED told
  BY DEF Post, Listeners, Told, WatchInv, ListInv
<1>2. TypeOK'
  <2>1. sum' \in [Listeners -> Int] /\ life' \in [Listeners -> SUBSET Addresses]
    BY <1>1, TellTypes
  <2> QED
    BY <1>1, <2>1 DEF WatchInv, TypeOK, Places, After, options, scan, outside, report
<1>3. c \in hooks => sum'[c] = Cardinality(funded) /\ (named => life'[c] = funded)
  <2> SUFFICES ASSUME c \in hooks
               PROVE  sum'[c] = Cardinality(funded) /\ (named => life'[c] = funded)
    OBVIOUS
  <2>1. Adds(c, previous) /\ added = funded \ previous /\ removed = previous \ funded
    BY <1>1 DEF WatchInv, ReportInv, Shown, Done, Ended, Told
  <2> QED
    BY <1>1, <2>1, TellAdds
<1>4. \A d \in Listeners \ {c} : sum'[d] = sum[d] /\ life'[d] = life[d]
  <2>1. sum \in [Listeners -> Int] /\ life \in [Listeners -> SUBSET Addresses]
    BY DEF WatchInv, TypeOK
  <2> QED
    BY <1>1, <2>1 DEF Tell, told
<1>5. ASSUME NEW d \in Told PROVE Adds(d, Shown(d))'
  <2>1. CASE d = c
    <3>1. c \in hooks /\ pc' # c /\ Done(c)'
      BY <1>1, <2>1 DEF Told, After, Done
    <3> QED
      BY <1>1, <1>3, <2>1, <3>1 DEF Adds, Shown, options, scan
  <2>2. CASE d # c
    <3>1. Done(d)' <=> Done(d)
      BY <1>1, <2>2 DEF Told, After, Done, Listeners
    <3>2. Adds(d, Shown(d))
      BY <1>1 DEF WatchInv, ReportInv, Ended
    <3> QED
      BY <1>1, <1>4, <2>2, <3>1, <3>2 DEF Adds, Shown, options, scan
  <2> QED
    BY <2>1, <2>2
<1>6. ReportInv' /\ ListInv'
  BY <1>1, <1>5 DEF WatchInv, ReportInv, ListInv, After, Told, options, scan, report
<1> QED
  BY <1>2, <1>6 DEF WatchInv

\* One endpoint, or a read, fails.
LEMMA FailKeeps ==
  ASSUME WatchInv, ReadFails \/ \E c \in {"webhook", "serverchan"} : PostFails(c)
  PROVE  WatchInv'
<1>1. faults' \in Nat /\ Exit /\ UNCHANGED <<options, list, previous, file, bodies, ahead, writes>>
  BY DEF WatchInv, TypeOK, ReadFails, PostFails, outside
<1>2. sum' \in [Listeners -> Int] /\ life' \in [Listeners -> SUBSET Addresses]
  <2>1. CASE ReadFails
    BY <2>1 DEF ReadFails, told, WatchInv, TypeOK
  <2>2. ASSUME NEW c \in {"webhook", "serverchan"}, PostFails(c)
        PROVE  sum' \in [Listeners -> Int] /\ life' \in [Listeners -> SUBSET Addresses]
    BY <2>2, TellTypes DEF PostFails, Listeners
  <2> QED
    BY <2>1, <2>2
<1> QED
  BY <1>1, <1>2, ExitKeeps

\* The look is remembered.
LEMMA KeepKeeps ==
  ASSUME WatchInv, Keep \/ Wake
  PROVE  WatchInv'
<1>1. CASE Keep
  <2>1. /\ UNCHANGED <<options, list, outside, told, faults>> /\ Forget
        /\ pc = "keep" /\ previous' = funded /\ pc' \in {"done", "sleep"}
    BY <1>1 DEF Keep
  <2>2. TypeOK'
    <3>1. pc' \in Places /\ previous' \subseteq list
      BY <2>1 DEF WatchInv, TypeOK, Places, Ended
    <3> QED
      BY <2>1, <3>1, ForgetTypes DEF WatchInv, TypeOK, outside, told, options
  <2>3. ReportInv' /\ ListInv'
    BY <2>1 DEF WatchInv, ReportInv, ListInv, Adds, Shown, Done, Told, Ended, Forget, options, told
  <2> QED
    BY <2>2, <2>3 DEF WatchInv
<1>2. CASE Wake
  <2>1. TypeOK'
    BY <1>2 DEF WatchInv, TypeOK, Wake, Places, scan, report, outside, told, options
  <2>2. ReportInv' /\ ListInv'
    BY <1>2 DEF Wake, WatchInv, ReportInv, ListInv, Adds, Shown, Done, Told, Ended, scan, report,
       told, options
  <2> QED
    BY <2>1, <2>2 DEF WatchInv
<1> QED
  BY <1>1, <1>2

\* A process begins.
LEMMA StartKeeps ==
  ASSUME WatchInv, Start
  PROVE  WatchInv'
<1>1. sum' \in [Listeners -> Int] /\ life' \in [Listeners -> SUBSET Addresses]
  BY DEF Start
<1>2. TypeOK'
  <2>1. Forget /\ pc' \in Places /\ list' \subseteq Addresses /\ previous' \subseteq list'
    BY DEF Start, Places
  <2> QED
    BY <1>1, <2>1, ForgetTypes DEF WatchInv, TypeOK, Start, options, outside
<1>3. ReportInv'
  <2>1. Told' \subseteq Listeners
    BY DEF Start, WatchInv, ListInv, Told, Listeners, options
  <2> QED
    BY <2>1, FS_EmptySet DEF Start, Forget, ReportInv, Adds, Shown, Done, Ended
<1>4. ListInv'
  BY FS_EmptySet DEF Start, WatchInv, ListInv, options
<1> QED
  BY <1>2, <1>3, <1>4 DEF WatchInv

\* Others change the snapshot, and the clock goes on.
LEMMA OthersKeep ==
  ASSUME WatchInv,
         \/ Written \/ CatchUp
         \/ \E new \in Files \cup {Missing} : Replace(new)
         \/ \E new \in Files : WriteOver(new)
  PROVE  WatchInv'
<1>1. UNCHANGED <<options, pc, list, previous, at, funded, report, told, faults>>
  BY DEF Written, CatchUp, Replace, WriteOver, scan
<1>2. /\ reading' \subseteq Files /\ linked' \in BOOLEAN
      /\ file' \in Files \cup {Missing} /\ bodies' \subseteq Files
      /\ ahead' \in BOOLEAN /\ writes' \in Nat
  <2>1. CASE Written
    BY <2>1 DEF Written, WatchInv, TypeOK, ListInv, scan
  <2>2. CASE CatchUp
    BY <2>2 DEF CatchUp, WatchInv, TypeOK, scan
  <2>3. ASSUME NEW new \in Files \cup {Missing}, Replace(new)
        PROVE  /\ reading' \subseteq Files /\ linked' \in BOOLEAN
               /\ file' \in Files \cup {Missing} /\ bodies' \subseteq Files
               /\ ahead' \in BOOLEAN /\ writes' \in Nat
    <3>1. linked' \in BOOLEAN
      BY <2>3, Zenon DEF Replace
    <3>2. writes' \in Nat
      BY <2>3 DEF Replace, WatchInv, TypeOK
    <3> QED
      BY <2>3, <3>1, <3>2 DEF Replace, WatchInv, TypeOK
  <2>4. ASSUME NEW new \in Files, WriteOver(new)
        PROVE  /\ reading' \subseteq Files /\ linked' \in BOOLEAN
               /\ file' \in Files \cup {Missing} /\ bodies' \subseteq Files
               /\ ahead' \in BOOLEAN /\ writes' \in Nat
    BY <2>4 DEF WriteOver, WatchInv, TypeOK
  <2> QED
    BY <2>1, <2>2, <2>3, <2>4
<1>3. TypeOK'
  BY <1>1, <1>2 DEF WatchInv, TypeOK, options, report, told
<1>4. ReportInv' /\ ListInv'
  BY <1>1 DEF WatchInv, ReportInv, ListInv, Adds, Shown, Done, Told, Ended, options, report, told
<1> QED
  BY <1>3, <1>4 DEF WatchInv

\* The invariant is inductive.
LEMMA WatchNext == WatchInv /\ [Next]_vars => WatchInv'
<1> SUFFICES ASSUME WatchInv, [Next]_vars PROVE WatchInv'
  OBVIOUS
<1>1. CASE UNCHANGED vars
  <2>1. UNCHANGED <<options, pc, list, previous, scan, report, outside, told, faults>>
    BY <1>1 DEF vars
  <2>2. TypeOK'
    BY <2>1 DEF WatchInv, TypeOK, options, scan, report, outside, told
  <2>3. ReportInv' /\ ListInv'
    BY <2>1 DEF WatchInv, ReportInv, ListInv, Adds, Shown, Done, Told, Ended, options, scan, report,
       told
  <2> QED
    BY <2>2, <2>3 DEF WatchInv
<1> QED
  BY <1>1, LoadKeeps, OpenKeeps, ReadKeeps, DifferKeeps, AnnounceKeeps, PostKeeps, FailKeeps,
     KeepKeeps, StartKeeps, OthersKeep DEF Next, Step

\* Every variable keeps its type; among it that a process only ever speaks of addresses
\* of its own watchlist, whatever a torn file shows it (plutus-watch.rs:189).
THEOREM WatchTypeCorrect == Spec => []TypeOK
<1>1. WatchInv => TypeOK
  BY DEF WatchInv
<1> QED
  BY <1>1, WatchInit, WatchNext, PTL DEF Spec

\* Between two looks the messages of this process add up to what it remembers, in
\* numbers and in addresses, for every configured listener, whatever the snapshot went
\* through (plutus-watch.rs:56-70).
THEOREM MessagesAddUp == Spec => []ChangesAddUp
<1>1. WatchInv => ChangesAddUp
  BY DEF WatchInv, ReportInv, ChangesAddUp, Adds, Shown, Done, Ended
<1> QED
  BY <1>1, WatchInit, WatchNext, PTL DEF Spec

=============================================================================
