------------------------------- MODULE Watch -------------------------------
(***************************************************************************)
(* plutus-watch (src/bin/plutus-watch.rs): it reads a watchlist once, and  *)
(* at every look scans a TSV snapshot for the watched addresses that have  *)
(* a balance, prints what changed since its last look and sends it to a    *)
(* webhook and to ServerChan.  Any error ends the process, and nothing in  *)
(* the repository starts it again.  The snapshot belongs to others: it is  *)
(* replaced by a rename, or written over while it is read.                 *)
(***************************************************************************)
EXTENDS Integers, Sequences, FiniteSets

CONSTANTS Addresses,   \* addresses that may be watched
          Lists,       \* watchlist files, sequences of lines
          Files,       \* contents the snapshot may have, sequences of rows
          Endpoints,   \* the sets of configured endpoints considered
          MaxWrites,   \* how often the snapshot may change
          MaxFaults,   \* how often reading or sending may fail
          Header, Junk, \* the header's first column, and anything else
          Missing       \* no file of that name

\* What the balance column of a row may be; "absent" is a row without one.
Balances == {"positive", "zero", "absent", "blank", "text"}
Rows == [addr : Addresses \cup {Header, Junk}, balance : Balances]
Lines == Addresses \cup {"comment", "invalid"}

ASSUME WatchAssumption ==
  /\ Lists \subseteq Seq(Lines) /\ Files \subseteq Seq(Rows)
  /\ Endpoints \subseteq SUBSET {"webhook", "serverchan"}
  /\ MaxWrites \in Nat /\ MaxFaults \in Nat
  /\ Missing \notin Files /\ {Header, Junk} \cap Addresses = {}

VARIABLES
  lines,    \* the watchlist file
  once,     \* --once
  named,    \* --include-addresses
  hooks,    \* which endpoints the environment configures
  pc,       \* where the process is
  list,     \* load_watchlist's result
  previous, \* the funded watched addresses of the last look
  reading,  \* the contents the opened file has had since it was opened
  at,       \* the next row
  linked,   \* the file of that name is still the one that was opened
  funded,   \* funded_watched
  added, removed,
  file,     \* what the snapshot of that name holds, or will when it is written
  bodies,   \* the contents that are mixed in it while it is being written over
  ahead,    \* its mtime is after the clock
  sum,      \* history: what the counts in the messages since the start add up to
  life,     \* history: what the addresses in these messages add up to
  writes, faults

options == <<lines, once, named, hooks>>
scan == <<reading, at, linked, funded>>
report == <<added, removed>>
told == <<sum, life>>
outside == <<file, bodies, ahead, writes>>
vars == <<options, pc, list, previous, scan, report, outside, told, faults>>

Listeners == {"stdout", "webhook", "serverchan"}
Ended == {"done", "failed"}
Places == Ended \cup
  {"load", "look", "scan", "print", "webhook", "serverchan", "keep", "sleep"}

-----------------------------------------------------------------------------
\* Reading

\* load_watchlist: comments and empty lines are skipped; an address that does
\* not parse or comes twice is an error, and so is an empty list.
Strict(ls) ==
  /\ \E n \in DOMAIN ls : ls[n] \in Addresses
  /\ \A n \in DOMAIN ls : ls[n] # "invalid"
  /\ \A n, m \in DOMAIN ls : ls[n] = ls[m] /\ ls[n] \in Addresses => n = m

\* Mutation of Watched: no line is skipped.
WatchedRaw(ls) == {ls[n] : n \in DOMAIN ls}

\* The addresses a watchlist names.
Watched(ls) == {ls[n] : n \in DOMAIN ls} \cap Addresses

\* balance_is_positive; a row without the column stands for one.
Positive(balance) == balance \in {"positive", "absent"}

\* Whether check_snapshot takes the row's address; a header is nobody's address.
Counts(row, watched) == row.addr \in watched /\ Positive(row.balance)

FundedIn(rows, watched) == {rows[n].addr : n \in {m \in DOMAIN rows : Counts(rows[m], watched)}}

-----------------------------------------------------------------------------
\* run

\* The file is closed and the look's results are gone.
Forget ==
  /\ reading' = {} /\ at' = 1 /\ linked' = FALSE /\ funded' = {}
  /\ added' = {} /\ removed' = {}

\* main prints the error and exits with 1.
Exit == pc' = "failed" /\ Forget

\* The options and the watchlist; parse_options has seen to both paths and the interval.
LoadList ==
  /\ pc = "load"
  /\ IF Strict(lines)
     THEN pc' = "look" /\ list' = Watched(lines) /\ UNCHANGED <<scan, report>>
     ELSE Exit /\ UNCHANGED list
  /\ UNCHANGED <<options, previous, outside, told, faults>>

Open ==
  /\ pc = "look"
  /\ IF file = Missing
     THEN Exit
     ELSE /\ pc' = "scan" /\ reading' = bodies /\ at' = 1 /\ linked' = TRUE /\ funded' = {}
          /\ UNCHANGED report
  /\ UNCHANGED <<options, list, previous, outside, told, faults>>

\* Several contents pass under a scan.
Torn(contents) == \E b, d \in contents : b # d

\* What may come as row n.  A file that is truncated and filled again under the scan
\* ends anywhere, before the balance column too, and goes on with parts of other rows.
RowsAt(contents, n) ==
  IF Torn(contents)
  THEN [addr : UNION {{b[m].addr : m \in DOMAIN b} : b \in contents} \cup {Junk},
        balance : Balances]
  ELSE {b[n] : b \in contents}

ReadRow ==
  /\ pc = "scan" /\ \E b \in reading : at <= Len(b)
  /\ \E row \in RowsAt(reading, at) :
       funded' = IF Counts(row, list) THEN funded \cup {row.addr} ELSE funded
  /\ at' = at + 1
  /\ UNCHANGED <<options, pc, list, previous, reading, linked, report, outside, told, faults>>

\* The end of the file, which a file that is being written over may have anywhere.
AtEnd == Torn(reading) \/ \A b \in reading : at > Len(b)

\* A line cannot be read, or is no UTF-8.
ReadFails ==
  /\ pc = "scan" /\ faults < MaxFaults /\ faults' = faults + 1
  /\ Exit
  /\ UNCHANGED <<options, list, previous, outside, told>>

\* The end of the file, and what is different from the last look.
Differ ==
  /\ pc = "scan" /\ AtEnd
  /\ added' = funded \ previous /\ removed' = previous \ funded
  /\ pc' = "print" /\ at' = 1 /\ linked' = FALSE
  /\ UNCHANGED <<options, list, previous, reading, funded, outside, told, faults>>

\* Listener c gets one more message: always the counts, the addresses if wanted.
Tell(c) ==
  /\ sum' = [sum EXCEPT ![c] = @ + Cardinality(added) - Cardinality(removed)]
  /\ life' = IF named THEN [life EXCEPT ![c] = (@ \cup added) \ removed] ELSE life

\* format_report asks for the age of the file of that name now, which may be gone
\* or newer than the clock; then the message is printed.
Announce ==
  /\ pc = "print"
  /\ IF file = Missing \/ ahead
     THEN Exit /\ UNCHANGED told
     ELSE pc' = "webhook" /\ Tell("stdout") /\ UNCHANGED <<scan, report>>
  /\ UNCHANGED <<options, list, previous, outside, faults>>

After(c) == IF c = "webhook" THEN "serverchan" ELSE "keep"

\* notify_if_configured, one endpoint: not configured, or the service took it.
Post(c) ==
  /\ pc = c /\ pc' = After(c)
  /\ IF c \in hooks THEN Tell(c) ELSE UNCHANGED told
  /\ UNCHANGED <<options, list, previous, scan, report, outside, faults>>

\* Mutation of PostFails: the error is ignored, and this listener misses a change.
PostFailsIgnored(c) ==
  /\ pc = c /\ c \in hooks /\ faults < MaxFaults /\ faults' = faults + 1
  /\ pc' = After(c)
  /\ UNCHANGED <<options, list, previous, scan, report, outside, told>>

\* An error or an answer that is no success, which a message that arrived may have too.
PostFails(c) ==
  /\ pc = c /\ c \in hooks /\ faults < MaxFaults /\ faults' = faults + 1
  /\ Exit
  /\ UNCHANGED told \/ Tell(c)
  /\ UNCHANGED <<options, list, previous, outside>>

\* Mutation of Keep: what was funded once stays.
KeepAll ==
  /\ pc = "keep"
  /\ previous' = previous \cup funded
  /\ pc' = (IF once THEN "done" ELSE "sleep") /\ Forget
  /\ UNCHANGED <<options, list, outside, told, faults>>

\* This look is what the next is compared with; --once ends the process.
Keep ==
  /\ pc = "keep"
  /\ previous' = funded
  /\ pc' = (IF once THEN "done" ELSE "sleep") /\ Forget
  /\ UNCHANGED <<options, list, outside, told, faults>>

Wake ==
  /\ pc = "sleep" /\ pc' = "look"
  /\ UNCHANGED <<options, list, previous, scan, report, outside, told, faults>>

-----------------------------------------------------------------------------
\* Around the process

\* Somebody starts it again, and it remembers nothing.
Start ==
  /\ pc \in Ended /\ pc' = "load"
  /\ list' = {} /\ previous' = {} /\ Forget
  /\ sum' = [c \in Listeners |-> 0] /\ life' = [c \in Listeners |-> {}]
  /\ UNCHANGED <<options, outside, faults>>

\* A new snapshot takes the name, its mtime perhaps that of another clock.
Replace(new) ==
  /\ writes < MaxWrites /\ writes' = writes + 1 /\ new # file
  /\ file' = new /\ bodies' = {new} \ {Missing} /\ ahead' \in BOOLEAN /\ linked' = FALSE
  /\ UNCHANGED <<options, pc, list, previous, reading, at, funded, report, told, faults>>

\* Somebody begins to write the file over, under the eyes of a scan too.
WriteOver(new) ==
  /\ writes < MaxWrites /\ writes' = writes + 1 /\ file # Missing /\ new # file
  /\ file' = new /\ bodies' = bodies \cup {new} /\ ahead' \in BOOLEAN
  /\ reading' = IF pc = "scan" /\ linked THEN reading \cup {new} ELSE reading
  /\ UNCHANGED <<options, pc, list, previous, at, linked, funded, report, told, faults>>

\* The last of it is written, or there is no room for more: `Files` has cut ones too.
Written ==
  /\ file # Missing /\ bodies # {file} /\ bodies' = {file}
  /\ UNCHANGED <<options, pc, list, previous, scan, report, file, ahead, writes, told, faults>>

\* The clock passes the file's mtime.
CatchUp ==
  /\ ahead /\ ahead' = FALSE
  /\ UNCHANGED <<options, pc, list, previous, scan, report, file, bodies, writes, told, faults>>

Init ==
  /\ lines \in Lists /\ once \in BOOLEAN /\ named \in BOOLEAN /\ hooks \in Endpoints
  /\ pc = "load" /\ list = {} /\ previous = {} /\ added = {} /\ removed = {}
  /\ reading = {} /\ at = 1 /\ linked = FALSE /\ funded = {}
  /\ file \in Files \cup {Missing} /\ bodies = {file} \ {Missing} /\ ahead = FALSE
  /\ sum = [c \in Listeners |-> 0] /\ life = [c \in Listeners |-> {}]
  /\ writes = 0 /\ faults = 0

Step ==
  \/ LoadList \/ Open \/ ReadRow \/ Differ \/ Announce \/ Keep \/ Wake
  \/ \E c \in {"webhook", "serverchan"} : Post(c)

Next ==
  \/ Step \/ ReadFails \/ \E c \in {"webhook", "serverchan"} : PostFails(c)
  \/ Start \/ Written \/ CatchUp
  \/ \E new \in Files \cup {Missing} : Replace(new)
  \/ \E new \in Files : WriteOver(new)

Spec == Init /\ [][Next]_vars

\* The process goes on as long as it lives; nobody has to start it again.
FairSpec == Spec /\ WF_vars(Step)

-----------------------------------------------------------------------------
\* Properties

Told == hooks \cup {"stdout"}

TypeOK ==
  /\ hooks \subseteq Listeners /\ once \in BOOLEAN /\ named \in BOOLEAN
  /\ pc \in Places /\ list \subseteq Addresses /\ previous \subseteq list
  /\ reading \subseteq Files /\ at \in Nat \ {0} /\ linked \in BOOLEAN
  /\ funded \subseteq list /\ added \subseteq list /\ removed \subseteq list
  /\ file \in Files \cup {Missing} /\ bodies \subseteq Files /\ ahead \in BOOLEAN
  /\ sum \in [Listeners -> Int] /\ life \in [Listeners -> SUBSET Addresses]
  /\ writes \in Nat /\ faults \in Nat

\* Between two looks every listener's messages of this process add up to what the
\* process remembers, the counts always and the addresses if they are told: no look
\* is told twice or not at all (plutus-watch.rs:68).
ChangesAddUp ==
  pc = "sleep" =>
    \A c \in Told : sum[c] = Cardinality(previous) /\ (named => life[c] = previous)

\* The snapshot stays as it is, and the process has yet to look at it.
Settled ==
  /\ writes = MaxWrites /\ bodies = {file} \ {Missing} /\ file # Missing
  /\ pc \in {"load", "look"} \/ (~once /\ pc \notin Ended)

\* What listener c was told agrees with the snapshot in the number of funded
\* addresses and, if addresses are told, in a.
Agrees(c, a) ==
  /\ file # Missing /\ sum[c] = Cardinality(FundedIn(file, list))
  /\ named => (a \in life[c] <=> a \in FundedIn(file, list))

\* A watched address that has a balance in the last snapshot is told to every
\* configured listener by a process that lives, whatever torn or replaced file it
\* has seen before; by number only, unless --include-addresses (plutus-watch.rs:67).
FundedIsTold ==
  \A a \in Addresses, c \in Listeners :
    (Settled /\ Strict(lines) /\ c \in Told /\ a \in FundedIn(file, Watched(lines)))
    ~> Agrees(c, a) \/ pc = "failed"

\* One that lost its balance is told by the process that told of it, if it lives.
LossIsTold ==
  \A a \in Addresses, c \in Listeners :
    (Settled /\ c \in Told /\ a \in previous /\ a \notin FundedIn(file, list))
    ~> Agrees(c, a) \/ pc = "failed"

\* Documented: "a change event only when a watched address changes membership between
\* two snapshots" (docs/REVIVAL_PLAN.md:118).  Does not hold: of a file written over
\* during the scan a row may be cut before its balance, which counts as funded
\* (plutus-watch.rs:193), and a file that ends early loses what comes after.
ChangeIsReal ==
  pc = "print" =>
    /\ \A a \in added : \E b \in reading : a \in FundedIn(b, list)
    /\ \A a \in removed : \E b \in reading : a \notin FundedIn(b, list)

=============================================================================
